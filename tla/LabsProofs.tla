------------------------------ MODULE LabsProofs ------------------------------
(***************************************************************************)
(* The small programs of the labs for any constants: the remote shell and  *)
(* the password tools of lab06, traceroute of lab07, the list of lab04,    *)
(* the echo of lab11, the doubly linked list of lab01, the cookies of      *)
(* lab02, the reflector of lab04 and the relay with a CRC of lab08.        *)
(***************************************************************************)
EXTENDS Labs, FiniteSetTheorems, SequenceTheorems, TLAPS

(* The modules that are instantiated have copies of the operators of       *)
(* FiniteSets.                                                             *)
LEMMA RshCardinality ==
  /\ \A S : Rsh!Cardinality(S) = Cardinality(S)
  /\ \A S : Rsh!IsFiniteSet(S) <=> IsFiniteSet(S)
BY DEF Rsh!Cardinality, Cardinality, Rsh!IsFiniteSet, IsFiniteSet

(***************************************************************************)
(* rshd.  A user has no child before the first connection and after a      *)
(* refusal, and is told nothing while the child serves.                    *)
(***************************************************************************)
LEMMA RshConstants == IsFiniteSet(User) /\ MaxTries \in Nat /\ MaxProc \in Nat \ {0}
BY RshCardinality, LabsAssumption DEF Rsh!ConstantsOK

Typable == {"", "garbage"} \cup UNION {{t[1], t[2]} : t \in Typed}

Told ==
  \A u \in User :
    /\ told[u] = "no" \/ tries[u] = 0 => child[u] = "none"
    /\ child[u] \in {"queued", "serving"} => told[u] = "none"

Streams == wire \in [User -> Seq(Typable)] /\ got \in [User -> Seq(Seq(Typable))]

Counts ==
  /\ acceptors = 1 + Cardinality(Rsh!Refused)
  /\ procs = acceptors + Cardinality(Rsh!Serving)
  /\ \A u \in User : child[u] = "unserved" => procs = MaxProc

RshInv == Rsh!TypeOK /\ Counts /\ Told /\ Streams

LEMMA RshInit ==
  ASSUME Rsh!Init
  PROVE  RshInv
<1>1. Told /\ Streams
  BY DEF Rsh!Init, Told, Streams
<1>2. Rsh!TypeOK
  <2>1. \A u \in User : Len(wire[u]) <= 2 /\ Len(got[u]) <= 2 /\ Rsh!Sent(u) <= wrote[u]
    <3>. TAKE u \in User
    <3>1. wire[u] = <<>> /\ got[u] = <<>>
      BY DEF Rsh!Init
    <3>2. Len(<<>>) = 0
      OBVIOUS
    <3>3. Rsh!Sent(u) = 0 + 0 + 0
      BY <3>1, <3>2 DEF Rsh!Sent
    <3>4. wrote[u] = 0
      BY DEF Rsh!Init
    <3>. QED
      BY <3>1, <3>2, <3>3, <3>4
  <2>2. tries \in [User -> 0 .. MaxTries] /\ 1 \in 1 .. MaxProc
    BY RshConstants DEF Rsh!Init
  <2>3. login \in [User -> Typed \cup {Rsh!NoLogin}] /\ left \subseteq User
    BY DEF Rsh!Init
  <2>4. /\ child \in [User -> Rsh!Stage] /\ told \in [User -> {"none", "yes", "no"}]
        /\ wrote \in [User -> 0 .. 2]
    BY DEF Rsh!Init, Rsh!Stage
  <2>. QED
    BY <2>1, <2>2, <2>3, <2>4 DEF Rsh!Init, Rsh!TypeOK
<1>3. Rsh!Refused = {} /\ Rsh!Serving = {}
  BY DEF Rsh!Init, Rsh!Refused, Rsh!Serving
<1>4. Cardinality(Rsh!Refused) = 0 /\ Cardinality(Rsh!Serving) = 0
  BY <1>3, FS_EmptySet
<1>. QED
  BY <1>1, <1>2, <1>4 DEF RshInv, Counts, Rsh!Init

(* What a connection carries: the words written are in wire or were read.  *)
LEMMA Types ==
  ASSUME RshInv
  PROVE  /\ tries \in [User -> 0 .. MaxTries] /\ login \in [User -> Typed \cup {Rsh!NoLogin}]
         /\ left \subseteq User /\ child \in [User -> Rsh!Stage]
         /\ told \in [User -> {"none", "yes", "no"}] /\ wrote \in [User -> 0 .. 2]
         /\ wire \in [User -> Seq(Typable)] /\ got \in [User -> Seq(Seq(Typable))]
         /\ acceptors \in 1 .. MaxProc /\ procs \in 1 .. MaxProc
BY DEF RshInv, Rsh!TypeOK, Streams

LEMMA SetsFinite ==
         /\ IsFiniteSet(Rsh!Serving) /\ Cardinality(Rsh!Serving) \in Nat
         /\ IsFiniteSet(Rsh!Refused) /\ Cardinality(Rsh!Refused) \in Nat
<1>1. Rsh!Serving \in SUBSET User /\ IsFiniteSet(User)
  BY RshConstants DEF Rsh!Serving
<1>2. IsFiniteSet(Rsh!Serving)
  BY <1>1, FS_Subset
<1>3. IsFiniteSet(1 .. MaxTries)
  BY FS_Interval, RshConstants
<1>4. IsFiniteSet(User \X (1 .. MaxTries))
  BY <1>1, <1>3, FS_Product
<1>5. Rsh!Refused \in SUBSET (User \X (1 .. MaxTries))
  BY DEF Rsh!Refused
<1>6. IsFiniteSet(Rsh!Refused)
  BY <1>4, <1>5, FS_Subset
<1>. QED
  BY <1>2, <1>6, FS_CardinalityType

LEMMA ConnectInv ==
  ASSUME RshInv, NEW u \in User, Rsh!Connect(u)
  PROVE  RshInv'
<1>1. /\ tries[u] < MaxTries /\ (told[u] = "no" \/ tries[u] = 0) /\ child[u] = "none"
      /\ tries' = [tries EXCEPT ![u] = @ + 1]
      /\ wire' = [wire EXCEPT ![u] = <<>>] /\ got' = [got EXCEPT ![u] = <<>>]
      /\ told' = [told EXCEPT ![u] = "none"] /\ child' = [child EXCEPT ![u] = "queued"]
      /\ left' = left /\ acceptors' = acceptors /\ procs' = procs
      /\ wrote' = [wrote EXCEPT ![u] = 0]
  BY DEF Rsh!Connect, RshInv, Told
<1>2. \A v \in User : v # u => /\ tries'[v] = tries[v] /\ wire'[v] = wire[v] /\ got'[v] = got[v]
                              /\ told'[v] = told[v] /\ child'[v] = child[v]
                              /\ wrote'[v] = wrote[v]
  BY <1>1, Types
<1>3. /\ tries[u] \in 0 .. MaxTries /\ tries'[u] = tries[u] + 1 /\ told'[u] = "none"
      /\ child'[u] = "queued" /\ wire'[u] = <<>> /\ got'[u] = <<>> /\ wrote'[u] = 0
  BY <1>1, Types
<1>4. /\ tries' \in [User -> 0 .. MaxTries] /\ child' \in [User -> Rsh!Stage]
      /\ told' \in [User -> {"none", "yes", "no"}] /\ Streams' /\ wrote' \in [User -> 0 .. 2]
  <2>1. tries[u] + 1 \in 0 .. MaxTries
    BY <1>1, <1>3, RshConstants
  <2>. QED
    BY <1>1, <2>1, Types DEF Streams, Rsh!Stage
<1>5. login' \in [User -> Typed \cup {Rsh!NoLogin}]
  BY Types DEF Rsh!Connect
<1>6. Told'
  BY <1>2, <1>3 DEF RshInv, Told
<1>7. Rsh!TypeOK'
  <2>1. Rsh!Sent(u)' <= wrote'[u] /\ Len(wire'[u]) <= 2 /\ Len(got'[u]) <= 2
    BY <1>3 DEF Rsh!Sent
  <2>2. \A v \in User : v # u => Rsh!Sent(v)' <= wrote'[v] /\ Len(wire'[v]) <= 2 /\ Len(got'[v]) <= 2
    BY <1>2 DEF Rsh!Sent, RshInv, Rsh!TypeOK
  <2>. QED
    BY <1>1, <1>4, <1>5, <2>1, <2>2, Types DEF Rsh!TypeOK
<1>8. Rsh!Serving' = Rsh!Serving
  BY <1>1, <1>2, <1>3 DEF Rsh!Serving
<1>9. Rsh!Refused' = Rsh!Refused
  <2>1. ASSUME NEW v \in User, NEW n \in 1 .. MaxTries
        PROVE  n < tries'[v] \/ (n = tries'[v] /\ told'[v] = "no")
                 <=> n < tries[v] \/ (n = tries[v] /\ told[v] = "no")
    BY <1>1, <1>2, <1>3, Types
  <2>. QED
    BY <2>1 DEF Rsh!Refused
<1>10. \A v \in User : child'[v] = "unserved" => child[v] = "unserved"
  BY <1>2, <1>3
<1>. QED
  BY <1>1, <1>4, <1>6, <1>7, <1>8, <1>9, <1>10 DEF RshInv, Counts

(* What only moves words leaves the processes as they are.                 *)
LEMMA MovesWords ==
  ASSUME RshInv, UNCHANGED <<tries, child, told, acceptors, procs>>,
         left' \subseteq User, login' = login, Streams', wrote' \in [User -> 0 .. 2],
         \A u \in User : Len(wire'[u]) <= 2 /\ Len(got'[u]) <= 2 /\ Rsh!Sent(u)' <= wrote'[u]
  PROVE  RshInv'
<1>1. Rsh!TypeOK'
  BY Types DEF Rsh!TypeOK
<1>2. Told'
  BY DEF RshInv, Told
<1>3. Rsh!Refused' = Rsh!Refused /\ Rsh!Serving' = Rsh!Serving
  BY DEF Rsh!Refused, Rsh!Serving
<1>4. Counts'
  BY <1>1, <1>3 DEF RshInv, Counts
<1>. QED
  BY <1>1, <1>2, <1>4 DEF RshInv

LEMMA SameStreams ==
  ASSUME RshInv, UNCHANGED <<tries, child, told, acceptors, procs, login, wrote, wire, got>>,
         left' \subseteq User
  PROVE  RshInv'
<1>1. Streams' /\ wrote' \in [User -> 0 .. 2]
  BY Types DEF RshInv, Streams
<1>2. \A u \in User : Len(wire'[u]) <= 2 /\ Len(got'[u]) <= 2 /\ Rsh!Sent(u)' <= wrote'[u]
  BY DEF RshInv, Rsh!TypeOK, Rsh!Sent
<1>. QED
  BY <1>1, <1>2, MovesWords

LEMMA LoginWords ==
  ASSUME RshInv, NEW u \in User
  PROVE  login[u][1] \in Typable /\ login[u][2] \in Typable
<1>1. login[u] \in Typed \cup {Rsh!NoLogin}
  BY Types
<1>2. CASE login[u] \in Typed
  <2>. DEFINE t == login[u]
  <2>1. t[1] \in {t[1], t[2]} /\ t[2] \in {t[1], t[2]} /\ t \in Typed
    BY <1>2
  <2>. HIDE DEF t
  <2>2. t[1] \in Typable /\ t[2] \in Typable
    BY <2>1 DEF Typable
  <2>. QED
    BY <2>2 DEF t
<1>3. CASE login[u] = Rsh!NoLogin
  <2>1. Rsh!NoLogin[1] = "" /\ Rsh!NoLogin[2] = ""
    BY DEF Rsh!NoLogin
  <2>2. "" \in Typable
    BY DEF Typable
  <2>. QED
    BY <1>3, <2>1, <2>2
<1>. QED
  BY <1>1, <1>2, <1>3

(* The sum in Rsh!Sent for streams s, of what is in the connection, and r, of  *)
(* what was read from it.                                                  *)
Total(s, r) == Len(s) + (IF r = <<>> THEN 0 ELSE Len(r[1]))
                      + (IF Len(r) < 2 THEN 0 ELSE Len(r[2]))

LEMMA TotalOf ==
  ASSUME NEW s \in Seq(Typable), NEW r \in Seq(Seq(Typable))
  PROVE  /\ \E c \in Nat : \A x \in Seq(Typable) : Total(x, r) = Len(x) + c
         /\ Len(r) = 0 => Total(s, r) = Len(s)
         /\ Len(r) = 1 => Total(s, r) = Len(s) + Len(r[1])
         /\ Len(r) = 2 => Total(s, r) = Len(s) + Len(r[1]) + Len(r[2])
<1>1. r = <<>> <=> Len(r) = 0
  <2>1. \A x \in Seq(Seq(Typable)) : x # <<>> => Len(x) \in Nat \ {0}
    BY EmptySeq
  <2>2. Len(<<>>) = 0
    OBVIOUS
  <2>. QED
    BY <2>1, <2>2
<1>. DEFINE e == IF r = <<>> THEN 0 ELSE Len(r[1])
            f == IF Len(r) < 2 THEN 0 ELSE Len(r[2])
            n == Len(s)
            k == Len(r)
            a == Len(r[1])
            b == Len(r[2])
<1>2. n \in Nat /\ k \in Nat
  OBVIOUS
<1>3. k > 0 => a \in Nat
  <2>1. k > 0 => r[1] \in Seq(Typable)
    OBVIOUS
  <2>. QED
    BY <2>1
<1>4. k > 1 => b \in Nat
  <2>1. k > 1 => r[2] \in Seq(Typable)
    OBVIOUS
  <2>. QED
    BY <2>1
<1>5. e = (IF k = 0 THEN 0 ELSE a) /\ f = (IF k < 2 THEN 0 ELSE b) /\ Total(s, r) = n + e + f
  BY <1>1 DEF Total
<1>. HIDE DEF e, f, n, k, a, b
<1>6. e \in Nat /\ f \in Nat
  BY <1>2, <1>3, <1>4, <1>5
<1>8. \A x \in Seq(Typable) : Total(x, r) = Len(x) + (e + f)
  <2>. TAKE x \in Seq(Typable)
  <2>. DEFINE l == Len(x)
  <2>1. Total(x, r) = l + e + f
    BY DEF Total, e, f
  <2>2. l \in Nat
    OBVIOUS
  <2>. HIDE DEF l
  <2>3. Total(x, r) = l + (e + f)
    BY <1>6, <2>1, <2>2
  <2>. QED
    BY <2>3 DEF l
<1>7. /\ k = 0 => Total(s, r) = n
      /\ k = 1 => Total(s, r) = n + a
      /\ k = 2 => Total(s, r) = n + a + b
  BY <1>2, <1>5, <1>6
<1>9. e + f \in Nat
  BY <1>6
<1>. QED
  BY <1>7, <1>8, <1>9 DEF n, k, a, b

(* The words the client writes are new ones, at most two of them.          *)
LEMMA WritesWord ==
  ASSUME RshInv, NEW u \in User, NEW s \in Seq(Typable), Len(s) <= Len(wire[u]) + 1,
         wrote[u] < 2, wrote' = [wrote EXCEPT ![u] = wrote[u] + 1], wire' = [wire EXCEPT ![u] = s],
         UNCHANGED <<tries, login, left, child, got, told, acceptors, procs>>
  PROVE  RshInv'
<1>1. Streams' /\ wire'[u] = s
  BY Types DEF Streams
<1>2. \A v \in User : v # u => wire'[v] = wire[v] /\ wrote'[v] = wrote[v]
  BY Types
<1>7. wrote' \in [User -> 0 .. 2] /\ wrote'[u] = wrote[u] + 1 /\ wrote[u] \in 0 .. 1
  <2>1. wrote[u] \in 0 .. 2
    BY Types
  <2>2. wrote[u] + 1 \in 0 .. 2 /\ wrote[u] \in 0 .. 1
    BY <2>1
  <2>. QED
    BY <2>2, Types
<1>3. wire[u] \in Seq(Typable) /\ got[u] \in Seq(Seq(Typable)) /\ got'[u] = got[u]
  BY Types
<1>4. Rsh!Sent(u)' <= wrote'[u] /\ Len(s) <= 2
  <2>1. PICK c \in Nat : \A x \in Seq(Typable) : Total(x, got[u]) = Len(x) + c
    BY <1>3, TotalOf
  <2>2. Rsh!Sent(u) = Total(wire[u], got[u]) /\ Rsh!Sent(u)' = Total(s, got[u])
    BY <1>1, <1>3 DEF Rsh!Sent, Total
  <2>3. Len(s) \in Nat /\ Len(wire[u]) \in Nat
    BY <1>3
  <2>4. Rsh!Sent(u) = Len(wire[u]) + c /\ Rsh!Sent(u)' = Len(s) + c
    BY <1>3, <2>1, <2>2
  <2>5. Rsh!Sent(u) <= wrote[u]
    BY DEF RshInv, Rsh!TypeOK
  <2>. QED
    BY <1>7, <2>3, <2>4, <2>5
<1>5. Rsh!Sent(u)' <= wrote'[u] /\ Len(wire'[u]) <= 2
  BY <1>1, <1>4
<1>6. \A v \in User : Len(wire'[v]) <= 2 /\ Len(got'[v]) <= 2 /\ Rsh!Sent(v)' <= wrote'[v]
  <2>1. Len(got'[u]) <= 2
    BY DEF RshInv, Rsh!TypeOK
  <2>2. \A v \in User : v # u => Len(wire'[v]) <= 2 /\ Len(got'[v]) <= 2 /\ Rsh!Sent(v)' <= wrote'[v]
    BY <1>2 DEF RshInv, Rsh!TypeOK, Rsh!Sent
  <2>. QED
    BY <1>5, <2>1, <2>2
<1>. QED
  BY <1>1, <1>6, <1>7, MovesWords, Types

LEMMA WriteNameInv ==
  ASSUME RshInv, NEW u \in User, Rsh!WriteName(u)
  PROVE  RshInv'
<1>1. PICK n \in {login[u][1], "garbage"} : wire' = [wire EXCEPT ![u] = <<n>>]
  BY DEF Rsh!WriteName
<1>2. n \in Typable
  <2>1. "garbage" \in Typable
    BY DEF Typable
  <2>. QED
    BY <1>1, <2>1, LoginWords
<1>3. /\ wrote[u] = 0 /\ wrote' = [wrote EXCEPT ![u] = 1]
      /\ UNCHANGED <<tries, login, left, child, got, told, acceptors, procs>>
  BY DEF Rsh!WriteName
<1>4. Len(wire[u]) = 0
  <2>. DEFINE w == wire[u]
              r == got[u]
  <2>4. w \in Seq(Typable) /\ r \in Seq(Seq(Typable))
    BY Types
  <2>. HIDE DEF w, r
  <2>5. \E c \in Nat : \A x \in Seq(Typable) : Total(x, r) = Len(x) + c
    BY <2>4, TotalOf
  <2>1. PICK c \in Nat : \A x \in Seq(Typable) : Total(x, got[u]) = Len(x) + c
    BY <2>5 DEF r
  <2>2. Len(wire[u]) \in Nat /\ Total(wire[u], got[u]) = Len(wire[u]) + c
    BY <2>1, Types
  <2>3. Total(wire[u], got[u]) <= 0
    BY <1>3 DEF Rsh!Sent, Total, RshInv, Rsh!TypeOK
  <2>. QED
    BY <2>2, <2>3
<1>5. <<n>> \in Seq(Typable) /\ Len(<<n>>) <= Len(wire[u]) + 1
  BY <1>2, <1>4
<1>6. wrote[u] < 2 /\ wrote' = [wrote EXCEPT ![u] = wrote[u] + 1]
  BY <1>3
<1>. QED
  BY <1>1, <1>3, <1>5, <1>6, WritesWord

LEMMA WritePasswordInv ==
  ASSUME RshInv, NEW u \in User, Rsh!WritePassword(u)
  PROVE  RshInv'
<1>1. PICK s \in Seq(Typable) : Len(s) <= Len(wire[u]) + 1 /\ wire' = [wire EXCEPT ![u] = s]
  <2>1. /\ Append(wire[u], login[u][2]) \in Seq(Typable)
        /\ Len(Append(wire[u], login[u][2])) = Len(wire[u]) + 1
        /\ wire[u] \in Seq(Typable) /\ Len(wire[u]) <= Len(wire[u]) + 1
    BY LoginWords, Types
  <2>2. wire' = [wire EXCEPT ![u] = wire[u]] \/ wire' = [wire EXCEPT ![u] = Append(wire[u], login[u][2])]
    BY DEF Rsh!WritePassword
  <2>. QED
    BY <2>1, <2>2
<1>2. /\ wrote[u] < 2 /\ wrote' = [wrote EXCEPT ![u] = wrote[u] + 1]
      /\ UNCHANGED <<tries, login, left, child, got, told, acceptors, procs>>
  <2>1. /\ wrote[u] = 1 /\ wrote' = [wrote EXCEPT ![u] = 2]
        /\ UNCHANGED <<tries, login, left, child, got, told, acceptors, procs>>
    BY Zenon DEF Rsh!WritePassword
  <2>2. 1 + 1 = 2 /\ 1 < 2
    OBVIOUS
  <2>. QED
    BY <2>1, <2>2
<1>. QED
  BY <1>1, <1>2, WritesWord

(* A read moves what is in the connection, all of it.                      *)
LEMMA ReadInv ==
  ASSUME RshInv, NEW u \in User, Rsh!Read(u)
  PROVE  RshInv'
<1>1. /\ Len(got[u]) < 2 /\ got' = [got EXCEPT ![u] = Append(@, wire[u])]
      /\ wire' = [wire EXCEPT ![u] = <<>>]
      /\ UNCHANGED <<tries, login, wrote, left, child, told, acceptors, procs>>
  BY DEF Rsh!Read
<1>2. wire[u] \in Seq(Typable) /\ got[u] \in Seq(Seq(Typable))
  BY Types
<1>3. wire'[u] = <<>> /\ got'[u] = Append(got[u], wire[u])
  BY <1>1, Types
<1>4. Streams'
  BY <1>1, <1>2, Types DEF Streams
<1>5. \A v \in User : v # u => wire'[v] = wire[v] /\ got'[v] = got[v]
  BY <1>1, Types
<1>6. Rsh!Sent(u)' = Rsh!Sent(u)
  <2>1. \A x \in Seq(Seq(Typable)), y \in Seq(Typable) :
          /\ Append(x, y) \in Seq(Seq(Typable)) /\ Len(Append(x, y)) = Len(x) + 1
          /\ Len(x) = 0 => Append(x, y)[1] = y
          /\ Len(x) = 1 => Append(x, y)[1] = x[1] /\ Append(x, y)[2] = y
    OBVIOUS
  <2>2. \A x \in Seq(Seq(Typable)), y \in Seq(Typable) :
          Len(x) \in {0, 1} => Total(<<>>, Append(x, y)) = Total(y, x)
    <3>. TAKE x \in Seq(Seq(Typable)), y \in Seq(Typable)
    <3>1. <<>> \in Seq(Typable) /\ Len(<<>>) = 0 /\ Len(y) \in Nat
      OBVIOUS
    <3>. DEFINE z == Append(x, y)
    <3>2. CASE Len(x) = 0
      <4>1. z \in Seq(Seq(Typable)) /\ Len(z) = 1 /\ z[1] = y
        BY <2>1, <3>2
      <4>. HIDE DEF z
      <4>2. Total(<<>>, z) = 0 + Len(y) /\ Total(y, x) = Len(y)
        BY <3>1, <3>2, <4>1, TotalOf
      <4>. QED
        BY <3>1, <4>2 DEF z
    <3>3. CASE Len(x) = 1
      <4>1. z \in Seq(Seq(Typable)) /\ Len(z) = 2 /\ z[1] = x[1] /\ z[2] = y /\ x[1] \in Seq(Typable)
        BY <2>1, <3>3
      <4>. HIDE DEF z
      <4>2. Total(<<>>, z) = 0 + Len(x[1]) + Len(y)
        <5>1. Total(<<>>, z) = Len(<<>>) + Len(z[1]) + Len(z[2])
          BY <3>1, <4>1, TotalOf
        <5>. QED
          BY <3>1, <4>1, <5>1
      <4>4. Total(y, x) = Len(y) + Len(x[1])
        BY <3>3, TotalOf
      <4>3. Len(x[1]) \in Nat
        BY <4>1
      <4>. QED
        BY <3>1, <4>2, <4>3, <4>4 DEF z
    <3>. QED
      BY <3>2, <3>3
  <2>3. Rsh!Sent(u) = Total(wire[u], got[u]) /\ Rsh!Sent(u)' = Total(<<>>, Append(got[u], wire[u]))
    BY <1>3 DEF Rsh!Sent, Total
  <2>4. Len(got[u]) \in {0, 1}
    <3>. DEFINE k == Len(got[u])
    <3>1. k \in Nat /\ k < 2
      BY <1>1, <1>2
    <3>. HIDE DEF k
    <3>2. k \in {0, 1}
      BY <3>1
    <3>. QED
      BY <3>2 DEF k
  <2>. QED
    BY <1>2, <2>2, <2>3, <2>4
<1>7. \A v \in User : Len(wire'[v]) <= 2 /\ Len(got'[v]) <= 2 /\ Rsh!Sent(v)' <= wrote'[v]
  <2>1. Len(wire'[u]) <= 2 /\ Len(got'[u]) <= 2 /\ Rsh!Sent(u)' <= wrote'[u]
    <3>1. Rsh!Sent(u)' <= wrote'[u]
      BY <1>1, <1>6 DEF RshInv, Rsh!TypeOK
    <3>2. Len(wire'[u]) = 0
      BY <1>3
    <3>3. Len(got'[u]) = Len(got[u]) + 1 /\ Len(got[u]) \in Nat
      BY <1>2, <1>3
    <3>4. Len(got'[u]) <= 2
      BY <1>1, <3>3
    <3>. QED
      BY <3>1, <3>2, <3>4
  <2>2. \A v \in User : v # u => Len(wire'[v]) <= 2 /\ Len(got'[v]) <= 2 /\ Rsh!Sent(v)' <= wrote'[v]
    BY <1>1, <1>5 DEF RshInv, Rsh!TypeOK, Rsh!Sent
  <2>. QED
    BY <2>1, <2>2
<1>. QED
  BY <1>1, <1>4, <1>7, MovesWords, Types

LEMMA KillInv ==
  ASSUME RshInv, NEW u \in User, Rsh!Kill(u)
  PROVE  RshInv'
<1>1. /\ left' = left \cup {u}
      /\ UNCHANGED <<tries, child, told, acceptors, procs, login, wrote, wire, got>>
  BY DEF Rsh!Kill
<1>2. left' \subseteq User
  BY <1>1, Types
<1>. QED
  BY <1>1, <1>2, SameStreams

(* What the processes do leaves the words as they are.                     *)
LEMMA SameWords ==
  ASSUME RshInv, UNCHANGED <<tries, login, wrote, wire, left, got>>,
         child' \in [User -> Rsh!Stage], told' \in [User -> {"none", "yes", "no"}],
         acceptors' \in 1 .. MaxProc, procs' \in 1 .. MaxProc
  PROVE  Rsh!TypeOK' /\ Streams'
<1>1. \A u \in User : Len(wire'[u]) <= 2 /\ Len(got'[u]) <= 2 /\ Rsh!Sent(u)' <= wrote'[u]
  BY DEF RshInv, Rsh!TypeOK, Rsh!Sent
<1>. QED
  BY <1>1, Types DEF Rsh!TypeOK, Streams

(* A process more serves, if there is one.                                 *)
LEMMA AcceptInv ==
  ASSUME RshInv, NEW u \in User, Rsh!Accept(u)
  PROVE  RshInv'
<1>1. /\ child[u] = "queued" /\ child[u] \in Rsh!Stage
      /\ UNCHANGED <<tries, login, wrote, wire, left, got, told, acceptors>>
  BY Types DEF Rsh!Accept
<1>2. Rsh!Refused' = Rsh!Refused
  BY <1>1 DEF Rsh!Refused
<1>3. acceptors = 1 + Cardinality(Rsh!Refused) /\ procs = acceptors + Cardinality(Rsh!Serving)
  BY DEF RshInv, Counts
<1>4. /\ acceptors \in 1 .. MaxProc /\ procs \in 1 .. MaxProc /\ MaxProc \in Nat
      /\ told \in [User -> {"none", "yes", "no"}] /\ child \in [User -> Rsh!Stage]
  BY Types, RshConstants
<1>5. ~(told[u] = "no" \/ tries[u] = 0) /\ told[u] # "no"
  BY <1>1 DEF RshInv, Told
<1>6. CASE procs < MaxProc
  <2>1. procs' = procs + 1 /\ child' = [child EXCEPT ![u] = "serving"]
    BY <1>6 DEF Rsh!Accept
  <2>2. child'[u] = "serving" /\ \A v \in User : v # u => child'[v] = child[v]
    BY <1>4, <2>1
  <2>3. child' \in [User -> Rsh!Stage] /\ procs' \in 1 .. MaxProc
    BY <1>4, <1>6, <2>1 DEF Rsh!Stage
  <2>4. Rsh!TypeOK' /\ Streams'
    BY <1>1, <1>4, <2>3, SameWords
  <2>5. Rsh!Serving' = Rsh!Serving \cup {u} /\ u \notin Rsh!Serving
    BY <1>1, <2>2 DEF Rsh!Serving
  <2>6. Cardinality(Rsh!Serving') = Cardinality(Rsh!Serving) + 1
    BY <2>5, SetsFinite, FS_AddElement
  <2>7. procs' = acceptors' + Cardinality(Rsh!Serving')
    BY <1>1, <1>3, <1>4, <2>1, <2>6, SetsFinite
  <2>8. \A v \in User : child'[v] = "unserved" => procs' = MaxProc
    <3>1. \A v \in User : child[v] # "unserved"
      BY <1>4, <1>6 DEF RshInv, Counts
    <3>. QED
      BY <2>2, <3>1
  <2>9. Told'
    BY <1>1, <1>5, <2>2 DEF RshInv, Told
  <2>. QED
    BY <1>1, <1>2, <1>3, <2>4, <2>7, <2>8, <2>9 DEF RshInv, Counts
<1>7. CASE procs = MaxProc
  <2>1. child' = [child EXCEPT ![u] = "unserved"] /\ procs' = procs
    BY <1>4, <1>7 DEF Rsh!Accept
  <2>2. child'[u] = "unserved" /\ \A v \in User : v # u => child'[v] = child[v]
    BY <1>4, <2>1
  <2>3. child' \in [User -> Rsh!Stage]
    BY <1>4, <2>1 DEF Rsh!Stage
  <2>4. Rsh!TypeOK' /\ Streams'
    BY <1>1, <1>4, <2>1, <2>3, SameWords
  <2>5. Rsh!Serving' = Rsh!Serving
    BY <1>1, <2>2 DEF Rsh!Serving
  <2>6. Told'
    BY <1>1, <1>5, <2>2 DEF RshInv, Told
  <2>. QED
    BY <1>1, <1>2, <1>3, <1>7, <2>1, <2>4, <2>5, <2>6 DEF RshInv, Counts
<1>. QED
  BY <1>4, <1>6, <1>7

(* The process that serves becomes the shell, or dies, and is still there. *)
LEMMA SucceedInv ==
  ASSUME RshInv, NEW u \in User, Rsh!Succeed(u)
  PROVE  RshInv'
<1>1. /\ child[u] = "serving"
      /\ UNCHANGED <<tries, login, wrote, wire, left, got, acceptors, procs>>
  BY DEF Rsh!Succeed
<1>2. told[u] = "none" /\ ~(tries[u] = 0)
  BY <1>1 DEF RshInv, Told
<1>3. PICK c \in {"shell", "crashed"}, a \in {"yes", "none"} :
        child' = [child EXCEPT ![u] = c] /\ told' = [told EXCEPT ![u] = a]
  <2>1. CASE got[u][1][1] \in Account
    BY <2>1 DEF Rsh!Succeed
  <2>2. CASE got[u][1][1] \notin Account
    <3>1. child' = [child EXCEPT ![u] = "crashed"] /\ told' = told
      BY <2>2 DEF Rsh!Succeed
    <3>2. told' = [told EXCEPT ![u] = "none"]
      BY <1>2, <3>1, Types
    <3>. QED
      BY <3>1, <3>2
  <2>. QED
    BY <2>1, <2>2
<1>4. child'[u] = c /\ told'[u] = a
  BY <1>3, Types
<1>5. \A v \in User : v # u => child'[v] = child[v] /\ told'[v] = told[v]
  BY <1>3, Types
<1>6. child' \in [User -> Rsh!Stage] /\ told' \in [User -> {"none", "yes", "no"}]
  BY <1>3, Types DEF Rsh!Stage
<1>7. Rsh!TypeOK' /\ Streams'
  BY <1>1, <1>6, SameWords, Types
<1>8. Rsh!Serving' = Rsh!Serving
  BY <1>1, <1>3, <1>4, <1>5 DEF Rsh!Serving
<1>9. \A v \in User : told'[v] = "no" <=> told[v] = "no"
  BY <1>2, <1>3, <1>4, <1>5
<1>10. Rsh!Refused' = Rsh!Refused
  BY <1>1, <1>9 DEF Rsh!Refused
<1>11. Told'
  BY <1>1, <1>2, <1>3, <1>4, <1>5 DEF RshInv, Told
<1>12. \A v \in User : child'[v] = "unserved" => child[v] = "unserved"
  BY <1>3, <1>4, <1>5
<1>. QED
  BY <1>1, <1>7, <1>8, <1>10, <1>11, <1>12 DEF RshInv, Counts

(* The process that refuses is an acceptor from now on: it passes from the *)
(* second set that is counted to the first.                                *)
LEMMA RefuseInv ==
  ASSUME RshInv, NEW u \in User, Rsh!Refuse(u)
  PROVE  RshInv'
<1>1. /\ child[u] = "serving" /\ child' = [child EXCEPT ![u] = "none"]
      /\ told' = [told EXCEPT ![u] = "no"] /\ acceptors' = acceptors + 1
      /\ UNCHANGED <<tries, login, wrote, wire, left, got, procs>>
  BY DEF Rsh!Refuse
<1>2. told[u] = "none" /\ tries[u] # 0
  BY <1>1 DEF RshInv, Told
<1>3. child'[u] = "none" /\ told'[u] = "no"
  BY <1>1, Types
<1>4. \A v \in User : v # u => child'[v] = child[v] /\ told'[v] = told[v]
  BY <1>1, Types
<1>5. child' \in [User -> Rsh!Stage] /\ told' \in [User -> {"none", "yes", "no"}]
  BY <1>1, Types DEF Rsh!Stage
<1>6. acceptors = 1 + Cardinality(Rsh!Refused) /\ procs = acceptors + Cardinality(Rsh!Serving)
  BY DEF RshInv, Counts
<1>7. acceptors \in 1 .. MaxProc /\ procs \in 1 .. MaxProc /\ MaxProc \in Nat
  BY Types, RshConstants
<1>8. Rsh!Serving' = Rsh!Serving \ {u} /\ u \in Rsh!Serving
  BY <1>1, <1>3, <1>4 DEF Rsh!Serving
<1>9. Cardinality(Rsh!Serving') = Cardinality(Rsh!Serving) - 1
  BY <1>8, SetsFinite, FS_RemoveElement
<1>10. Cardinality(Rsh!Serving') \in Nat
  <2>1. IsFiniteSet(Rsh!Serving')
    BY <1>8, SetsFinite, FS_Subset
  <2>. QED
    BY <2>1, FS_CardinalityType
<1>11. acceptors' \in 1 .. MaxProc
  BY <1>1, <1>6, <1>7, <1>9, <1>10, SetsFinite
<1>12. Rsh!TypeOK' /\ Streams'
  BY <1>1, <1>5, <1>7, <1>11, SameWords
<1>13. Rsh!Refused' = Rsh!Refused \cup {<<u, tries[u]>>} /\ <<u, tries[u]>> \notin Rsh!Refused
  <2>. DEFINE n == tries[u]
  <2>1. n \in 1 .. MaxTries
    BY <1>2, Types, RshConstants
  <2>2. \A l \in User \X (1 .. MaxTries) : l \in Rsh!Refused' <=> l \in Rsh!Refused \/ l = <<u, n>>
    <3>. TAKE l \in User \X (1 .. MaxTries)
    <3>1. PICK v \in User, k \in 1 .. MaxTries : l = <<v, k>>
      OBVIOUS
    <3>2. l \in Rsh!Refused <=> k < tries[v] \/ (k = tries[v] /\ told[v] = "no")
      BY <3>1 DEF Rsh!Refused
    <3>3. l \in Rsh!Refused' <=> k < tries[v] \/ (k = tries[v] /\ told'[v] = "no")
      BY <1>1, <3>1 DEF Rsh!Refused
    <3>4. CASE v = u
      BY <1>2, <1>3, <3>1, <3>2, <3>3, <3>4
    <3>5. CASE v # u
      BY <1>4, <3>1, <3>2, <3>3, <3>5
    <3>. QED
      BY <3>4, <3>5
  <2>3. Rsh!Refused \subseteq User \X (1 .. MaxTries) /\ Rsh!Refused' \subseteq User \X (1 .. MaxTries)
    BY DEF Rsh!Refused
  <2>4. <<u, n>> \in User \X (1 .. MaxTries)
    BY <2>1
  <2>5. <<u, n>> \notin Rsh!Refused
    BY <1>2, <2>1 DEF Rsh!Refused
  <2>. QED
    BY <2>2, <2>3, <2>4, <2>5
<1>14. Cardinality(Rsh!Refused') = Cardinality(Rsh!Refused) + 1
  BY <1>13, SetsFinite, FS_AddElement
<1>15. acceptors' = 1 + Cardinality(Rsh!Refused') /\ procs' = acceptors' + Cardinality(Rsh!Serving')
  BY <1>1, <1>6, <1>7, <1>9, <1>14, SetsFinite
<1>16. Told'
  BY <1>1, <1>2, <1>3, <1>4 DEF RshInv, Told
<1>17. \A v \in User : child'[v] = "unserved" => procs' = MaxProc
  BY <1>1, <1>3, <1>4 DEF RshInv, Counts
<1>. QED
  BY <1>12, <1>15, <1>16, <1>17 DEF RshInv, Counts

LEMMA RshNext ==
  ASSUME RshInv, [Rsh!Next]_rshVars
  PROVE  RshInv'
<1>1. ASSUME NEW u \in User, Rsh!Client(u)
      PROVE  RshInv'
  BY <1>1, WriteNameInv, WritePasswordInv DEF Rsh!Client
<1>2. ASSUME NEW u \in User, Rsh!Server(u)
      PROVE  RshInv'
  BY <1>2, AcceptInv, ReadInv, SucceedInv, RefuseInv DEF Rsh!Server
<1>3. CASE UNCHANGED rshVars
  BY <1>3, SameStreams, Types DEF rshVars
<1>. QED
  BY <1>1, <1>2, <1>3, ConnectInv, KillInv DEF Rsh!Next

-----------------------------------------------------------------------------
(***************************************************************************)
(* traceroute.  An answer is under way, at the socket or printed, and      *)
(* answers a probe that has been sent; before a message for another        *)
(* program is taken the lines name the hops 0, 1, 2, ... in turn, so that  *)
(* only the answer to the last probe can be new.                           *)
(***************************************************************************)
Probed(m, h, a) == m < h \/ (m = h /\ a)

RouteTypes ==
  /\ awaiting \in BOOLEAN /\ answers \subseteq Nat /\ foreign \in Nat
  /\ inbox \in Seq(Int) /\ lines \in Seq(Nat \X Int)

Probes ==
  /\ hop = Len(lines) /\ hop <= HOPLIMIT
  /\ awaiting => hop < HOPLIMIT
  /\ \A m \in answers : Probed(m, hop, awaiting)
  /\ \A i \in 1 .. Len(inbox) : inbox[i] >= 0 => Probed(inbox[i], hop, awaiting)
  /\ \A j \in 1 .. Len(lines) : lines[j][1] = j - 1 /\ lines[j][2] < j

Once ==
  /\ \A i \in 1 .. Len(inbox) : inbox[i] \notin answers
  /\ \A j \in 1 .. Len(lines) : lines[j][2] \notin answers
  /\ \A i, k \in 1 .. Len(inbox) : inbox[i] >= 0 /\ inbox[i] = inbox[k] => i = k
  /\ \A j, k \in 1 .. Len(lines) : lines[j][2] >= 0 /\ lines[j][2] = lines[k][2] => j = k
  /\ \A i \in 1 .. Len(inbox), j \in 1 .. Len(lines) : inbox[i] >= 0 => inbox[i] # lines[j][2]

OwnHop ==
  \A j \in 1 .. Len(lines) : (\A k \in 1 .. j : lines[k][2] >= 0) => lines[j][2] = j - 1

RouteInv == RouteTypes /\ Probes /\ Once /\ OwnHop

LEMMA RouteConstants == Distance \in Nat \ {0} /\ HOPLIMIT \in Nat /\ MaxForeign \in Nat
BY LabsAssumption DEF Route!ConstantsOK

LEMMA RouteInit ==
  ASSUME Route!Init
  PROVE  RouteInv
<1>1. 1 .. 0 = {} /\ Len(<<>>) = 0
  OBVIOUS
<1>2. RouteTypes
  <2>1. answers \subseteq Nat /\ inbox \in Seq(Int) /\ lines \in Seq(Nat \X Int)
    BY DEF Route!Init
  <2>. QED
    BY <2>1 DEF Route!Init, RouteTypes
<1>3. Probes
  BY <1>1, RouteConstants DEF Route!Init, Probes
<1>. QED
  BY <1>1, <1>2, <1>3 DEF Route!Init, RouteInv, Once, OwnHop

(* A probe is a new one: all that is under way or printed answers others.  *)
LEMMA SendProbeInv ==
  ASSUME RouteInv, Route!SendProbe
  PROVE  RouteInv'
<1>1. /\ hop < HOPLIMIT /\ ~awaiting /\ awaiting' = TRUE
      /\ answers' \subseteq answers \cup {hop} /\ UNCHANGED <<hop, inbox, foreign, lines>>
  BY DEF Route!SendProbe
<1>2. hop \in Nat /\ \A i \in 1 .. Len(inbox) : inbox[i] \in Int
  BY DEF RouteInv, RouteTypes, Probes
<1>3. \A m \in Int : Probed(m, hop, awaiting) => m # hop /\ Probed(m, hop', awaiting')
  BY <1>1, <1>2 DEF Probed
<1>4. RouteTypes'
  BY <1>1, <1>2 DEF RouteInv, RouteTypes
<1>5. Probes'
  <2>1. \A m \in answers' : Probed(m, hop', awaiting')
    <3>1. \A m \in answers : Probed(m, hop', awaiting')
      <4>1. answers \subseteq Int /\ \A m \in answers : Probed(m, hop, awaiting)
        BY DEF RouteInv, RouteTypes, Probes
      <4>. QED
        BY <1>3, <4>1
    <3>2. Probed(hop, hop', awaiting')
      BY <1>1 DEF Probed
    <3>. QED
      BY <1>1, <3>1, <3>2
  <2>2. \A i \in 1 .. Len(inbox) : inbox[i] >= 0 => Probed(inbox[i], hop', awaiting')
    BY <1>2, <1>3 DEF RouteInv, Probes
  <2>. QED
    BY <1>1, <2>1, <2>2 DEF RouteInv, Probes
<1>6. Once'
  <2>1. \A i \in 1 .. Len(inbox) : inbox[i] # hop
    BY <1>2, <1>3 DEF RouteInv, Probes
  <2>2. \A j \in 1 .. Len(lines) : lines[j][2] # hop
    <3>. TAKE j \in 1 .. Len(lines)
    <3>1. lines[j] \in Nat \X Int /\ lines[j][2] < j /\ hop = Len(lines)
      BY DEF RouteInv, RouteTypes, Probes
    <3>2. lines[j][2] \in Int
      BY <3>1
    <3>. QED
      BY <1>2, <3>1, <3>2
  <2>. QED
    BY <1>1, <2>1, <2>2 DEF RouteInv, Once
<1>7. OwnHop'
  BY <1>1 DEF RouteInv, OwnHop
<1>. QED
  BY <1>4, <1>5, <1>6, <1>7 DEF RouteInv

(* A message at the socket is an answer that was under way or is another   *)
(* program's.                                                              *)
LEMMA ArrivesInv ==
  ASSUME RouteInv, NEW m \in Int, inbox' = Append(inbox, m), answers' \subseteq answers,
         m \in answers \/ m < 0, m \notin answers',
         foreign' \in Nat, UNCHANGED <<hop, awaiting, lines>>
  PROVE  RouteInv'
<1>. DEFINE n == Len(inbox)
<1>1. /\ n \in Nat /\ Len(inbox') = n + 1 /\ inbox'[n + 1] = m /\ inbox' \in Seq(Int)
      /\ \A i \in 1 .. n : inbox'[i] = inbox[i] /\ inbox[i] \in Int
  BY DEF RouteInv, RouteTypes
<1>2. answers \subseteq Nat /\ answers' \subseteq Nat
  BY DEF RouteInv, RouteTypes
<1>3. \A k \in Int : Probed(k, hop', awaiting') <=> Probed(k, hop, awaiting)
  BY DEF Probed
<1>. HIDE DEF n
<1>4. \A i \in 1 .. n + 1 : i \in 1 .. n \/ i = n + 1
  BY <1>1
<1>5. RouteTypes'
  BY <1>1, <1>2 DEF RouteInv, RouteTypes
<1>6. Probes'
  <2>1. m >= 0 => Probed(m, hop', awaiting')
    BY <1>2, <1>3 DEF RouteInv, Probes
  <2>2. \A i \in 1 .. n : inbox[i] >= 0 => Probed(inbox[i], hop', awaiting')
    BY <1>1, <1>3 DEF RouteInv, Probes, n
  <2>3. \A i \in 1 .. n + 1 : inbox'[i] >= 0 => Probed(inbox'[i], hop', awaiting')
    BY <1>1, <1>4, <2>1, <2>2
  <2>4. \A k \in answers' : Probed(k, hop', awaiting')
    BY <1>2, <1>3 DEF RouteInv, Probes
  <2>. QED
    BY <1>1, <2>3, <2>4 DEF RouteInv, Probes
<1>7. Once'
  <2>7. m >= 0 => m \in answers
    OBVIOUS
  <2>1. \A i \in 1 .. n : inbox[i] \notin answers' /\ (m >= 0 => inbox[i] # m)
    <3>1. \A i \in 1 .. n : inbox[i] \notin answers
      BY DEF RouteInv, Once, n
    <3>. QED
      BY <2>7, <3>1
  <2>2. \A j \in 1 .. Len(lines) : lines[j][2] \notin answers' /\ (m >= 0 => m # lines[j][2])
    <3>1. \A j \in 1 .. Len(lines) : lines[j][2] \notin answers
      BY DEF RouteInv, Once
    <3>. QED
      BY <2>7, <3>1
  <2>3. \A i \in 1 .. n + 1 : inbox'[i] \notin answers'
    BY <1>1, <1>4, <2>1
  <2>4. \A i, k \in 1 .. n + 1 : inbox'[i] >= 0 /\ inbox'[i] = inbox'[k] => i = k
    <3>1. \A i, k \in 1 .. n : inbox[i] >= 0 /\ inbox[i] = inbox[k] => i = k
      BY DEF RouteInv, Once, n
    <3>. QED
      BY <1>1, <1>4, <2>1, <3>1
  <2>5. \A i \in 1 .. n + 1, j \in 1 .. Len(lines) : inbox'[i] >= 0 => inbox'[i] # lines[j][2]
    <3>1. \A i \in 1 .. n, j \in 1 .. Len(lines) : inbox[i] >= 0 => inbox[i] # lines[j][2]
      BY DEF RouteInv, Once, n
    <3>. QED
      BY <1>1, <1>4, <2>2, <3>1
  <2>6. \A j, k \in 1 .. Len(lines) : lines[j][2] >= 0 /\ lines[j][2] = lines[k][2] => j = k
    BY DEF RouteInv, Once
  <2>. QED
    BY <1>1, <2>2, <2>3, <2>4, <2>5, <2>6 DEF Once
<1>8. OwnHop'
  BY DEF RouteInv, OwnHop
<1>. QED
  BY <1>5, <1>6, <1>7, <1>8 DEF RouteInv

LEMMA DeliverInv ==
  ASSUME RouteInv, Route!Deliver
  PROVE  RouteInv'
<1>1. PICK h \in answers : answers' = answers \ {h} /\ inbox' = Append(inbox, h)
  BY DEF Route!Deliver
<1>2. UNCHANGED <<hop, awaiting, foreign, lines>>
  BY DEF Route!Deliver
<1>3. h \in Int /\ foreign' \in Nat
  BY <1>2 DEF RouteInv, RouteTypes
<1>. QED
  BY <1>1, <1>2, <1>3, ArrivesInv

LEMMA DeliverForeignInv ==
  ASSUME RouteInv, Route!DeliverForeign
  PROVE  RouteInv'
<1>1. PICK m \in {-1, -2} : inbox' = Append(inbox, m)
  BY DEF Route!DeliverForeign
<1>2. foreign' = foreign + 1 /\ UNCHANGED <<hop, awaiting, answers, lines>>
  BY DEF Route!DeliverForeign
<1>3. m \in Int /\ m < 0 /\ m \notin answers /\ foreign' \in Nat
  BY <1>2 DEF RouteInv, RouteTypes
<1>. QED
  BY <1>1, <1>2, <1>3, ArrivesInv

(* A line more.  If every line so far is a router's, they name the hops    *)
(* before this one, and the answer taken is none of those.                 *)
LEMMA ReceiveInv ==
  ASSUME RouteInv, Route!Receive
  PROVE  RouteInv'
<1>. DEFINE n == Len(inbox)
            l == Len(lines)
            m == Head(inbox)
<1>1. /\ awaiting /\ inbox # <<>> /\ awaiting' = FALSE /\ hop' = hop + 1
      /\ lines' = Append(lines, <<hop, Head(inbox)>>) /\ inbox' = Tail(inbox)
      /\ answers' = answers /\ foreign' = foreign
  BY DEF Route!Receive
<1>2. /\ inbox \in Seq(Int) /\ lines \in Seq(Nat \X Int) /\ answers \subseteq Nat
      /\ foreign \in Nat /\ HOPLIMIT \in Nat
  BY RouteConstants DEF RouteInv, RouteTypes
<1>3. n \in Nat \ {0} /\ l \in Nat
  BY <1>1, <1>2, EmptySeq
<1>4. /\ Len(inbox') = n - 1 /\ inbox' \in Seq(Int)
      /\ \A i \in 1 .. n - 1 : inbox'[i] = inbox[i + 1]
  BY <1>1, <1>2, <1>3, HeadTailProperties
<1>5. m = inbox[1] /\ m \in Int
  BY <1>1, <1>2, HeadTailProperties
<1>6. hop = l /\ hop < HOPLIMIT
  BY <1>1 DEF RouteInv, Probes
<1>7. <<hop, m>> \in Nat \X Int
  BY <1>3, <1>5, <1>6
<1>8. /\ lines' \in Seq(Nat \X Int) /\ Len(lines') = l + 1 /\ lines'[l + 1] = <<hop, m>>
      /\ \A j \in 1 .. l : lines'[j] = lines[j]
  BY <1>1, <1>2, <1>7, AppendProperties
<1>9. lines'[l + 1][1] = l /\ lines'[l + 1][2] = m
  BY <1>6, <1>8
<1>10. \A j \in 1 .. l : lines[j][1] = j - 1 /\ lines[j][2] < j /\ lines[j][2] \in Int
  <2>1. \A j \in 1 .. l : lines[j] \in Nat \X Int
    BY <1>2
  <2>2. \A x \in Nat \X Int : x[2] \in Int
    OBVIOUS
  <2>. QED
    BY <2>1, <2>2 DEF RouteInv, Probes
<1>11. /\ \A i \in 1 .. n : inbox[i] \in Int /\ inbox[i] \notin answers
       /\ \A i \in 1 .. n : inbox[i] >= 0 => inbox[i] <= l
  <2>1. \A i \in 1 .. n : inbox[i] \in Int
    BY <1>2
  <2>2. \A i \in 1 .. n : inbox[i] >= 0 => Probed(inbox[i], hop, awaiting)
    BY DEF RouteInv, Probes
  <2>3. \A i \in 1 .. n : inbox[i] >= 0 => inbox[i] <= l
    BY <1>1, <1>3, <1>6, <2>1, <2>2 DEF Probed
  <2>. QED
    BY <2>1, <2>3 DEF RouteInv, Once
<1>12. /\ \A i, k \in 1 .. n : inbox[i] >= 0 /\ inbox[i] = inbox[k] => i = k
       /\ \A j, k \in 1 .. l : lines[j][2] >= 0 /\ lines[j][2] = lines[k][2] => j = k
       /\ \A i \in 1 .. n, j \in 1 .. l : inbox[i] >= 0 => inbox[i] # lines[j][2]
       /\ \A j \in 1 .. l : lines[j][2] \notin answers
  BY DEF RouteInv, Once
<1>13. \A k \in answers : k \in Nat /\ k <= l
  <2>1. \A k \in answers : Probed(k, hop, awaiting)
    BY DEF RouteInv, Probes
  <2>. QED
    BY <1>1, <1>2, <1>3, <1>6, <2>1 DEF Probed
<1>14. OwnHop
  BY DEF RouteInv
<1>. HIDE DEF n, l, m
<1>15. 1 \in 1 .. n /\ \A i \in 1 .. n - 1 : i + 1 \in 1 .. n /\ i + 1 # 1
  BY <1>3
<1>16. \A j \in 1 .. l + 1 : j \in 1 .. l \/ j = l + 1
  BY <1>3
<1>17. RouteTypes'
  BY <1>1, <1>2, <1>4, <1>8 DEF RouteTypes
<1>18. Probes'
  <2>1. hop' = Len(lines') /\ hop' <= HOPLIMIT
    BY <1>1, <1>2, <1>3, <1>6, <1>8
  <2>2. \A k \in answers : Probed(k, hop', awaiting')
    BY <1>1, <1>3, <1>6, <1>13 DEF Probed
  <2>3. \A i \in 1 .. n - 1 : inbox'[i] >= 0 => Probed(inbox'[i], hop', awaiting')
    <3>1. \A i \in 1 .. n - 1 : inbox'[i] \in Int /\ (inbox'[i] >= 0 => inbox'[i] <= l)
      BY <1>4, <1>11, <1>15
    <3>2. \A x \in Int : x <= l => Probed(x, hop', awaiting')
      BY <1>1, <1>3, <1>6 DEF Probed
    <3>. QED
      BY <3>1, <3>2
  <2>4. \A j \in 1 .. l + 1 : lines'[j][1] = j - 1 /\ lines'[j][2] < j
    <3>1. m < l + 1
      BY <1>3, <1>5, <1>11, <1>15
    <3>2. \A j \in 1 .. l : lines'[j][1] = j - 1 /\ lines'[j][2] < j
      BY <1>8, <1>10
    <3>3. lines'[l + 1][1] = (l + 1) - 1 /\ lines'[l + 1][2] < l + 1
      BY <1>3, <1>9, <3>1
    <3>. QED
      BY <1>16, <3>2, <3>3
  <2>. QED
    BY <1>1, <1>4, <1>8, <2>1, <2>2, <2>3, <2>4 DEF Probes
<1>19. m \notin answers /\ (m >= 0 => \A j \in 1 .. l : m # lines[j][2])
  BY <1>5, <1>11, <1>12, <1>15
<1>20. Once'
  <2>1. \A i \in 1 .. n - 1 : inbox'[i] \notin answers
    BY <1>4, <1>11, <1>15
  <2>2. \A j \in 1 .. l + 1 : lines'[j][2] \notin answers
    BY <1>8, <1>9, <1>12, <1>16, <1>19
  <2>3. \A i, k \in 1 .. n - 1 : inbox'[i] >= 0 /\ inbox'[i] = inbox'[k] => i = k
    <3>. TAKE i, k \in 1 .. n - 1
    <3>1. i + 1 \in 1 .. n /\ k + 1 \in 1 .. n /\ (i + 1 = k + 1 => i = k)
      BY <1>3
    <3>. QED
      BY <1>4, <1>12, <3>1
  <2>4. \A j, k \in 1 .. l + 1 : lines'[j][2] >= 0 /\ lines'[j][2] = lines'[k][2] => j = k
    BY <1>8, <1>9, <1>12, <1>16, <1>19
  <2>5. \A i \in 1 .. n - 1, j \in 1 .. l + 1 : inbox'[i] >= 0 => inbox'[i] # lines'[j][2]
    <3>1. \A i \in 1 .. n - 1 : inbox'[i] >= 0 => inbox'[i] # m
      <4>. TAKE i \in 1 .. n - 1
      <4>1. i + 1 \in 1 .. n /\ i + 1 # 1
        BY <1>15
      <4>. QED
        BY <1>4, <1>5, <1>12, <1>15, <4>1
    <3>2. \A i \in 1 .. n - 1, j \in 1 .. l : inbox'[i] >= 0 => inbox'[i] # lines'[j][2]
      <4>. TAKE i \in 1 .. n - 1, j \in 1 .. l
      <4>1. i + 1 \in 1 .. n /\ inbox'[i] = inbox[i + 1] /\ lines'[j] = lines[j]
        BY <1>4, <1>8, <1>15
      <4>. QED
        BY <1>12, <4>1
    <3>. QED
      BY <1>9, <1>16, <3>1, <3>2
  <2>. QED
    <3>. DEFINE b == Len(inbox')
                c == Len(lines')
    <3>1. b = n - 1 /\ c = l + 1 /\ answers' = answers
      BY <1>1, <1>4, <1>8
    <3>. HIDE DEF b, c
    <3>2. /\ \A i \in 1 .. b : inbox'[i] \notin answers'
          /\ \A j \in 1 .. c : lines'[j][2] \notin answers'
      BY <2>1, <2>2, <3>1
    <3>3. /\ \A i, k \in 1 .. b : inbox'[i] >= 0 /\ inbox'[i] = inbox'[k] => i = k
          /\ \A j, k \in 1 .. c : lines'[j][2] >= 0 /\ lines'[j][2] = lines'[k][2] => j = k
      BY <2>3, <2>4, <3>1
    <3>4. \A i \in 1 .. b, j \in 1 .. c : inbox'[i] >= 0 => inbox'[i] # lines'[j][2]
      BY <2>5, <3>1
    <3>. QED
      BY <3>2, <3>3, <3>4 DEF Once, b, c
<1>21. OwnHop'
  <2>1. ASSUME NEW j \in 1 .. l, \A k \in 1 .. j : lines'[k][2] >= 0
        PROVE  lines'[j][2] = j - 1
    <3>1. \A k \in 1 .. j : k \in 1 .. l
      BY <1>3
    <3>2. \A k \in 1 .. j : lines[k][2] >= 0
      BY <1>8, <2>1, <3>1
    <3>3. lines[j][2] = j - 1
      BY <1>14, <3>2 DEF OwnHop, l
    <3>. QED
      BY <1>8, <3>3
  <2>2. ASSUME \A k \in 1 .. l + 1 : lines'[k][2] >= 0
        PROVE  m = l
    <3>1. \A j \in 1 .. l : j \in 1 .. l + 1 /\ \A k \in 1 .. j : k \in 1 .. l + 1
      BY <1>3
    <3>2. \A j \in 1 .. l : lines[j][2] = j - 1
      BY <1>8, <2>1, <2>2, <3>1
    <3>3. l + 1 \in 1 .. l + 1
      BY <1>3
    <3>4. m >= 0
      BY <1>9, <2>2, <3>3
    <3>5. m <= l
      BY <1>5, <1>11, <1>15, <3>4
    <3>6. ~(m < l)
      <4>1. SUFFICES ASSUME m < l PROVE FALSE
        OBVIOUS
      <4>2. m + 1 \in 1 .. l /\ (m + 1) - 1 = m
        BY <1>3, <1>5, <3>4, <4>1
      <4>3. lines[m + 1][2] = m
        BY <3>2, <4>2
      <4>. QED
        BY <1>19, <3>4, <4>2, <4>3
    <3>. QED
      BY <1>3, <1>5, <3>5, <3>6
  <2>3. (l + 1) - 1 = l
    BY <1>3
  <2>. QED
    BY <1>8, <1>9, <1>16, <2>1, <2>2, <2>3 DEF OwnHop
<1>. QED
  BY <1>17, <1>18, <1>20, <1>21 DEF RouteInv

LEMMA RouteNext ==
  ASSUME RouteInv, [Route!Next]_routeVars
  PROVE  RouteInv'
<1>1. CASE UNCHANGED routeVars
  BY <1>1 DEF routeVars, RouteInv, RouteTypes, Probes, Once, OwnHop, Probed
<1>. QED
  BY <1>1, SendProbeInv, DeliverInv, DeliverForeignInv, ReceiveInv DEF Route!Next

(* A probe with the longer way is answered by a router no nearer.          *)
LEMMA Nearer ==
  ASSUME NEW m \in Nat, NEW h \in Nat, m <= h
  PROVE  Route!Answerer(m) <= Route!Answerer(h)
BY RouteConstants DEF Route!Answerer

LEMMA RouteGood ==
  ASSUME RouteInv
  PROVE  Route!RouteTrue
<1>1. hop = Len(lines) /\ hop <= HOPLIMIT /\ lines \in Seq(Nat \X Int)
  BY DEF RouteInv, RouteTypes, Probes
<1>2. DOMAIN lines = 1 .. Len(lines)
  BY <1>1, LenProperties
<1>3. \A x \in Nat \X Int : x[1] \in Nat /\ x[2] \in Int
  OBVIOUS
<1>4. \A j \in DOMAIN lines : lines[j][1] \in Nat /\ lines[j][2] \in Int
  BY <1>1, <1>2, <1>3, ElementOfSeq
<1>5. ASSUME NEW j \in DOMAIN lines, lines[j][2] >= 0
      PROVE  Route!Answerer(lines[j][2]) <= Route!Answerer(lines[j][1])
  <2>1. lines[j][1] \in Nat /\ lines[j][2] \in Nat
    BY <1>4, <1>5
  <2>2. j \in Int /\ lines[j][1] = j - 1 /\ lines[j][2] < j
    BY <1>2 DEF RouteInv, Probes
  <2>3. lines[j][2] <= lines[j][1]
    BY <2>1, <2>2
  <2>. QED
    BY <2>1, <2>3, Nearer
<1>6. \A j, k \in DOMAIN lines : lines[j][2] >= 0 /\ lines[k][2] = lines[j][2] => k = j
  BY <1>2 DEF RouteInv, Once
<1>7. \A j \in DOMAIN lines : (\A k \in 1 .. j : lines[k][2] >= 0) => lines[j][2] = lines[j][1]
  BY <1>2 DEF RouteInv, Probes, OwnHop
<1>. QED
  BY <1>1, <1>5, <1>6, <1>7 DEF Route!RouteTrue

-----------------------------------------------------------------------------
(***************************************************************************)
(* What is written to and taken from a stream of halves of parts.          *)
(***************************************************************************)
Half == Nat \X {1, 2}

LEMMA WrittenAt ==
  ASSUME NEW s \in Seq(Half), NEW i \in Nat
  PROVE  /\ s \o List!Part(i) \in Seq(Half) /\ Len(s \o List!Part(i)) = Len(s) + 2
         /\ \A k \in 1 .. Len(s) : (s \o List!Part(i))[k] = s[k]
         /\ (s \o List!Part(i))[Len(s) + 1] = <<i, 1>>
         /\ (s \o List!Part(i))[Len(s) + 2] = <<i, 2>>
<1>. DEFINE q == <<<<i, 1>>, <<i, 2>>>>
            n == Len(s)
            t == s \o q
<1>1. q \in Seq(Half) /\ Len(q) = 2 /\ q[1] = <<i, 1>> /\ q[2] = <<i, 2>>
  BY DEF Half
<1>2. n \in Nat
  OBVIOUS
<1>. HIDE DEF q
<1>3. /\ t \in Seq(Half) /\ Len(t) = n + 2
      /\ \A k \in 1 .. n + 2 : t[k] = IF k <= n THEN s[k] ELSE q[k - n]
  <2>1. /\ t \in Seq(Half) /\ Len(t) = Len(s) + Len(q)
        /\ \A k \in 1 .. Len(s) + Len(q) : t[k] = IF k <= Len(s) THEN s[k] ELSE q[k - Len(s)]
    <3>. HIDE DEF t, n
    <3>1. q \in Seq(Half)
      BY <1>1
    <3>. QED
      BY <3>1, ConcatProperties, ZenonT(20) DEF t
  <2>. QED
    BY <1>1, <2>1
<1>4. \A k \in 1 .. n : t[k] = s[k]
  BY <1>2, <1>3
<1>5. t[n + 1] = <<i, 1>> /\ t[n + 2] = <<i, 2>>
  <2>1. (n + 1) - n = 1 /\ (n + 2) - n = 2 /\ n + 1 \in 1 .. n + 2 /\ n + 2 \in 1 .. n + 2
    BY <1>2
  <2>2. ~(n + 1 <= n) /\ ~(n + 2 <= n)
    BY <1>2
  <2>. QED
    BY <1>1, <1>3, <2>1, <2>2
<1>. QED
  BY <1>3, <1>4, <1>5 DEF q, List!Part

LEMMA TakenAt ==
  ASSUME NEW s \in Seq(Half), NEW g \in List!Takes(s)
  PROVE  /\ Len(g) \in 1 .. Len(s) /\ g \in Seq(Half)
         /\ \A k \in 1 .. Len(g) : g[k] = s[k] /\ s[k] \in Half
         /\ List!After(s, g) \in Seq(Half) /\ Len(List!After(s, g)) = Len(s) - Len(g)
         /\ \A k \in 1 .. Len(s) - Len(g) : List!After(s, g)[k] = s[Len(g) + k]
<1>. DEFINE m == Len(s)
<1>1. PICK n \in 1 .. m : g = SubSeq(s, 1, n)
  BY DEF List!Takes
<1>2. m \in Nat /\ n \in Nat /\ 1 <= n /\ n <= m
  BY <1>1
<1>3. \A k \in 1 .. m : s[k] \in Half
  OBVIOUS
<1>4. \A k \in 1 .. n : k \in 1 .. m
  BY <1>2
<1>. HIDE DEF m
<1>5. /\ SubSeq(s, 1, n) \in Seq(Half) /\ Len(SubSeq(s, 1, n)) = IF 1 <= n THEN n - 1 + 1 ELSE 0
      /\ \A k \in 1 .. n - 1 + 1 : SubSeq(s, 1, n)[k] = s[1 + k - 1]
  <2>1. 1 \in Int /\ n \in Int /\ \A k \in 1 .. n : s[k] \in Half
    BY <1>2, <1>3, <1>4
  <2>. QED
    BY <2>1, SubSeqProperties
<1>6. g \in Seq(Half) /\ Len(g) = n /\ \A k \in 1 .. n : g[k] = s[k]
  <2>1. n - 1 + 1 = n /\ \A k \in 1 .. n : 1 + k - 1 = k
    BY <1>2
  <2>. QED
    BY <1>1, <1>2, <1>5, <2>1
<1>7. \A k \in n + 1 .. m : k \in 1 .. m
  BY <1>2
<1>. DEFINE a == SubSeq(s, n + 1, m)
<1>8. /\ a \in Seq(Half) /\ Len(a) = IF n + 1 <= m THEN m - (n + 1) + 1 ELSE 0
      /\ \A k \in 1 .. m - (n + 1) + 1 : a[k] = s[n + 1 + k - 1]
  <2>1. n + 1 \in Int /\ m \in Int /\ \A k \in n + 1 .. m : s[k] \in Half
    BY <1>2, <1>3, <1>7
  <2>. QED
    BY <2>1, SubSeqProperties
<1>. HIDE DEF a
<1>9. Len(a) = m - n /\ \A k \in 1 .. m - n : a[k] = s[n + k]
  <2>1. m - (n + 1) + 1 = m - n /\ \A k \in 1 .. m - n : n + 1 + k - 1 = n + k
    BY <1>2
  <2>2. n + 1 <= m \/ m - n = 0
    BY <1>2
  <2>. QED
    BY <1>8, <2>1, <2>2
<1>10. List!After(s, g) = a
  BY <1>6 DEF List!After, a, m
<1>11. Len(g) \in 1 .. m
  BY <1>2, <1>6
<1>. QED
  BY <1>3, <1>4, <1>6, <1>8, <1>9, <1>10, <1>11 DEF m

(* The number of a half, that of its part doubled plus 1 or 2, is that of  *)
(* its place if p have been read before.                                   *)
Numbered(s, p) == \A k \in 1 .. Len(s) : 2 * s[k][1] + s[k][2] = p + k

LEMMA PartWritten ==
  ASSUME NEW s \in Seq(Half), NEW i \in Nat, NEW p \in Nat,
         Numbered(s, p), p + Len(s) = 2 * i
  PROVE  /\ s \o List!Part(i) \in Seq(Half) /\ Numbered(s \o List!Part(i), p)
         /\ p + Len(s \o List!Part(i)) = 2 * (i + 1)
<1>. DEFINE t == s \o List!Part(i)
<1>1. PICK n \in Nat : n = Len(s)
  OBVIOUS
<1>2. /\ t \in Seq(Half) /\ Len(t) = n + 2 /\ \A k \in 1 .. n : t[k] = s[k]
      /\ t[n + 1] = <<i, 1>> /\ t[n + 2] = <<i, 2>>
  BY <1>1, WrittenAt
<1>. HIDE DEF t
<1>3. 2 * i = p + n
  BY <1>1
<1>4. \A k \in 1 .. n + 2 : k \in 1 .. n \/ k = n + 1 \/ k = n + 2
  OBVIOUS
<1>5. \A k \in 1 .. n : 2 * t[k][1] + t[k][2] = p + k
  BY <1>1, <1>2 DEF Numbered
<1>6. 2 * t[n + 1][1] + t[n + 1][2] = p + (n + 1)
  <2>1. t[n + 1][1] = i /\ t[n + 1][2] = 1
    BY <1>2
  <2>. QED
    BY <1>3, <2>1
<1>7. 2 * t[n + 2][1] + t[n + 2][2] = p + (n + 2)
  <2>1. t[n + 2][1] = i /\ t[n + 2][2] = 2
    BY <1>2
  <2>. QED
    BY <1>3, <2>1
<1>8. Numbered(t, p)
  BY <1>2, <1>4, <1>5, <1>6, <1>7 DEF Numbered
<1>9. p + Len(t) = 2 * (i + 1)
  BY <1>2, <1>3
<1>. QED
  BY <1>2, <1>8, <1>9 DEF t

LEMMA PartTaken ==
  ASSUME NEW s \in Seq(Half), NEW p \in Nat, Numbered(s, p), NEW g \in List!Takes(s)
  PROVE  /\ Len(g) \in 1 .. Len(s) /\ g[1] = s[1] /\ s[1] \in Half
         /\ 2 * s[1][1] + s[1][2] = p + 1
         /\ List!After(s, g) \in Seq(Half) /\ Len(List!After(s, g)) = Len(s) - Len(g)
         /\ Numbered(List!After(s, g), p + Len(g))
<1>1. PICK m \in Nat, n \in Nat : m = Len(s) /\ n = Len(g)
  BY TakenAt
<1>. DEFINE a == List!After(s, g)
<1>2. /\ n \in 1 .. m /\ (\A k \in 1 .. n : g[k] = s[k] /\ s[k] \in Half)
      /\ a \in Seq(Half) /\ Len(a) = m - n /\ \A k \in 1 .. m - n : a[k] = s[n + k]
  BY <1>1, TakenAt
<1>. HIDE DEF a
<1>3. \A k \in 1 .. m : 2 * s[k][1] + s[k][2] = p + k
  BY <1>1 DEF Numbered
<1>4. 1 \in 1 .. n /\ 1 \in 1 .. m
  BY <1>2
<1>5. Numbered(a, p + n)
  <2>1. \A k \in 1 .. m - n : n + k \in 1 .. m /\ p + (n + k) = (p + n) + k
    BY <1>2
  <2>. QED
    BY <1>2, <1>3, <2>1 DEF Numbered
<1>. QED
  BY <1>1, <1>2, <1>3, <1>4, <1>5 DEF a

-----------------------------------------------------------------------------
(***************************************************************************)
(* The list of lab04.  p halves of parts have been read and w written.     *)
(* The number of a half, that of its part doubled plus 1 or 2, is that of  *)
(* its place, so that a part is printed only when a read() begins at it.   *)
(***************************************************************************)
LEMMA ListConstants == Quotes \in Nat
BY LabsAssumption DEF List!ConstantsOK

ListTypes ==
  /\ sender \in {"make", "length", "nodes", "closed"} /\ node \in 0 .. Quotes
  /\ count \in {0, Quotes, Quotes + 1} /\ stream \in Seq(Half)
  /\ expected \in -1 .. Quotes + 1 /\ printed \in Seq(Nat) /\ uneven \in BOOLEAN

Flow(p, w) ==
  /\ p + Len(stream) = w /\ Numbered(stream, p)
  /\ w = 2 * (node + 1) \/ (w = 0 /\ node = 0 /\ sender # "nodes")
  /\ sender \in {"make", "length"} => w = 0
  /\ w > 0 \/ sender = "length" => count \in {Quotes, Quotes + 1}
  /\ sender = "closed" /\ w > 0 => node = Quotes
  /\ expected = -1 => p = 0 /\ printed = <<>> /\ ~uneven
  /\ expected > 1 => w > 0 /\ expected = count
  /\ Len(printed) <= expected \/ printed = <<>>

Upwards(p) ==
  /\ \A j \in 1 .. Len(printed) : printed[j] = 0 \/ 2 * printed[j] < p
  /\ \A i, j \in 1 .. Len(printed) : i < j /\ printed[j] # 0 => printed[i] < printed[j]

(* What is printed as long as each read() takes a part, and what cannot be *)
(* any more once one has not.                                              *)
Even(p, w) ==
  ~uneven /\ expected >= 0 =>
    /\ w > 0 /\ expected = count
    /\ p = 2 * (1 + (IF Len(printed) <= Quotes THEN Len(printed) ELSE Quotes))
    /\ \A j \in 1 .. Len(printed) : printed[j] = IF j <= Quotes THEN j ELSE 0

Uneven(p) ==
  uneven /\ expected > 1 =>
    \/ \E j \in 1 .. Len(printed) : printed[j] # j
    \/ Len(printed) < Quotes /\ p > 2 * (Len(printed) + 1)
    \/ p = 2 * Len(printed) + 1

ListAt(p, w) == ListTypes /\ Flow(p, w) /\ Upwards(p) /\ Even(p, w) /\ Uneven(p)

ListInv == \E p, w \in Nat : ListAt(p, w)

LEMMA ListInit ==
  ASSUME List!Init
  PROVE  ListInv
<1>1. ListTypes
  <2>1. stream \in Seq(Half) /\ printed \in Seq(Nat)
    BY DEF List!Init
  <2>2. node \in 0 .. Quotes /\ count \in {0, Quotes, Quotes + 1}
    BY ListConstants DEF List!Init
  <2>3. expected \in -1 .. Quotes + 1
    BY ListConstants DEF List!Init
  <2>. QED
    BY <2>1, <2>2, <2>3 DEF List!Init, ListTypes
<1>2. Len(<<>>) = 0 /\ 1 .. 0 = {}
  OBVIOUS
<1>3. Flow(0, 0)
  BY <1>2, ListConstants DEF List!Init, Flow, Numbered
<1>4. Upwards(0) /\ Even(0, 0) /\ Uneven(0)
  BY <1>2 DEF List!Init, Upwards, Even, Uneven
<1>. QED
  BY <1>1, <1>3, <1>4 DEF ListInv, ListAt

LEMMA MakeListInv ==
  ASSUME ListInv, List!MakeList
  PROVE  ListInv'
<1>1. PICK p \in Nat, w \in Nat : ListAt(p, w)
  BY DEF ListInv
<1>2. /\ sender = "make" /\ sender' \in {"length", "closed"}
      /\ count' \in {Quotes, Quotes + 1} \/ (sender' = "closed" /\ count' = count)
      /\ UNCHANGED <<node, stream, expected, printed, uneven>>
  <2>1. \A stray \in {0, 1} : Quotes + stray \in {Quotes, Quotes + 1}
    BY ListConstants
  <2>. QED
    BY <2>1 DEF List!MakeList
<1>3. w = 0 /\ ~(expected > 1) /\ w = p + Len(stream)
  BY <1>1, <1>2 DEF ListAt, Flow
<1>4. ListTypes'
  BY <1>1, <1>2 DEF ListAt, ListTypes
<1>5. Flow(p, w)'
  BY <1>1, <1>2, <1>3 DEF ListAt, Flow
<1>6. Upwards(p)' /\ Uneven(p)'
  BY <1>1, <1>2 DEF ListAt, Upwards, Uneven
<1>7. Even(p, w)'
  BY <1>1, <1>2, <1>3 DEF ListAt, Even
<1>. QED
  BY <1>4, <1>5, <1>6, <1>7 DEF ListInv, ListAt

LEMMA SendLengthInv ==
  ASSUME ListInv, List!SendLength
  PROVE  ListInv'
<1>1. PICK p \in Nat, w \in Nat : ListAt(p, w)
  BY DEF ListInv
<1>2. /\ sender = "length" /\ sender' = "nodes" /\ stream' = stream \o List!Part(0)
      /\ UNCHANGED <<node, count, expected, printed, uneven>>
  BY DEF List!SendLength
<1>3. ListTypes /\ Flow(p, w) /\ Upwards(p) /\ Even(p, w) /\ Uneven(p)
  BY <1>1 DEF ListAt
<1>4. w = 0 /\ count \in {Quotes, Quotes + 1} /\ Numbered(stream, p) /\ p + Len(stream) = 0
  BY <1>2, <1>3 DEF Flow
<1>5. node \in Nat /\ stream \in Seq(Half) /\ Len(stream) \in Nat
  BY <1>3, ListConstants DEF ListTypes
<1>6. p = 0 /\ node = 0
  BY <1>3, <1>4, <1>5 DEF Flow
<1>7. /\ stream' \in Seq(Half) /\ Numbered(stream', 0)
      /\ 0 + Len(stream') = 2 * (0 + 1)
  <2>1. 0 \in Nat /\ 0 + Len(stream) = 2 * 0
    BY <1>4, <1>6
  <2>. QED
    BY <1>2, <1>4, <1>5, <1>6, <2>1, PartWritten
<1>8. ListTypes'
  BY <1>2, <1>3, <1>7 DEF ListTypes
<1>9. Flow(0, 2)'
  <2>1. 2 = 2 * (node' + 1) /\ 0 + Len(stream') = 2
    BY <1>2, <1>6, <1>7
  <2>2. (expected > 1 => expected = count) /\ (Len(printed) <= expected \/ printed = <<>>)
    BY <1>3 DEF Flow
  <2>3. expected = -1 => printed = <<>> /\ ~uneven
    BY <1>3 DEF Flow
  <2>. QED
    BY <1>2, <1>4, <1>7, <2>1, <2>2, <2>3 DEF Flow
<1>10. Upwards(0)' /\ Uneven(0)'
  BY <1>2, <1>3, <1>6 DEF Upwards, Uneven
<1>11. Even(0, 2)'
  BY <1>2, <1>3, <1>4, <1>6 DEF Even
<1>. QED
  BY <1>8, <1>9, <1>10, <1>11 DEF ListInv, ListAt

LEMMA SendNodeInv ==
  ASSUME ListInv, List!SendNode
  PROVE  ListInv'
<1>1. PICK p \in Nat, w \in Nat : ListAt(p, w)
  BY DEF ListInv
<1>2. ListTypes /\ Flow(p, w) /\ Upwards(p) /\ Even(p, w) /\ Uneven(p)
  BY <1>1 DEF ListAt
<1>3. sender = "nodes" /\ UNCHANGED <<count, expected, printed, uneven>>
  BY DEF List!SendNode
<1>4. /\ node \in Nat /\ node <= Quotes /\ stream \in Seq(Half) /\ Len(stream) \in Nat
      /\ w = 2 * (node + 1) /\ w > 0 /\ p + Len(stream) = w /\ Numbered(stream, p)
  BY <1>2, <1>3, ListConstants DEF ListTypes, Flow
<1>5. CASE node < Quotes
  <2>1. stream' = stream \o List!Part(node + 1) /\ node' = node + 1 /\ sender' = "nodes"
    BY <1>3, <1>5 DEF List!SendNode
  <2>2. PICK i \in Nat : i = node + 1
    BY <1>4
  <2>3. /\ stream' \in Seq(Half) /\ Numbered(stream', p)
        /\ p + Len(stream') = 2 * (i + 1)
    <3>1. stream \in Seq(Half) /\ Numbered(stream, p) /\ p + Len(stream) = 2 * i
      <4>1. w = 2 * i /\ p + Len(stream) = w
        BY <1>4, <2>2
      <4>. QED
        BY <1>4, <4>1
    <3>2. stream' = stream \o List!Part(i)
      BY <2>1, <2>2
    <3>. QED
      BY <3>1, <3>2, PartWritten
  <2>4. 2 * (i + 1) = 2 * (node' + 1) /\ 2 * (i + 1) \in Nat /\ 2 * (i + 1) > 0 /\ node' \in 0 .. Quotes
    <3>1. i + 1 = node' + 1
      BY <2>1, <2>2
    <3>2. node' \in 0 .. Quotes
      BY <1>4, <1>5, <2>1, ListConstants
    <3>3. 2 * (i + 1) \in Nat /\ 2 * (i + 1) > 0
      OBVIOUS
    <3>4. 2 * (i + 1) = 2 * (node' + 1)
      BY <3>1, Zenon
    <3>. QED
      BY <3>2, <3>3, <3>4, Zenon
  <2>5. ListTypes'
    BY <1>2, <1>3, <2>1, <2>3, <2>4 DEF ListTypes
  <2>6. Flow(p, 2 * (i + 1))'
    BY <1>2, <1>3, <1>4, <2>1, <2>3, <2>4 DEF Flow
  <2>7. Upwards(p)' /\ Uneven(p)'
    BY <1>2, <1>3 DEF Upwards, Uneven
  <2>8. Even(p, 2 * (i + 1))'
    BY <1>2, <1>3, <2>4 DEF Even
  <2>. QED
    BY <2>4, <2>5, <2>6, <2>7, <2>8 DEF ListInv, ListAt
<1>6. CASE ~(node < Quotes)
  <2>1. sender' = "closed" /\ UNCHANGED <<stream, node>>
    BY <1>3, <1>6 DEF List!SendNode
  <2>2. node = Quotes
    BY <1>4, <1>6, ListConstants
  <2>3. ListTypes' /\ Flow(p, w)'
    BY <1>2, <1>3, <1>4, <2>1, <2>2 DEF ListTypes, Flow
  <2>4. Upwards(p)' /\ Even(p, w)' /\ Uneven(p)'
    BY <1>2, <1>3 DEF Upwards, Even, Uneven
  <2>. QED
    BY <2>3, <2>4 DEF ListInv, ListAt
<1>. QED
  BY <1>5, <1>6

(* What the receiver knows to be the length is the field of the sender.    *)
LEMMA ReadLengthInv ==
  ASSUME ListInv, List!ReadLength
  PROVE  ListInv'
<1>1. PICK p \in Nat, w \in Nat : ListAt(p, w)
  BY DEF ListInv
<1>2. ListTypes /\ Flow(p, w) /\ Upwards(p) /\ Even(p, w) /\ Uneven(p)
  BY <1>1 DEF ListAt
<1>3. expected = -1 /\ UNCHANGED <<sender, node, count, printed>>
  BY DEF List!ReadLength
<1>4. /\ p = 0 /\ printed = <<>> /\ ~uneven /\ stream \in Seq(Half)
      /\ p + Len(stream) = w /\ Numbered(stream, p) /\ (w > 0 => count \in {Quotes, Quotes + 1})
  BY <1>2, <1>3 DEF Flow, ListTypes
<1>5. Len(printed) = 0 /\ 1 .. 0 = {}
  BY <1>4
<1>6. {0, 1} \subseteq -1 .. Quotes + 1
  BY ListConstants
<1>7. \A q : Upwards(q)'
  BY <1>3, <1>5 DEF Upwards
<1>8. ASSUME NEW taken \in List!Takes(stream), Len(taken) <= 2, stream' = List!After(stream, taken),
             uneven' = (Len(taken) # 2), expected' \in IF Len(taken) = 2 THEN {count} ELSE {0, 1}
      PROVE  ListInv'
  <2>1. /\ Len(taken) \in 1 .. Len(stream) /\ stream' \in Seq(Half)
        /\ Len(stream') = Len(stream) - Len(taken) /\ Numbered(stream', p + Len(taken))
    BY <1>4, <1>8, PartTaken
  <2>2. PICK q \in Nat : q = Len(taken)
    BY <2>1
  <2>3. q + Len(stream') = w /\ q >= 1 /\ w > 0 /\ p + Len(taken) = q
    BY <1>4, <2>1, <2>2
  <2>4. count \in {Quotes, Quotes + 1} /\ (expected' = count \/ expected' \in {0, 1})
    BY <1>4, <1>8, <2>3
  <2>5. expected' \in -1 .. Quotes + 1 /\ expected' >= 0
    BY <1>6, <2>4, ListConstants
  <2>6. ListTypes'
    BY <1>2, <1>3, <1>8, <2>1, <2>5 DEF ListTypes
  <2>7. Flow(q, w)'
    <3>1. expected' > 1 => expected' = count
      BY <2>4
    <3>. QED
      BY <1>2, <1>3, <1>4, <2>1, <2>3, <2>4, <2>5, <3>1 DEF Flow
  <2>8. Even(q, w)'
    <3>1. ~uneven' => Len(taken) = 2
      BY <1>8, Zenon
    <3>2. ~uneven' => expected' = count /\ q = 2
      BY <1>8, <2>2, <3>1
    <3>3. 2 = 2 * (1 + (IF 0 <= Quotes THEN 0 ELSE Quotes))
      BY ListConstants
    <3>4. Len(printed') = 0 /\ w > 0 /\ count' = count
      BY <1>3, <1>5, <2>3
    <3>5. q = 2 => q = 2 * (1 + (IF Len(printed') <= Quotes THEN Len(printed') ELSE Quotes))
      BY <3>3, <3>4
    <3>6. 1 .. Len(printed') = {}
      BY <3>4
    <3>. QED
      BY <3>2, <3>4, <3>5, <3>6 DEF Even
  <2>9. Uneven(q)'
    <3>1. uneven' => Len(taken) # 2
      BY <1>8, Zenon
    <3>2. Len(taken) # 2 => expected' \in {0, 1}
      BY <1>8
    <3>3. \A e \in {0, 1} : ~(e > 1)
      OBVIOUS
    <3>. QED
      BY <3>1, <3>2, <3>3 DEF Uneven
  <2>. QED
    BY <1>7, <2>6, <2>7, <2>8, <2>9 DEF ListInv, ListAt
<1>9. ASSUME stream = <<>>, sender = "closed", expected' \in {0, 1}, uneven' = TRUE, UNCHANGED stream
      PROVE  ListInv'
  <2>1. expected' \in -1 .. Quotes + 1 /\ ~(expected' > 1) /\ expected' # -1
    BY <1>6, <1>9
  <2>2. ListTypes'
    BY <1>2, <1>3, <1>9, <2>1 DEF ListTypes
  <2>3. Flow(p, w)'
    BY <1>2, <1>3, <1>4, <1>9, <2>1 DEF Flow
  <2>4. Even(p, w)' /\ Uneven(p)'
    BY <1>9, <2>1 DEF Even, Uneven
  <2>. QED
    BY <1>7, <2>2, <2>3, <2>4 DEF ListInv, ListAt
<1>. QED
  BY <1>8, <1>9 DEF List!ReadLength

LEMMA UpwardsOn ==
  ASSUME NEW p \in Nat, NEW q \in Nat, NEW x \in Nat, p <= q, x = 0 \/ (2 * x = p /\ p < q),
         printed \in Seq(Nat), printed' = Append(printed, x), Upwards(p)
  PROVE  Upwards(q)'
<1>1. PICK n \in Nat : n = Len(printed)
  OBVIOUS
<1>2. Len(printed') = n + 1 /\ (\A j \in 1 .. n : printed'[j] = printed[j]) /\ printed'[n + 1] = x
  BY <1>1, AppendProperties
<1>3. \A j \in 1 .. n : printed[j] \in Nat /\ (printed[j] = 0 \/ 2 * printed[j] < p)
  BY <1>1 DEF Upwards
<1>4. \A j \in 1 .. n + 1 : j \in 1 .. n \/ j = n + 1
  OBVIOUS
<1>5. \A j \in 1 .. n : printed'[j] = 0 \/ 2 * printed'[j] < q
  BY <1>2, <1>3
<1>6. x = 0 \/ 2 * x < q
  OBVIOUS
<1>7. \A j \in 1 .. n + 1 : printed'[j] = 0 \/ 2 * printed'[j] < q
  BY <1>2, <1>4, <1>5, <1>6
<1>8. ASSUME NEW i \in 1 .. n + 1, NEW j \in 1 .. n + 1, i < j, printed'[j] # 0
      PROVE  printed'[i] < printed'[j]
  <2>1. i \in 1 .. n
    BY <1>8
  <2>2. CASE j \in 1 .. n
    BY <1>1, <1>2, <1>8, <2>1, <2>2 DEF Upwards
  <2>3. CASE j = n + 1
    <3>1. 2 * x = p /\ x > 0 /\ printed'[j] = x
      BY <1>2, <1>8, <2>3
    <3>2. printed'[i] = printed[i] /\ printed[i] \in Nat /\ (printed[i] = 0 \/ 2 * printed[i] < p)
      BY <1>2, <1>3, <2>1
    <3>. QED
      BY <3>1, <3>2
  <2>. QED
    BY <1>4, <2>2, <2>3
<1>. QED
  BY <1>2, <1>7, <1>8 DEF Upwards

LEMMA ReadNodeInv ==
  ASSUME ListInv, List!ReadNode
  PROVE  ListInv'
<1>1. PICK p \in Nat, w \in Nat : ListAt(p, w)
  BY DEF ListInv
<1>2. ListTypes /\ Flow(p, w) /\ Upwards(p) /\ Even(p, w) /\ Uneven(p)
  BY <1>1 DEF ListAt
<1>3. Len(printed) < expected /\ UNCHANGED <<sender, node, count, expected>>
  BY DEF List!ReadNode
<1>4. PICK n \in Nat : n = Len(printed)
  BY <1>2 DEF ListTypes
<1>5. /\ expected \in Nat /\ n < expected /\ printed \in Seq(Nat) /\ stream \in Seq(Half)
      /\ p + Len(stream) = w /\ Numbered(stream, p) /\ node \in Nat /\ node <= Quotes /\ Quotes \in Nat
      /\ (w > 0 => w = 2 * (node + 1)) /\ (sender = "closed" /\ w > 0 => node = Quotes)
  BY <1>2, <1>3, <1>4, ListConstants DEF ListTypes, Flow
<1>6. ~uneven => /\ w > 0 /\ expected = count
                 /\ p = 2 * (1 + (IF n <= Quotes THEN n ELSE Quotes))
                 /\ \A j \in 1 .. n : printed[j] = IF j <= Quotes THEN j ELSE 0
  BY <1>2, <1>4, <1>5 DEF Even
<1>7. uneven /\ expected > 1 => (\E j \in 1 .. n : printed[j] # j) \/ (n < Quotes /\ p > 2 * (n + 1)) \/ p = 2 * n + 1
  BY <1>2, <1>4 DEF Uneven
<1>8. \A j \in 1 .. n + 1 : j \in 1 .. n \/ j = n + 1
  OBVIOUS
<1>9. ASSUME NEW x \in Nat, NEW q \in Nat, printed' = Append(printed, x),
             p <= q, x = 0 \/ (2 * x = p /\ p < q),
             stream' \in Seq(Half), Numbered(stream', q), q + Len(stream') = w, uneven' \in BOOLEAN,
             ~uneven' => /\ ~uneven /\ q = 2 * (1 + (IF n + 1 <= Quotes THEN n + 1 ELSE Quotes))
                         /\ x = IF n + 1 <= Quotes THEN n + 1 ELSE 0,
             uneven' /\ expected > 1 => \/ \E j \in 1 .. n : printed[j] # j
                                        \/ x # n + 1
                                        \/ n + 1 < Quotes /\ q > 2 * (n + 2)
                                        \/ q = 2 * (n + 1) + 1
      PROVE  ListInv'
  <2>1. /\ printed' \in Seq(Nat) /\ Len(printed') = n + 1
        /\ (\A j \in 1 .. n : printed'[j] = printed[j]) /\ printed'[n + 1] = x
    BY <1>4, <1>5, <1>9, AppendProperties
  <2>2. ListTypes'
    BY <1>2, <1>3, <1>9, <2>1 DEF ListTypes
  <2>3. Flow(q, w)'
    <3>1. expected' # -1 /\ Len(printed') <= expected'
      BY <1>3, <1>5, <2>1
    <3>. QED
      BY <1>2, <1>3, <1>9, <3>1 DEF Flow
  <2>4. Upwards(q)'
    BY <1>2, <1>5, <1>9, UpwardsOn
  <2>5. Even(q, w)'
    <3>1. ASSUME ~uneven'
          PROVE  \A j \in 1 .. n + 1 : printed'[j] = IF j <= Quotes THEN j ELSE 0
      BY <1>6, <1>8, <1>9, <2>1, <3>1
    <3>. QED
      BY <1>3, <1>6, <1>9, <2>1, <3>1 DEF Even
  <2>6. Uneven(q)'
    <3>1. ASSUME uneven', expected > 1
          PROVE  \/ \E j \in 1 .. n + 1 : printed'[j] # j
                 \/ n + 1 < Quotes /\ q > 2 * ((n + 1) + 1)
                 \/ q = 2 * (n + 1) + 1
      <4>1. 1 .. n \subseteq 1 .. n + 1 /\ n + 1 \in 1 .. n + 1 /\ n + 2 = (n + 1) + 1
        OBVIOUS
      <4>. QED
        BY <1>9, <2>1, <3>1, <4>1
    <3>. QED
      BY <1>3, <2>1, <3>1 DEF Uneven
  <2>. QED
    BY <2>2, <2>3, <2>4, <2>5, <2>6 DEF ListInv, ListAt
<1>10. ASSUME NEW taken \in List!Takes(stream), stream' = List!After(stream, taken),
              \E x \in List!Shown(taken) : printed' = Append(printed, x),
              uneven' = (uneven \/ Len(taken) # 2)
       PROVE  ListInv'
  <2>1. /\ Len(taken) \in 1 .. Len(stream) /\ taken[1] = stream[1] /\ stream[1] \in Half
        /\ 2 * stream[1][1] + stream[1][2] = p + 1
        /\ stream' \in Seq(Half) /\ Len(stream') = Len(stream) - Len(taken)
        /\ Numbered(stream', p + Len(taken))
    BY <1>5, <1>10, PartTaken
  <2>2. PICK k \in Nat : k = Len(taken)
    BY <2>1
  <2>3. PICK a \in Nat, b \in {1, 2} : taken[1][1] = a /\ taken[1][2] = b
    BY <2>1 DEF Half
  <2>4. 2 * a + b = p + 1 /\ k >= 1 /\ (p + k) + Len(stream') = w /\ p + k <= w /\ p + k \in Nat
    <3>1. 2 * a + b = p + 1
      BY <2>1, <2>3
    <3>2. PICK r \in Nat : r = Len(stream)
      BY <1>5
    <3>3. k >= 1 /\ k <= r /\ Len(stream') = r - k /\ p + r = w
      BY <1>5, <2>1, <2>2, <3>2
    <3>. QED
      BY <3>1, <3>3
  <2>5. w > 0 /\ w = 2 * (node + 1) /\ w <= 2 * (Quotes + 1)
    BY <1>5, <2>4
  <2>6. PICK x \in List!Shown(taken) : printed' = Append(printed, x)
    BY <1>10
  <2>7. x \in Nat /\ (x = 0 \/ (x = a /\ b = 1)) /\ (k >= 2 /\ b = 1 => x = a)
    BY <2>2, <2>3, <2>6 DEF List!Shown
  <2>8. x = 0 \/ (2 * x = p /\ p < p + k)
    BY <2>4, <2>7
  <2>9. ~uneven => n < Quotes /\ p = 2 * (n + 1) /\ a = n + 1 /\ b = 1
    <3>1. n < Quotes \/ p + k > 2 * (Quotes + 1) \/ uneven
      BY <1>5, <1>6, <2>4
    <3>2. ~uneven => n < Quotes
      BY <1>5, <2>4, <2>5, <3>1
    <3>3. ~uneven => p = 2 * (n + 1)
      BY <1>5, <1>6, <3>2
    <3>. QED
      BY <2>4, <3>2, <3>3
  <2>10. (uneven' => uneven \/ k # 2) /\ (~uneven' => ~uneven /\ k = 2) /\ uneven' \in BOOLEAN
    BY <1>10, <2>2, Zenon
  <2>11. ~uneven' => /\ ~uneven /\ p + k = 2 * (1 + (IF n + 1 <= Quotes THEN n + 1 ELSE Quotes))
                     /\ x = IF n + 1 <= Quotes THEN n + 1 ELSE 0
    BY <1>5, <2>7, <2>9, <2>10
  <2>12. uneven /\ expected > 1 => (\E j \in 1 .. n : printed[j] # j) \/ x # n + 1
    <3>1. p > 2 * (n + 1) \/ p = 2 * n + 1 => x # n + 1
      BY <2>7, <2>8
    <3>. QED
      BY <1>7, <3>1
  <2>13. ~uneven /\ k # 2 => p + k = 2 * (n + 1) + 1 \/ (n + 1 < Quotes /\ p + k > 2 * (n + 2))
    <3>1. ~uneven /\ k = 1 => p + k = 2 * (n + 1) + 1
      BY <2>9
    <3>2. ~uneven /\ k >= 3 => n + 1 < Quotes /\ p + k > 2 * (n + 2)
      BY <1>5, <2>4, <2>5, <2>9
    <3>. QED
      BY <2>4, <3>1, <3>2
  <2>14. uneven' /\ expected > 1 => \/ \E j \in 1 .. n : printed[j] # j
                                    \/ x # n + 1
                                    \/ n + 1 < Quotes /\ p + k > 2 * (n + 2)
                                    \/ p + k = 2 * (n + 1) + 1
    BY <2>10, <2>12, <2>13
  <2>15. p <= p + k /\ Numbered(stream', p + k)
    BY <2>1, <2>2
  <2>. QED
    BY <1>9, <2>1, <2>4, <2>6, <2>7, <2>8, <2>10, <2>11, <2>14, <2>15
<1>11. ASSUME stream = <<>>, sender = "closed", printed' = Append(printed, 0), UNCHANGED <<stream, uneven>>
       PROVE  ListInv'
  <2>1. p = w /\ p + Len(stream') = w
    BY <1>5, <1>11
  <2>2. ~uneven => n >= Quotes
    <3>1. ~uneven => p = 2 * (Quotes + 1)
      BY <1>5, <1>6, <1>11, <2>1
    <3>. QED
      BY <1>5, <1>6, <3>1
  <2>3. ~uneven' => /\ ~uneven /\ p = 2 * (1 + (IF n + 1 <= Quotes THEN n + 1 ELSE Quotes))
                    /\ 0 = IF n + 1 <= Quotes THEN n + 1 ELSE 0
    BY <1>5, <1>6, <1>11, <2>2
  <2>4. 0 \in Nat /\ 0 # n + 1 /\ p <= p
    OBVIOUS
  <2>5. stream' \in Seq(Half) /\ Numbered(stream', p) /\ uneven' \in BOOLEAN
    BY <1>2, <1>5, <1>11 DEF ListTypes
  <2>. QED
    BY <1>9, <1>11, <2>1, <2>3, <2>4, <2>5
<1>. QED
  BY <1>10, <1>11 DEF List!ReadNode

LEMMA ListNext ==
  ASSUME ListInv, [List!Next]_listVars
  PROVE  ListInv'
<1>1. CASE UNCHANGED listVars
  <2>1. PICK p \in Nat, w \in Nat : ListAt(p, w)
    BY DEF ListInv
  <2>2. UNCHANGED <<sender, node, count, stream, expected, printed, uneven>>
    BY <1>1 DEF listVars
  <2>3. ListTypes' /\ Flow(p, w)'
    BY <2>1, <2>2 DEF ListAt, ListTypes, Flow
  <2>4. Upwards(p)' /\ Even(p, w)' /\ Uneven(p)'
    BY <2>1, <2>2 DEF ListAt, Upwards, Even, Uneven
  <2>. QED
    BY <2>3, <2>4 DEF ListInv, ListAt
<1>. QED
  BY <1>1, MakeListInv, SendLengthInv, SendNodeInv, ReadLengthInv, ReadNodeInv DEF List!Next

LEMMA ListGood ==
  ASSUME ListInv
  PROVE  List!PrintedOnce
<1>1. PICK p \in Nat, w \in Nat : ListAt(p, w)
  BY DEF ListInv
<1>2. ListTypes /\ Flow(p, w) /\ Upwards(p) /\ Even(p, w) /\ Uneven(p)
  BY <1>1 DEF ListAt
<1>3. PICK n \in Nat : n = Len(printed)
  BY <1>2 DEF ListTypes
<1>4. /\ expected \in -1 .. Quotes + 1 /\ printed \in Seq(Nat) /\ uneven \in BOOLEAN
      /\ Quotes \in Nat /\ DOMAIN printed = 1 .. n
  BY <1>2, <1>3, ListConstants DEF ListTypes
<1>5. n <= expected \/ n = 0
  <2>1. printed = <<>> => n = 0
    BY <1>3
  <2>. QED
    BY <1>2, <1>3, <2>1 DEF Flow
<1>6. n <= Quotes + 1
  BY <1>4, <1>5
<1>7. \A i, j \in DOMAIN printed : i < j /\ printed[j] # 0 => printed[i] < printed[j]
  BY <1>2, <1>3, <1>4 DEF Upwards
<1>8. ASSUME n = expected, expected > 1
      PROVE  /\ count = Quotes /\ ~uneven => printed = [k \in 1 .. Quotes |-> k]
             /\ printed = [k \in 1 .. Quotes |-> k] =>
                  count = Quotes /\ (~uneven \/ stream = <<<<Quotes, 2>>>>)
  <2>1. expected = count
    BY <1>2, <1>8 DEF Flow
  <2>2. ASSUME printed = [k \in 1 .. Quotes |-> k]
        PROVE  count = Quotes /\ (~uneven \/ stream = <<<<Quotes, 2>>>>)
    <3>1. 1 .. n = 1 .. Quotes
      BY <1>4, <2>2
    <3>2. n = Quotes
      BY <1>4, <1>8, <3>1
    <3>3. \A j \in 1 .. n : printed[j] = j
      BY <2>2, <3>1
    <3>4. ~uneven \/ p = 2 * Quotes + 1
      BY <1>2, <1>3, <1>8, <3>2, <3>3 DEF Uneven
    <3>5. ASSUME p = 2 * Quotes + 1
          PROVE  stream = <<<<Quotes, 2>>>>
      <4>1. PICK m \in Nat : m = Len(stream)
        BY <1>2 DEF ListTypes
      <4>2. /\ p + m = w /\ node \in Nat /\ node <= Quotes /\ (w = 2 * (node + 1) \/ w = 0)
            /\ Numbered(stream, p) /\ stream \in Seq(Half)
        BY <1>2, <1>4, <4>1 DEF Flow, ListTypes
      <4>3. m = 1
        BY <1>4, <3>5, <4>2
      <4>4. stream[1] \in Half /\ 2 * stream[1][1] + stream[1][2] = p + 1
        <5>1. 1 \in 1 .. Len(stream)
          BY <4>1, <4>3
        <5>2. stream[1] \in Half
          BY <4>2, <5>1
        <5>. QED
          BY <4>2, <5>1, <5>2 DEF Numbered
      <4>5. PICK a \in Nat, b \in {1, 2} : stream[1] = <<a, b>>
        BY <4>4 DEF Half
      <4>6. a = Quotes /\ b = 2
        <5>1. 2 * a + b = (2 * Quotes + 1) + 1
          BY <3>5, <4>4, <4>5
        <5>. QED
          BY <1>4, <5>1
      <4>7. Len(stream) = 1 /\ stream[1] = <<Quotes, 2>>
        BY <4>1, <4>3, <4>5, <4>6
      <4>. QED
        <5>. DEFINE one == <<<<Quotes, 2>>>>
        <5>1. one \in Seq(Half) /\ Len(one) = 1 /\ one[1] = <<Quotes, 2>>
          BY <1>4 DEF Half
        <5>. HIDE DEF one
        <5>2. stream = one
          BY <4>2, <4>7, <5>1, SeqEqual
        <5>. QED
          BY <5>2 DEF one
    <3>. QED
      BY <1>8, <2>1, <3>2, <3>4, <3>5
  <2>3. ASSUME count = Quotes, ~uneven
        PROVE  printed = [k \in 1 .. Quotes |-> k]
    <3>1. n = Quotes
      BY <1>8, <2>1, <2>3
    <3>2. \A j \in 1 .. n : printed[j] = IF j <= Quotes THEN j ELSE 0
      BY <1>2, <1>3, <1>4, <1>8, <2>3 DEF Even
    <3>3. \A j \in 1 .. Quotes : printed[j] = j
      BY <1>4, <3>1, <3>2
    <3>. QED
      BY <1>4, <3>1, <3>3
  <2>. QED
    BY <2>2, <2>3
<1>. QED
  BY <1>3, <1>4, <1>6, <1>7, <1>8 DEF List!PrintedOnce

-----------------------------------------------------------------------------
(***************************************************************************)
(* The echo of lab11.  Of the stream from a client the server has taken p  *)
(* halves; of the stream to it, on which m have been written, the client   *)
(* has taken q; g is the block that stands for the text there, 2 if it is  *)
(* the right one.  Each conversation is in order as long as each read()    *)
(* took a part (Calm); once one did not, no answer can be right (NoRight), *)
(* until the server dies.                                                  *)
(***************************************************************************)
LEMMA EchoConstants == Long \subseteq Peer /\ NumBlocks \in Nat \ {0}
BY LabsAssumption DEF Echo!ConstantsOK

LEMMA EchoReads ==
  /\ \A s : Echo!Takes(s) = List!Takes(s)
  /\ \A s, g : Echo!After(s, g) = List!After(s, g)
  /\ \A k : Echo!Part(k) = List!Part(k)
BY DEF Echo!Takes, List!Takes, Echo!After, List!After, Echo!Part, List!Part

Conversing == es \in {"key", "length", "text", "answer"}
Stage(c) == IF Conversing /\ peer = c THEN es ELSE "none"
Queued(c) == \E k \in DOMAIN waiting : waiting[k] = c

EchoTypes ==
  /\ Echo!TypeOK
  /\ toServer \in [Peer -> Seq(Half)] /\ toClient \in [Peer -> Seq(Half)]
  /\ \A k, l \in DOMAIN waiting : waiting[k] = waiting[l] => k = l

Counters ==
  /\ Conversing => peer \in Peer
  /\ es \in {"key", "length"} => nread = 0
  /\ es = "text" => nread < Echo!Blocks(peer)
  /\ \A c \in Peer : /\ ec[c] \in {"new", "key"} => nsent[c] = 0
                     /\ ec[c] = "send" => nsent[c] <= Echo!Blocks(c)

Reply(s, q, g) ==
  \A k \in 1 .. Len(s) : IF g = 0 /\ q + k > 4 THEN s[k][1] = 0
                         ELSE 2 * s[k][1] + s[k][2] = q + k

Place(c, q, m) ==
  /\ q + Len(toClient[c]) = m
  /\ ec[c] \in {"new", "key"} => q = 0
  /\ ec[c] \in {"send", "length"} => q = 2
  /\ ec[c] = "text" => q >= 4
  /\ ec[c] = "new" \/ Queued(c) => m = 0 /\ c \notin odd /\ Stage(c) = "none" /\ toServer[c] = <<>>
  /\ ec[c] = "new" => ~Queued(c)
  /\ Queued(c) /\ es # "dead" => ec[c] = "key"
  /\ Stage(c) # "none" => m = 2
  /\ m = 6 => c \in closed /\ c \notin Long
  /\ c \in closed => m = 6 \/ es = "dead"

Asked(c, p) ==
  /\ Numbered(toServer[c], p) /\ p + Len(toServer[c]) <= 6
  /\ ec[c] \in {"new", "key"} => p = 0 /\ toServer[c] = <<>>
  /\ ec[c] = "send" => p + Len(toServer[c]) = 2 * (1 + nsent[c])
  /\ Stage(c) = "key" => p = 0
  /\ Stage(c) = "length" => p \in {1, 2}

NoRight(c, p, q, m, g) ==
  \/ ec[c] = "text" /\ q > 4
  \/ ec[c] = "done" /\ result[c] # "right"
  \/ m = 6 /\ g = 0
  \/ m <= 4 /\ es = "dead"
  \/ Stage(c) = "length" /\ p # 2
  \/ Stage(c) = "text" /\ p # 4
  \/ Stage(c) = "answer" /\ ~good

Calm(c, p, q, m, g) ==
  /\ ec[c] = "done" => result[c] = "right" /\ c \in closed
  /\ ec[c] = "text" => q = 4
  /\ m = 6 => g = 2
  /\ Stage(c) # "none" => good
  /\ Stage(c) = "length" => p = 2
  /\ Stage(c) = "text" => p = 4

Talk(c, p, q, m, g) ==
  /\ Place(c, q, m) /\ Reply(toClient[c], q, g) /\ m \in {0, 2, 4, 6} /\ (m <= 4 => g = 2)
  /\ result[c] = "right" => ec[c] = "done" /\ c \notin Long \cup odd
  /\ c \notin Long => /\ Asked(c, p)
                      /\ c \in odd => NoRight(c, p, q, m, g)
                      /\ c \notin odd /\ es # "dead" => Calm(c, p, q, m, g)

Talks(c) == \E p, q, m \in Nat, g \in {0, 2} : Talk(c, p, q, m, g)

EchoInv == EchoTypes /\ Counters /\ \A c \in Peer : Talks(c)

LEMMA EchoInit ==
  ASSUME Echo!Init
  PROVE  EchoInv
<1>1. EchoTypes
  <2>1. waiting \in Seq(Peer) /\ DOMAIN waiting = {}
    BY DEF Echo!Init
  <2>2. 0 \in 0 .. NumBlocks /\ 0 \in 0 .. NumBlocks + 1
    BY EchoConstants
  <2>3. nread \in 0 .. NumBlocks /\ nsent \in [Peer -> 0 .. NumBlocks + 1]
    BY <2>2 DEF Echo!Init
  <2>4. toServer \in [Peer -> Seq(Half)] /\ toClient \in [Peer -> Seq(Half)]
    <3>1. <<>> \in Seq(Half)
      OBVIOUS
    <3>. QED
      BY <3>1 DEF Echo!Init
  <2>5. /\ ec \in [Peer -> {"new", "key", "send", "length", "text", "done"}]
        /\ result \in [Peer -> {"none", "right", "wrong", "error"}]
        /\ peer = Echo!Nobody /\ good \in BOOLEAN /\ closed \subseteq Peer /\ odd \subseteq Peer
        /\ es = "accept"
    BY DEF Echo!Init
  <2>. QED
    BY <2>1, <2>3, <2>4, <2>5 DEF EchoTypes, Echo!TypeOK
<1>2. Counters
  BY DEF Echo!Init, Counters, Conversing
<1>3. ASSUME NEW c \in Peer
      PROVE  Talk(c, 0, 0, 0, 2)
  <2>1. /\ ec[c] = "new" /\ nsent[c] = 0 /\ toServer[c] = <<>> /\ toClient[c] = <<>> /\ c \notin closed
        /\ result[c] = "none" /\ c \notin odd /\ es = "accept" /\ DOMAIN waiting = {}
    BY DEF Echo!Init
  <2>2. Len(<<>>) = 0 /\ 1 .. 0 = {}
    OBVIOUS
  <2>3. Stage(c) = "none" /\ ~Queued(c)
    BY <2>1 DEF Stage, Conversing, Queued
  <2>4. Place(c, 0, 0)
    BY <2>1, <2>2, <2>3 DEF Place
  <2>5. Asked(c, 0) /\ Reply(toClient[c], 0, 2)
    BY <2>1, <2>2, <2>3 DEF Asked, Reply, Numbered
  <2>6. Calm(c, 0, 0, 0, 2)
    BY <2>1, <2>3 DEF Calm
  <2>. QED
    BY <2>1, <2>4, <2>5, <2>6 DEF Talk
<1>. QED
  BY <1>1, <1>2, <1>3 DEF EchoInv, Talks

(* What leaves a conversation as it is, unless the server dies.            *)
Untouched(c) ==
  /\ ec'[c] = ec[c] /\ result'[c] = result[c] /\ nsent'[c] = nsent[c]
  /\ toServer'[c] = toServer[c] /\ toClient'[c] = toClient[c]
  /\ (c \in odd' <=> c \in odd) /\ (Queued(c)' <=> Queued(c))
  /\ Stage(c)' = Stage(c) /\ (Stage(c) # "none" => good' = good)
  /\ (es = "dead" => es' = "dead") /\ closed \subseteq closed'
  /\ es' # "dead" => (c \in closed' <=> c \in closed)

LEMMA EchoFrame ==
  ASSUME NEW c, Talks(c), Untouched(c)
  PROVE  Talks(c)'
<1>1. PICK p \in Nat, q \in Nat, m \in Nat, g \in {0, 2} : Talk(c, p, q, m, g)
  BY DEF Talks
<1>2. Place(c, q, m)'
  BY <1>1 DEF Talk, Place, Untouched
<1>3. (c \notin Long => Asked(c, p))'
  BY <1>1 DEF Talk, Asked, Untouched
<1>4. (c \notin Long /\ c \in odd => NoRight(c, p, q, m, g))'
  BY <1>1 DEF Talk, NoRight, Untouched
<1>5. (c \notin Long /\ c \notin odd /\ es # "dead" => Calm(c, p, q, m, g))'
  BY <1>1 DEF Talk, Calm, Untouched
<1>6. Reply(toClient[c], q, g)' /\ (result[c] = "right" => ec[c] = "done" /\ c \notin Long \cup odd)'
  BY <1>1 DEF Talk, Untouched
<1>. QED
  BY <1>1, <1>2, <1>3, <1>4, <1>5, <1>6 DEF Talk, Talks

LEMMA ReplyTaken ==
  ASSUME NEW s \in Seq(Half), NEW q \in Nat, NEW g \in {0, 2}, Reply(s, q, g), NEW t \in Echo!Takes(s)
  PROVE  /\ Len(t) \in 1 .. Len(s) /\ \A k \in 1 .. Len(t) : t[k] = s[k] /\ s[k] \in Half
         /\ Echo!After(s, t) \in Seq(Half) /\ Len(Echo!After(s, t)) = Len(s) - Len(t)
         /\ Reply(Echo!After(s, t), q + Len(t), g)
<1>0. t \in List!Takes(s)
  BY EchoReads
<1>1. PICK m \in Nat, n \in Nat : m = Len(s) /\ n = Len(t)
  BY <1>0, TakenAt
<1>. DEFINE a == Echo!After(s, t)
<1>2. /\ n \in 1 .. m /\ (\A k \in 1 .. n : t[k] = s[k] /\ s[k] \in Half)
      /\ a \in Seq(Half) /\ Len(a) = m - n /\ \A k \in 1 .. m - n : a[k] = s[n + k]
  BY <1>0, <1>1, TakenAt, EchoReads
<1>. HIDE DEF a
<1>3. \A k \in 1 .. m : IF g = 0 /\ q + k > 4 THEN s[k][1] = 0 ELSE 2 * s[k][1] + s[k][2] = q + k
  BY <1>1 DEF Reply
<1>4. \A k \in 1 .. m - n : n + k \in 1 .. m /\ q + (n + k) = (q + n) + k
  BY <1>2
<1>5. Reply(a, q + n, g)
  BY <1>2, <1>3, <1>4 DEF Reply
<1>. QED
  BY <1>1, <1>2, <1>5 DEF a

LEMMA Marked ==
  ASSUME NEW c \in Peer, NEW t, Echo!Mark(c, t), EchoTypes
  PROVE  /\ odd' \subseteq Peer /\ (c \in odd' <=> c \in odd \/ Len(t) # 2)
         /\ \A d \in Peer \ {c} : d \in odd' <=> d \in odd
BY DEF Echo!Mark, EchoTypes, Echo!TypeOK

(* A client changes nothing of the server or of another client.            *)
EchoData ==
  /\ toServer \in [Peer -> Seq(Half)] /\ toClient \in [Peer -> Seq(Half)] /\ odd \subseteq Peer
  /\ ec \in [Peer -> {"new", "key", "send", "length", "text", "done"}]
  /\ nsent \in [Peer -> 0 .. NumBlocks + 1]
  /\ result \in [Peer -> {"none", "right", "wrong", "error"}]

LEMMA ClientStep ==
  ASSUME EchoInv, NEW c \in Peer,
         UNCHANGED <<es, peer, good, nread, waiting, closed>>, EchoData', Talks(c)',
         \A d \in Peer \ {c} : /\ ec'[d] = ec[d] /\ result'[d] = result[d] /\ nsent'[d] = nsent[d]
                               /\ toServer'[d] = toServer[d] /\ toClient'[d] = toClient[d]
                               /\ d \in odd' <=> d \in odd,
         ec'[c] # "new", ec'[c] = "key" => nsent'[c] = 0, ec'[c] = "send" => nsent'[c] <= Echo!Blocks(c)
  PROVE  EchoInv'
<1>1. EchoTypes'
  BY DEF EchoInv, EchoTypes, Echo!TypeOK, EchoData
<1>2. Counters'
  BY DEF EchoInv, Counters, Conversing, Echo!Blocks
<1>3. ASSUME NEW d \in Peer, d # c
      PROVE  Talks(d)'
  <2>1. Untouched(d)
    BY <1>3 DEF Untouched, Queued, Stage, Conversing
  <2>. QED
    BY <1>3, <2>1, EchoFrame DEF EchoInv
<1>. QED
  BY <1>1, <1>2, <1>3 DEF EchoInv

(* What a client finds in the part t of its stream that it takes.          *)
Takes(c, t) == Echo!Mark(c, t) /\ toClient' = [toClient EXCEPT ![c] = Echo!After(@, t)]

Took(c, t, q, m, g) ==
  /\ Len(t) \in Nat /\ Len(t) >= 1 /\ q + Len(t) <= m
  /\ \A k \in 1 .. Len(t) : t[k] = toClient[c][k] /\ t[k] \in Half
  /\ toClient' \in [Peer -> Seq(Half)] /\ (\A d \in Peer \ {c} : toClient'[d] = toClient[d])
  /\ (q + Len(t)) + Len(toClient'[c]) = m /\ Reply(toClient'[c], q + Len(t), g)

LEMMA ClientTakes ==
  ASSUME EchoInv, NEW c \in Peer, NEW t \in Echo!Takes(toClient[c]), Takes(c, t),
         NEW q \in Nat, NEW m \in Nat, NEW g \in {0, 2}, Reply(toClient[c], q, g), q + Len(toClient[c]) = m
  PROVE  Took(c, t, q, m, g)
<1>1. toClient[c] \in Seq(Half) /\ toClient \in [Peer -> Seq(Half)]
  BY DEF EchoInv, EchoTypes
<1>2. toClient'[c] = Echo!After(toClient[c], t) /\ \A d \in Peer \ {c} : toClient'[d] = toClient[d]
  BY <1>1 DEF Takes
<1>3. /\ Len(t) \in 1 .. Len(toClient[c])
      /\ (\A k \in 1 .. Len(t) : t[k] = toClient[c][k] /\ toClient[c][k] \in Half)
      /\ toClient'[c] \in Seq(Half) /\ Len(toClient'[c]) = Len(toClient[c]) - Len(t)
      /\ Reply(toClient'[c], q + Len(t), g)
  BY <1>1, <1>2, ReplyTaken
<1>4. toClient' \in [Peer -> Seq(Half)]
  BY <1>1, <1>2, <1>3 DEF Takes
<1>5. PICK l \in Nat : l = Len(toClient[c])
  BY <1>1
<1>6. PICK n \in Nat : n = Len(t)
  BY <1>3, <1>5
<1>7. n >= 1 /\ n <= l /\ q + l = m
  BY <1>3, <1>5, <1>6
<1>8. q + n <= m /\ (q + n) + (l - n) = m
  BY <1>7
<1>. QED
  BY <1>2, <1>3, <1>4, <1>5, <1>6, <1>7, <1>8 DEF Took

LEMMA EchoStays ==
  ASSUME UNCHANGED <<es, peer, waiting>>, NEW c
  PROVE  Stage(c)' = Stage(c) /\ (Queued(c)' <=> Queued(c))
BY DEF Stage, Conversing, Queued

LEMMA ConnectEcho ==
  ASSUME EchoInv, NEW c \in Peer, Echo!Connect(c)
  PROVE  EchoInv'
<1>1. PICK p \in Nat, q \in Nat, m \in Nat, g \in {0, 2} : Talk(c, p, q, m, g)
  BY DEF EchoInv, Talks
<1>2. EchoData /\ EchoTypes /\ waiting \in Seq(Peer) /\ Counters
  BY DEF EchoInv, EchoTypes, Echo!TypeOK, EchoData
<1>3. /\ ec[c] = "new"
      /\ UNCHANGED <<es, peer, good, nread, nsent, toServer, toClient, closed, odd>>
  BY DEF Echo!Connect
<1>4. /\ Place(c, q, m) /\ Reply(toClient[c], q, g) /\ m \in {0, 2, 4, 6} /\ (m <= 4 => g = 2)
      /\ result[c] # "right" /\ (c \notin Long => Asked(c, p))
  BY <1>1, <1>3 DEF Talk
<1>5. q = 0 /\ m = 0 /\ c \notin odd /\ Stage(c) = "none" /\ toServer[c] = <<>> /\ ~Queued(c)
  BY <1>3, <1>4 DEF Place
<1>6. nsent[c] = 0
  BY <1>2, <1>3 DEF Counters
<1>7. ASSUME es = "dead", Echo!End(c, "error"), UNCHANGED waiting
      PROVE  EchoInv'
  <2>1. /\ ec'[c] = "done" /\ result'[c] = "error" /\ EchoData'
        /\ \A d \in Peer \ {c} : ec'[d] = ec[d] /\ result'[d] = result[d]
    BY <1>2, <1>3, <1>7 DEF EchoData, Echo!End
  <2>2. Place(c, q, m)' /\ (c \notin Long => Asked(c, p)')
    BY <1>3, <1>4, <1>5, <1>7, <2>1, EchoStays DEF Place, Asked
  <2>3. Talk(c, p, q, m, g)'
    BY <1>3, <1>4, <1>5, <1>7, <2>1, <2>2 DEF Talk
  <2>4. Talks(c)'
    BY <2>3 DEF Talks
  <2>. QED
    BY <1>3, <1>7, <2>1, <2>4, ClientStep
<1>8. ASSUME es # "dead", ec' = [ec EXCEPT ![c] = "key"], waiting' = Append(waiting, c), UNCHANGED result
      PROVE  EchoInv'
  <2>1. PICK n \in Nat : n = Len(waiting)
    BY <1>2
  <2>2. /\ waiting' \in Seq(Peer) /\ DOMAIN waiting' = 1 .. n + 1 /\ DOMAIN waiting = 1 .. n
        /\ (\A k \in 1 .. n : waiting'[k] = waiting[k]) /\ waiting'[n + 1] = c
    BY <1>2, <1>8, <2>1, AppendProperties
  <2>3. \A k \in 1 .. n + 1 : k \in 1 .. n \/ k = n + 1
    OBVIOUS
  <2>4. n + 1 \in 1 .. n + 1 /\ 1 .. n \subseteq 1 .. n + 1
    OBVIOUS
  <2>5. Queued(c)' /\ \A d : d # c => (Queued(d)' <=> Queued(d))
    BY <2>2, <2>3, <2>4 DEF Queued
  <2>6. \A k \in 1 .. n : waiting[k] # c
    BY <1>5, <2>2 DEF Queued
  <2>7. \A k, l \in DOMAIN waiting' : waiting'[k] = waiting'[l] => k = l
    BY <1>2, <2>2, <2>3, <2>6 DEF EchoTypes
  <2>8. ec'[c] = "key" /\ EchoData' /\ \A d \in Peer \ {c} : ec'[d] = ec[d]
    BY <1>2, <1>3, <1>8 DEF EchoData
  <2>9. EchoTypes'
    BY <1>2, <1>3, <1>8, <2>2, <2>7, <2>8 DEF EchoTypes, Echo!TypeOK, EchoData
  <2>10. Counters'
    BY <1>2, <1>3, <1>6, <2>8 DEF Counters, Conversing, Echo!Blocks
  <2>11. \A d : Stage(d)' = Stage(d)
    BY <1>3 DEF Stage, Conversing
  <2>12. ASSUME NEW d \in Peer, d # c
         PROVE  Talks(d)'
    <3>1. Untouched(d)
      BY <1>3, <1>8, <2>5, <2>8, <2>11, <2>12 DEF Untouched
    <3>. QED
      BY <3>1, EchoFrame DEF EchoInv
  <2>13. Place(c, q, m)' /\ (c \notin Long => Asked(c, p)')
    BY <1>3, <1>4, <1>5, <1>8, <2>5, <2>8, <2>11 DEF Place, Asked
  <2>14. c \notin closed
    BY <1>4, <1>5, <1>8 DEF Place
  <2>15. Talk(c, p, q, m, g)'
    BY <1>3, <1>4, <1>5, <1>8, <2>8, <2>11, <2>13, <2>14 DEF Talk, Calm
  <2>. QED
    BY <2>9, <2>10, <2>12, <2>15 DEF EchoInv, Talks
<1>. QED
  BY <1>7, <1>8 DEF Echo!Connect

(* What a client has sent, a part after the others.                        *)
LEMMA ClientWrites ==
  ASSUME EchoInv, NEW c \in Peer, NEW i \in Nat,
         toServer' = [toServer EXCEPT ![c] = @ \o Echo!Part(i)]
  PROVE  /\ toServer' \in [Peer -> Seq(Half)] /\ \A d \in Peer \ {c} : toServer'[d] = toServer[d]
         /\ \A p \in Nat : Numbered(toServer[c], p) /\ p + Len(toServer[c]) = 2 * i =>
              Numbered(toServer'[c], p) /\ p + Len(toServer'[c]) = 2 * (i + 1)
<1>1. toServer \in [Peer -> Seq(Half)] /\ toServer[c] \in Seq(Half)
  BY DEF EchoInv, EchoTypes
<1>2. toServer'[c] = toServer[c] \o List!Part(i) /\ \A d \in Peer \ {c} : toServer'[d] = toServer[d]
  BY <1>1, EchoReads
<1>3. toServer'[c] \in Seq(Half)
  BY <1>1, <1>2, WrittenAt
<1>4. toServer' \in [Peer -> Seq(Half)]
  BY <1>1, <1>3
<1>5. ASSUME NEW p \in Nat, Numbered(toServer[c], p), p + Len(toServer[c]) = 2 * i
      PROVE  Numbered(toServer'[c], p) /\ p + Len(toServer'[c]) = 2 * (i + 1)
  <2>1. /\ Numbered(toServer[c] \o List!Part(i), p)
        /\ p + Len(toServer[c] \o List!Part(i)) = 2 * (i + 1)
    BY <1>1, <1>5, PartWritten
  <2>. QED
    BY <1>2, <2>1
<1>. QED
  BY <1>2, <1>4, <1>5

LEMMA ClientKeyInv ==
  ASSUME EchoInv, NEW c \in Peer, Echo!ClientKey(c)
  PROVE  EchoInv'
<1>1. PICK p \in Nat, q \in Nat, m \in Nat, g \in {0, 2} : Talk(c, p, q, m, g)
  BY DEF EchoInv, Talks
<1>2. EchoData /\ EchoTypes /\ Counters
  BY DEF EchoInv, EchoTypes, Echo!TypeOK, EchoData
<1>3. ec[c] = "key" /\ UNCHANGED <<waiting, es, peer, good, nread, nsent, closed>>
  BY DEF Echo!ClientKey, Echo!serverVars
<1>4. /\ Place(c, q, m) /\ Reply(toClient[c], q, g) /\ m \in {0, 2, 4, 6} /\ (m <= 4 => g = 2)
      /\ result[c] # "right" /\ (c \notin Long => Asked(c, p))
  BY <1>1, <1>3 DEF Talk
<1>5. q = 0 /\ q + Len(toClient[c]) = m /\ nsent[c] = 0
  BY <1>2, <1>3, <1>4 DEF Place, Counters
<1>6. Stage(c)' = Stage(c) /\ (Queued(c)' <=> Queued(c))
  BY <1>3, EchoStays
<1>7. ASSUME NEW t \in Echo!Takes(toClient[c]), Len(t) <= 2, Echo!Mark(c, t),
             toClient' = [toClient EXCEPT ![c] = Echo!After(@, t)],
             toServer' = [toServer EXCEPT ![c] = @ \o Echo!Part(0)],
             IF Len(t) = 2 THEN ec' = [ec EXCEPT ![c] = "send"] /\ UNCHANGED result
                           ELSE Echo!End(c, "error")
      PROVE  EchoInv'
  <2>1. /\ Len(t) \in Nat /\ Len(t) >= 1 /\ q + Len(t) <= m
        /\ toClient' \in [Peer -> Seq(Half)] /\ (\A d \in Peer \ {c} : toClient'[d] = toClient[d])
        /\ (q + Len(t)) + Len(toClient'[c]) = m /\ Reply(toClient'[c], q + Len(t), g)
    <3>1. Takes(c, t) /\ Reply(toClient[c], q, g) /\ q + Len(toClient[c]) = m
      BY <1>4, <1>5, <1>7 DEF Takes
    <3>2. Took(c, t, q, m, g)
      BY <3>1, ClientTakes
    <3>. QED
      BY <3>2 DEF Took
  <2>2. PICK n \in {1, 2} : n = Len(t)
    <3>1. \A n \in Nat : n >= 1 /\ n <= 2 => n \in {1, 2}
      OBVIOUS
    <3>. QED
      BY <1>7, <2>1, <3>1, Zenon
  <2>3. /\ n + Len(toClient'[c]) = m /\ Reply(toClient'[c], n, g) /\ m # 0
    BY <1>5, <2>1, <2>2
  <2>4. 0 \in Nat /\ 0 + 0 = 2 * 0 /\ 2 * (0 + 1) = 2
    OBVIOUS
  <2>5. /\ toServer' \in [Peer -> Seq(Half)] /\ \A d \in Peer \ {c} : toServer'[d] = toServer[d]
        /\ Numbered(toServer[c], 0) /\ 0 + Len(toServer[c]) = 2 * 0 =>
             Numbered(toServer'[c], 0) /\ 0 + Len(toServer'[c]) = 2 * (0 + 1)
    BY <1>7, <2>4, ClientWrites
  <2>6. c \notin Long => p = 0 /\ Numbered(toServer'[c], 0) /\ 0 + Len(toServer'[c]) = 2
    <3>1. c \notin Long => p = 0 /\ toServer[c] = <<>> /\ Numbered(toServer[c], 0)
      BY <1>3, <1>4 DEF Asked
    <3>2. Len(<<>>) = 0
      OBVIOUS
    <3>. QED
      BY <2>4, <2>5, <3>1, <3>2
  <2>7. odd' \subseteq Peer /\ (c \in odd' <=> c \in odd \/ n # 2) /\ \A d \in Peer \ {c} : d \in odd' <=> d \in odd
    BY <1>2, <1>7, <2>2, Marked
  <2>8. /\ n = 2 => ec'[c] = "send" /\ result'[c] = result[c]
        /\ n # 2 => ec'[c] = "done" /\ result'[c] = "error"
        /\ \A d \in Peer \ {c} : ec'[d] = ec[d] /\ result'[d] = result[d]
        /\ ec' \in [Peer -> {"new", "key", "send", "length", "text", "done"}]
        /\ result' \in [Peer -> {"none", "right", "wrong", "error"}]
    BY <1>2, <1>7, <2>2 DEF EchoData, Echo!End
  <2>9. EchoData'
    BY <1>2, <1>3, <2>1, <2>5, <2>7, <2>8 DEF EchoData
  <2>10. ~Queued(c)
    BY <1>4, <2>3 DEF Place
  <2>11. Place(c, n, m)'
    <3>1. ec'[c] \in {"send", "done"} /\ (ec'[c] = "send" => n = 2)
      BY <2>2, <2>8
    <3>. QED
      BY <1>3, <1>4, <1>6, <2>3, <2>10, <3>1 DEF Place
  <2>12. c \notin Long => Asked(c, 0)'
    <3>1. 2 * (1 + nsent'[c]) = 2 /\ \A k : 0 + k = 2 => 0 + k <= 6
      BY <1>3, <1>5
    <3>2. c \notin Long => p = 0 /\ (Stage(c) = "length" => p \in {1, 2})
      BY <1>4, <2>6 DEF Asked
    <3>3. Stage(c)' # "length" \/ c \in Long
      BY <1>6, <3>2
    <3>4. ec'[c] \notin {"new", "key"}
      BY <2>2, <2>8
    <3>. QED
      BY <2>6, <3>1, <3>3, <3>4 DEF Asked
  <2>13. c \notin Long /\ c \in odd' => NoRight(c, 0, n, m, g)'
    BY <1>1, <1>3, <1>6, <2>2, <2>6, <2>7, <2>8 DEF Talk, NoRight
  <2>14. c \notin Long /\ c \notin odd' /\ es' # "dead" => Calm(c, 0, n, m, g)'
    BY <1>1, <1>3, <1>6, <2>2, <2>6, <2>7, <2>8 DEF Talk, Calm
  <2>15. Talk(c, 0, n, m, g)'
    BY <1>3, <1>4, <2>3, <2>8, <2>11, <2>12, <2>13, <2>14 DEF Talk
  <2>16. Talks(c)'
    BY <2>2, <2>4, <2>15 DEF Talks
  <2>17. ec'[c] \in {"send", "done"} /\ nsent'[c] <= Echo!Blocks(c)
    BY <1>3, <1>5, <2>8, EchoConstants DEF Echo!Blocks
  <2>. QED
    BY <1>3, <2>1, <2>5, <2>7, <2>8, <2>9, <2>16, <2>17, ClientStep
<1>8. ASSUME toClient[c] = <<>>, c \in closed, Echo!End(c, "error"), UNCHANGED <<toClient, toServer, odd>>
      PROVE  EchoInv'
  <2>1. m = 0 /\ es = "dead"
    <3>1. Len(<<>>) = 0
      OBVIOUS
    <3>2. m = 0
      BY <1>5, <1>8, <3>1
    <3>. QED
      BY <1>4, <1>8, <3>2 DEF Place
  <2>2. /\ ec'[c] = "done" /\ result'[c] = "error" /\ EchoData'
        /\ \A d \in Peer \ {c} : ec'[d] = ec[d] /\ result'[d] = result[d]
    BY <1>2, <1>3, <1>8 DEF EchoData, Echo!End
  <2>3. Place(c, q, m)' /\ (c \notin Long => Asked(c, p)')
    BY <1>3, <1>4, <1>6, <1>8, <2>1, <2>2 DEF Place, Asked
  <2>4. Talk(c, p, q, m, g)'
    BY <1>3, <1>4, <1>8, <2>1, <2>2, <2>3 DEF Talk, NoRight
  <2>5. Talks(c)'
    BY <2>4 DEF Talks
  <2>. QED
    BY <1>3, <1>8, <2>2, <2>5, ClientStep
<1>. QED
  BY <1>7, <1>8 DEF Echo!ClientKey

LEMMA ClientSendInv ==
  ASSUME EchoInv, NEW c \in Peer, Echo!ClientSend(c)
  PROVE  EchoInv'
<1>1. PICK p \in Nat, q \in Nat, m \in Nat, g \in {0, 2} : Talk(c, p, q, m, g)
  BY DEF EchoInv, Talks
<1>2. EchoData /\ EchoTypes /\ Counters
  BY DEF EchoInv, EchoTypes, Echo!TypeOK, EchoData
<1>3. ec[c] = "send" /\ UNCHANGED <<waiting, es, peer, good, nread, toClient, closed, odd>>
  BY DEF Echo!ClientSend, Echo!serverVars
<1>4. /\ Place(c, q, m) /\ Reply(toClient[c], q, g) /\ m \in {0, 2, 4, 6} /\ (m <= 4 => g = 2)
      /\ result[c] # "right" /\ (c \notin Long => Asked(c, p))
  BY <1>1, <1>3 DEF Talk
<1>5. Stage(c)' = Stage(c) /\ (Queued(c)' <=> Queued(c))
  BY <1>3, EchoStays
<1>6. PICK n \in Nat : n = nsent[c] /\ n <= Echo!Blocks(c)
  BY <1>2, <1>3, EchoConstants DEF EchoData, Counters
<1>7. Echo!Blocks(c) \in Nat /\ Echo!Blocks(c) <= NumBlocks /\ (c \notin Long => Echo!Blocks(c) = 1)
  BY EchoConstants DEF Echo!Blocks
<1>8. ~Queued(c) /\ q = 2
  BY <1>3, <1>4 DEF Place
<1>9. ASSUME toServer' = [toServer EXCEPT ![c] = Echo!writes(@, nsent[c] + 1)],
             nsent' = [nsent EXCEPT ![c] = @ + 1],
             ec' = [ec EXCEPT ![c] = IF nsent[c] = Echo!Blocks(c) THEN "length" ELSE "send"],
             UNCHANGED result
      PROVE  EchoInv'
  <2>1. PICK i \in Nat : i = n + 1
    BY <1>6
  <2>2. toServer' = [toServer EXCEPT ![c] = @ \o Echo!Part(i)]
    BY <1>6, <1>9, <2>1 DEF Echo!writes
  <2>3. /\ toServer' \in [Peer -> Seq(Half)] /\ \A d \in Peer \ {c} : toServer'[d] = toServer[d]
        /\ Numbered(toServer[c], p) /\ p + Len(toServer[c]) = 2 * i =>
             Numbered(toServer'[c], p) /\ p + Len(toServer'[c]) = 2 * (i + 1)
    BY <2>2, ClientWrites
  <2>4. /\ ec'[c] = IF n = Echo!Blocks(c) THEN "length" ELSE "send"
        /\ \A d \in Peer \ {c} : ec'[d] = ec[d] /\ nsent'[d] = nsent[d]
        /\ ec' \in [Peer -> {"new", "key", "send", "length", "text", "done"}]
        /\ nsent'[c] = i
    BY <1>2, <1>6, <1>9, <2>1 DEF EchoData
  <2>5. i \in 0 .. NumBlocks + 1
    BY <1>6, <1>7, <2>1, EchoConstants
  <2>6. nsent' \in [Peer -> 0 .. NumBlocks + 1]
    BY <1>2, <1>9, <2>4, <2>5 DEF EchoData
  <2>7. EchoData'
    BY <1>2, <1>3, <1>9, <2>3, <2>4, <2>6 DEF EchoData
  <2>8. Place(c, q, m)'
    <3>1. ec'[c] \in {"length", "send"}
      BY <2>4
    <3>. QED
      BY <1>3, <1>4, <1>5, <1>8, <3>1 DEF Place
  <2>9. c \notin Long => Asked(c, p)'
    <3>1. ASSUME c \notin Long
          PROVE  Numbered(toServer'[c], p) /\ p + Len(toServer'[c]) = 2 * (i + 1) /\ 2 * (i + 1) <= 6
      <4>1. Numbered(toServer[c], p) /\ p + Len(toServer[c]) = 2 * i
        <5>1. 2 * (1 + nsent[c]) = 2 * i
          BY <1>6, <2>1
        <5>. QED
          BY <1>3, <1>4, <3>1, <5>1 DEF Asked
      <4>2. i <= 2
        BY <1>6, <1>7, <2>1, <3>1
      <4>. QED
        BY <2>3, <4>1, <4>2
    <3>2. 2 * (1 + nsent'[c]) = 2 * (i + 1) /\ ec'[c] \notin {"new", "key"}
      BY <2>4
    <3>3. c \notin Long => (Stage(c)' = "key" => p = 0) /\ (Stage(c)' = "length" => p \in {1, 2})
      BY <1>4, <1>5 DEF Asked
    <3>4. ASSUME c \notin Long
          PROVE  p + Len(toServer'[c]) <= 6 /\ p + Len(toServer'[c]) = 2 * (1 + nsent'[c])
      BY <3>1, <3>2, <3>4
    <3>. QED
      BY <3>1, <3>2, <3>3, <3>4 DEF Asked
  <2>10. ec'[c] \notin {"new", "key", "text", "done"}
    BY <2>4
  <2>11. c \notin Long /\ c \in odd' => NoRight(c, p, q, m, g)'
    BY <1>1, <1>3, <1>5, <2>10 DEF Talk, NoRight
  <2>12. c \notin Long /\ c \notin odd' /\ es' # "dead" => Calm(c, p, q, m, g)'
    BY <1>1, <1>3, <1>5, <2>10 DEF Talk, Calm
  <2>13. Talk(c, p, q, m, g)'
    BY <1>3, <1>4, <1>9, <2>8, <2>9, <2>11, <2>12 DEF Talk
  <2>14. Talks(c)'
    BY <2>13 DEF Talks
  <2>15. ec'[c] = "send" => nsent'[c] <= Echo!Blocks(c)
    BY <1>6, <1>7, <2>1, <2>4
  <2>. QED
    BY <1>3, <1>9, <2>3, <2>4, <2>7, <2>10, <2>14, <2>15, ClientStep
<1>10. ASSUME c \in Long, Echo!End(c, "error"), UNCHANGED <<toServer, nsent>>
       PROVE  EchoInv'
  <2>1. /\ ec'[c] = "done" /\ result'[c] = "error" /\ EchoData'
        /\ \A d \in Peer \ {c} : ec'[d] = ec[d] /\ result'[d] = result[d]
    BY <1>2, <1>3, <1>10 DEF EchoData, Echo!End
  <2>2. Place(c, q, m)'
    BY <1>3, <1>4, <1>5, <1>8, <1>10, <2>1 DEF Place
  <2>3. Talk(c, p, q, m, g)'
    BY <1>3, <1>4, <1>10, <2>1, <2>2 DEF Talk
  <2>4. Talks(c)'
    BY <2>3 DEF Talks
  <2>. QED
    BY <1>3, <1>10, <2>1, <2>4, ClientStep
<1>. QED
  BY <1>9, <1>10 DEF Echo!ClientSend

LEMMA BlockAt ==
  ASSUME NEW i \in Nat, NEW t, Len(t) = 2, t[1] \in Half, t[2] \in Half,
         2 * t[1][1] + t[1][2] = 2 * i + 1, 2 * t[2][1] + t[2][2] = 2 * i + 2
  PROVE  Echo!IsBlock(t) /\ t[1][1] = i
<1>1. /\ t[1][1] \in Nat /\ t[1][2] \in {1, 2} /\ t[1] = <<t[1][1], t[1][2]>>
      /\ t[2][1] \in Nat /\ t[2][2] \in {1, 2} /\ t[2] = <<t[2][1], t[2][2]>>
  BY DEF Half
<1>2. \A a, k \in Nat, b, d \in {1, 2} :
        /\ 2 * a + b = 2 * i + 1 => a = i /\ b = 1
        /\ 2 * k + d = 2 * i + 2 => k = i /\ d = 2
  OBVIOUS
<1>3. t[1][1] = i /\ t[1][2] = 1 /\ t[2][1] = i /\ t[2][2] = 2
  BY <1>1, <1>2
<1>. QED
  BY <1>1, <1>3 DEF Echo!IsBlock

LEMMA ClientReadLengthInv ==
  ASSUME EchoInv, NEW c \in Peer, Echo!ClientReadLength(c)
  PROVE  EchoInv'
<1>1. PICK p \in Nat, q \in Nat, m \in Nat, g \in {0, 2} : Talk(c, p, q, m, g)
  BY DEF EchoInv, Talks
<1>2. EchoData /\ EchoTypes
  BY DEF EchoInv, EchoTypes, Echo!TypeOK, EchoData
<1>3. ec[c] = "length" /\ UNCHANGED <<waiting, es, peer, good, nread, nsent, toServer, closed>>
  BY DEF Echo!ClientReadLength, Echo!serverVars
<1>4. /\ Place(c, q, m) /\ Reply(toClient[c], q, g) /\ m \in {0, 2, 4, 6} /\ (m <= 4 => g = 2)
      /\ result[c] # "right" /\ (c \notin Long => Asked(c, p))
  BY <1>1, <1>3 DEF Talk
<1>5. Stage(c)' = Stage(c) /\ (Queued(c)' <=> Queued(c))
  BY <1>3, EchoStays
<1>6. q = 2 /\ 2 + Len(toClient[c]) = m
  BY <1>3, <1>4 DEF Place
<1>7. ASSUME NEW t \in Echo!Takes(toClient[c]), Echo!Mark(c, t),
             toClient' = [toClient EXCEPT ![c] = Echo!After(@, t)],
             IF Echo!IsBlock(t) THEN ec' = [ec EXCEPT ![c] = "text"] /\ UNCHANGED result
                                ELSE Echo!End(c, "error")
      PROVE  EchoInv'
  <2>1. Took(c, t, 2, m, g)
    <3>1. Takes(c, t) /\ Reply(toClient[c], 2, g) /\ 2 + Len(toClient[c]) = m /\ 2 \in Nat
      BY <1>4, <1>6, <1>7 DEF Takes
    <3>. QED
      BY <3>1, ClientTakes
  <2>2. PICK n \in Nat : n = Len(t)
    BY <2>1 DEF Took
  <2>3. PICK r \in Nat : r = 2 + n
    OBVIOUS
  <2>4. /\ n >= 1 /\ r <= m /\ toClient' \in [Peer -> Seq(Half)] /\ (\A d \in Peer \ {c} : toClient'[d] = toClient[d])
        /\ r + Len(toClient'[c]) = m /\ Reply(toClient'[c], r, g)
        /\ \A k \in 1 .. n : t[k] = toClient[c][k] /\ t[k] \in Half
    BY <2>1, <2>2, <2>3 DEF Took
  <2>5. m # 0 /\ m # 2 /\ (n # 2 => n = 1 \/ r > 4) /\ (n = 2 => r = 4) /\ (n >= 2 => r >= 4)
    BY <2>3, <2>4
  <2>6. odd' \subseteq Peer /\ (c \in odd' <=> c \in odd \/ n # 2) /\ \A d \in Peer \ {c} : d \in odd' <=> d \in odd
    BY <1>2, <1>7, <2>2, Marked
  <2>7. /\ Echo!IsBlock(t) => ec'[c] = "text" /\ result'[c] = result[c]
        /\ ~Echo!IsBlock(t) => ec'[c] = "done" /\ result'[c] = "error"
        /\ \A d \in Peer \ {c} : ec'[d] = ec[d] /\ result'[d] = result[d]
        /\ ec' \in [Peer -> {"new", "key", "send", "length", "text", "done"}]
        /\ result' \in [Peer -> {"none", "right", "wrong", "error"}]
    BY <1>2, <1>7 DEF EchoData, Echo!End
  <2>8. EchoData'
    BY <1>2, <1>3, <2>4, <2>6, <2>7 DEF EchoData
  <2>9. Echo!IsBlock(t) => n >= 2
    BY <2>2 DEF Echo!IsBlock
  <2>10. n = 2 => Echo!IsBlock(t)
    <3>. SUFFICES ASSUME n = 2 PROVE Echo!IsBlock(t)
      OBVIOUS
    <3>1. 1 \in 1 .. n /\ 2 \in 1 .. n
      OBVIOUS
    <3>2. 1 \in 1 .. Len(toClient[c]) /\ 2 \in 1 .. Len(toClient[c])
      <4>1. PICK l \in Nat : l = Len(toClient[c])
        BY <1>2 DEF EchoTypes
      <4>2. l >= 2
        BY <1>6, <2>3, <2>4, <4>1
      <4>. QED
        BY <4>1, <4>2
    <3>3. ~(2 + 1 > 4) /\ ~(2 + 2 > 4) /\ 2 + 1 = 2 * 1 + 1 /\ 2 + 2 = 2 * 1 + 2
      OBVIOUS
    <3>4. \A k \in 1 .. Len(toClient[c]) : IF g = 0 /\ 2 + k > 4 THEN toClient[c][k][1] = 0
                                           ELSE 2 * toClient[c][k][1] + toClient[c][k][2] = 2 + k
      BY <1>4, <1>6 DEF Reply
    <3>5. 2 * t[1][1] + t[1][2] = 2 * 1 + 1 /\ 2 * t[2][1] + t[2][2] = 2 * 1 + 2
      BY <2>4, <3>1, <3>2, <3>3, <3>4
    <3>6. Len(t) = 2 /\ t[1] \in Half /\ t[2] \in Half /\ 1 \in Nat
      BY <2>2, <2>4, <3>1
    <3>. QED
      BY <3>5, <3>6, BlockAt
  <2>11. ~Queued(c)
    BY <1>4, <2>5 DEF Place
  <2>12. Place(c, r, m)'
    <3>1. ec'[c] = "done" \/ (ec'[c] = "text" /\ r >= 4)
      BY <2>5, <2>7, <2>9
    <3>. QED
      BY <1>3, <1>4, <1>5, <2>4, <2>5, <2>11, <3>1 DEF Place
  <2>13. c \notin Long => Asked(c, p)'
    BY <1>3, <1>4, <1>5, <2>7 DEF Asked
  <2>14. c \notin Long /\ c \in odd' => NoRight(c, p, r, m, g)'
    <3>1. n # 2 => (ec'[c] = "text" /\ r > 4) \/ (ec'[c] = "done" /\ result'[c] # "right")
      BY <2>5, <2>7, <2>9
    <3>. QED
      BY <1>1, <1>3, <1>5, <2>6, <3>1 DEF Talk, NoRight
  <2>15. c \notin Long /\ c \notin odd' /\ es' # "dead" => Calm(c, p, r, m, g)'
    BY <1>1, <1>3, <1>5, <2>5, <2>6, <2>7, <2>10 DEF Talk, Calm
  <2>16. Talk(c, p, r, m, g)'
    BY <1>3, <1>4, <2>4, <2>7, <2>12, <2>13, <2>14, <2>15 DEF Talk
  <2>17. Talks(c)'
    BY <2>16 DEF Talks
  <2>18. ec'[c] \in {"text", "done"}
    BY <2>7
  <2>. QED
    BY <1>3, <2>4, <2>6, <2>7, <2>8, <2>17, <2>18, ClientStep
<1>8. ASSUME toClient[c] = <<>>, c \in closed, Echo!End(c, "error"), UNCHANGED <<toClient, odd>>
      PROVE  EchoInv'
  <2>1. m = 2 /\ es = "dead"
    <3>1. Len(<<>>) = 0
      OBVIOUS
    <3>2. m = 2
      BY <1>6, <1>8, <3>1
    <3>. QED
      BY <1>4, <1>8, <3>2 DEF Place
  <2>2. /\ ec'[c] = "done" /\ result'[c] = "error" /\ EchoData'
        /\ \A d \in Peer \ {c} : ec'[d] = ec[d] /\ result'[d] = result[d]
    BY <1>2, <1>3, <1>8 DEF EchoData, Echo!End
  <2>3. Place(c, q, m)' /\ (c \notin Long => Asked(c, p)')
    BY <1>3, <1>4, <1>5, <1>8, <2>1, <2>2 DEF Place, Asked
  <2>4. Talk(c, p, q, m, g)'
    BY <1>3, <1>4, <1>8, <2>1, <2>2, <2>3 DEF Talk, NoRight
  <2>5. Talks(c)'
    BY <2>4 DEF Talks
  <2>. QED
    BY <1>3, <1>8, <2>2, <2>5, ClientStep
<1>. QED
  BY <1>7, <1>8 DEF Echo!ClientReadLength

(* Only the block of the right text is taken for it, and only if it is     *)
(* taken alone, from the place where it begins.                            *)
LEMMA ClientReadTextInv ==
  ASSUME EchoInv, NEW c \in Peer, Echo!ClientReadText(c)
  PROVE  EchoInv'
<1>1. PICK p \in Nat, q \in Nat, m \in Nat, g \in {0, 2} : Talk(c, p, q, m, g)
  BY DEF EchoInv, Talks
<1>2. EchoData /\ EchoTypes
  BY DEF EchoInv, EchoTypes, Echo!TypeOK, EchoData
<1>3. ec[c] = "text" /\ UNCHANGED <<waiting, es, peer, good, nread, nsent, toServer, closed>>
  BY DEF Echo!ClientReadText, Echo!serverVars
<1>4. /\ Place(c, q, m) /\ Reply(toClient[c], q, g) /\ m \in {0, 2, 4, 6} /\ (m <= 4 => g = 2)
      /\ result[c] # "right" /\ (c \notin Long => Asked(c, p))
  BY <1>1, <1>3 DEF Talk
<1>5. Stage(c)' = Stage(c) /\ (Queued(c)' <=> Queued(c))
  BY <1>3, EchoStays
<1>6. q >= 4 /\ q + Len(toClient[c]) = m
  BY <1>3, <1>4 DEF Place
<1>7. PICK l \in Nat : l = Len(toClient[c])
  BY <1>2 DEF EchoTypes
<1>8. m >= 4 /\ ~Queued(c) /\ Stage(c) = "none"
  <2>1. m >= 4
    BY <1>6, <1>7
  <2>. QED
    BY <1>4, <2>1 DEF Place
<1>9. ASSUME NEW t \in Echo!Takes(toClient[c]), Echo!Mark(c, t),
             toClient' = [toClient EXCEPT ![c] = Echo!After(@, t)],
             NEW r, r = IF Echo!IsBlock(t) THEN IF t[1][1] = 2 THEN "right" ELSE "wrong" ELSE "error",
             Echo!End(c, r)
      PROVE  EchoInv'
  <2>1. Took(c, t, q, m, g)
    <3>1. Takes(c, t) /\ Reply(toClient[c], q, g) /\ q + Len(toClient[c]) = m
      BY <1>4, <1>6, <1>9 DEF Takes
    <3>. QED
      BY <3>1, ClientTakes
  <2>2. PICK n \in Nat : n = Len(t)
    BY <2>1 DEF Took
  <2>3. PICK x \in Nat : x = q + n
    OBVIOUS
  <2>4. /\ n >= 1 /\ x <= m /\ toClient' \in [Peer -> Seq(Half)] /\ (\A d \in Peer \ {c} : toClient'[d] = toClient[d])
        /\ x + Len(toClient'[c]) = m /\ Reply(toClient'[c], x, g)
        /\ \A k \in 1 .. n : t[k] = toClient[c][k] /\ t[k] \in Half
    BY <2>1, <2>2, <2>3 DEF Took
  <2>5. m = 6 /\ n <= l /\ l <= 2 /\ (n = 2 => q = 4) /\ c \in closed /\ c \notin Long
    <3>1. m > 4 /\ m <= 6 /\ n <= l /\ l <= 2 /\ (n = 2 => q = 4)
      BY <1>4, <1>6, <1>7, <2>3, <2>4
    <3>2. m = 6
      BY <1>4, <3>1
    <3>. QED
      BY <1>4, <3>1, <3>2 DEF Place
  <2>6. odd' \subseteq Peer /\ (c \in odd' <=> c \in odd \/ n # 2) /\ \A d \in Peer \ {c} : d \in odd' <=> d \in odd
    BY <1>2, <1>9, <2>2, Marked
  <2>7. /\ ec'[c] = "done" /\ result'[c] = r /\ r \in {"right", "wrong", "error"} /\ EchoData'
        /\ \A d \in Peer \ {c} : ec'[d] = ec[d] /\ result'[d] = result[d]
    <3>1. r \in {"right", "wrong", "error"}
      BY <1>9
    <3>. QED
      BY <1>2, <1>3, <1>9, <2>4, <2>6, <3>1 DEF EchoData, Echo!End
  <2>8. \A k \in 1 .. l : IF g = 0 /\ q + k > 4 THEN toClient[c][k][1] = 0
                          ELSE 2 * toClient[c][k][1] + toClient[c][k][2] = q + k
    BY <1>4, <1>7 DEF Reply
  <2>9. ASSUME r = "right"
        PROVE  n = 2 /\ c \notin odd
    <3>1. Echo!IsBlock(t) /\ t[1][1] = 2
      BY <1>9, <2>9
    <3>2. n = 2 /\ q = 4
      <4>1. n >= 2
        BY <2>2, <3>1 DEF Echo!IsBlock
      <4>. QED
        BY <2>5, <4>1
    <3>3. g # 0
      <4>1. 1 \in 1 .. l /\ 1 \in 1 .. n /\ 4 + 1 > 4
        BY <2>4, <2>5
      <4>. QED
        BY <2>4, <2>8, <3>1, <3>2, <4>1
    <3>4. ~NoRight(c, p, q, m, g)
      BY <1>3, <1>8, <2>5, <3>2, <3>3 DEF NoRight
    <3>. QED
      BY <1>1, <2>5, <3>2, <3>4 DEF Talk
  <2>10. ASSUME n = 2, g = 2
         PROVE  r = "right"
    <3>1. 1 \in 1 .. n /\ 2 \in 1 .. n /\ 1 \in 1 .. l /\ 2 \in 1 .. l
      BY <2>5, <2>10
    <3>2. 4 + 1 = 2 * 2 + 1 /\ 4 + 2 = 2 * 2 + 2 /\ q = 4 /\ g # 0
      BY <2>5, <2>10
    <3>3. 2 * t[1][1] + t[1][2] = 2 * 2 + 1 /\ 2 * t[2][1] + t[2][2] = 2 * 2 + 2
      BY <2>4, <2>8, <3>1, <3>2
    <3>4. Len(t) = 2 /\ t[1] \in Half /\ t[2] \in Half /\ 2 \in Nat
      BY <2>2, <2>4, <2>10, <3>1
    <3>. QED
      BY <1>9, <3>3, <3>4, BlockAt
  <2>11. Place(c, x, m)'
    BY <1>3, <1>4, <1>5, <1>8, <2>4, <2>5, <2>7 DEF Place
  <2>12. Asked(c, p)'
    BY <1>3, <1>4, <1>5, <2>5, <2>7 DEF Asked
  <2>13. c \in odd' => NoRight(c, p, x, m, g)'
    BY <2>6, <2>7, <2>9 DEF NoRight
  <2>14. c \notin odd' /\ es' # "dead" => Calm(c, p, x, m, g)'
    BY <1>1, <1>3, <1>5, <1>8, <2>5, <2>6, <2>7, <2>10 DEF Talk, Calm
  <2>15. Talk(c, p, x, m, g)'
    BY <1>3, <1>4, <2>4, <2>5, <2>6, <2>7, <2>9, <2>11, <2>12, <2>13, <2>14 DEF Talk
  <2>16. Talks(c)'
    BY <2>15 DEF Talks
  <2>. QED
    BY <1>3, <2>4, <2>6, <2>7, <2>16, ClientStep
<1>10. ASSUME toClient[c] = <<>>, c \in closed, NEW r \in {"wrong", "error"}, Echo!End(c, r),
              UNCHANGED <<toClient, odd>>
       PROVE  EchoInv'
  <2>1. m = q /\ (m = 6 \/ es = "dead")
    <3>1. Len(<<>>) = 0
      OBVIOUS
    <3>2. m = q
      BY <1>6, <1>10, <3>1
    <3>. QED
      BY <1>4, <1>10, <3>2 DEF Place
  <2>2. /\ ec'[c] = "done" /\ result'[c] = r /\ r # "right" /\ EchoData'
        /\ \A d \in Peer \ {c} : ec'[d] = ec[d] /\ result'[d] = result[d]
    BY <1>2, <1>3, <1>10 DEF EchoData, Echo!End
  <2>3. Place(c, q, m)' /\ (c \notin Long => Asked(c, p)')
    BY <1>3, <1>4, <1>5, <1>8, <1>10, <2>2 DEF Place, Asked
  <2>4. c \notin Long /\ c \notin odd /\ es # "dead" => FALSE
    BY <1>1, <1>3, <2>1 DEF Talk, Calm
  <2>5. Talk(c, p, q, m, g)'
    BY <1>3, <1>4, <1>10, <2>2, <2>3, <2>4 DEF Talk, NoRight
  <2>6. Talks(c)'
    BY <2>5 DEF Talks
  <2>. QED
    BY <1>3, <1>10, <2>2, <2>6, ClientStep
<1>. QED
  BY <1>9, <1>10 DEF Echo!ClientReadText

(* The server changes nothing of the clients it does not serve, unless it  *)
(* dies.                                                                   *)
LEMMA ServerStep ==
  ASSUME EchoInv, NEW c \in Peer, Conversing, peer = c, UNCHANGED <<ec, nsent, result, waiting, peer>>,
         closed \subseteq closed', es' # "dead" => closed' \subseteq closed \cup {c},
         \A d \in Peer \ {c} : toServer'[d] = toServer[d] /\ toClient'[d] = toClient[d] /\ (d \in odd' <=> d \in odd),
         EchoTypes', Counters', Talks(c)'
  PROVE  EchoInv'
<1>1. es # "dead"
  BY DEF Conversing
<1>2. ASSUME NEW d \in Peer, d # c
      PROVE  Talks(d)'
  <2>1. Stage(d) = "none" /\ Stage(d)' = "none" /\ (Queued(d)' <=> Queued(d))
    BY <1>2 DEF Stage, Queued
  <2>2. Untouched(d)
    BY <1>1, <1>2, <2>1 DEF Untouched
  <2>. QED
    BY <1>2, <2>2, EchoFrame DEF EchoInv
<1>. QED
  BY <1>2 DEF EchoInv

(* What the server finds in the part t of the stream that it takes.        *)
Gets(c, t) == Echo!Mark(c, t) /\ toServer' = [toServer EXCEPT ![c] = Echo!After(@, t)]

Got(c, t) ==
  /\ Len(t) \in Nat /\ Len(t) >= 1 /\ Len(t) <= Len(toServer[c])
  /\ \A k \in 1 .. Len(t) : t[k] = toServer[c][k] /\ t[k] \in Half
  /\ toServer' \in [Peer -> Seq(Half)] /\ (\A d \in Peer \ {c} : toServer'[d] = toServer[d])
  /\ odd' \subseteq Peer /\ (c \in odd' <=> c \in odd \/ Len(t) # 2) /\ (\A d \in Peer \ {c} : d \in odd' <=> d \in odd)
  /\ \A p \in Nat : Numbered(toServer[c], p) =>
       /\ 2 * t[1][1] + t[1][2] = p + 1
       /\ Numbered(toServer'[c], p + Len(t)) /\ (p + Len(t)) + Len(toServer'[c]) = p + Len(toServer[c])

LEMMA ServerTakes ==
  ASSUME EchoInv, NEW c \in Peer, NEW t \in Echo!Takes(toServer[c]), Gets(c, t)
  PROVE  Got(c, t)
<1>1. toServer[c] \in Seq(Half) /\ toServer \in [Peer -> Seq(Half)] /\ EchoTypes
  BY DEF EchoInv, EchoTypes
<1>2. toServer'[c] = List!After(toServer[c], t) /\ \A d \in Peer \ {c} : toServer'[d] = toServer[d]
  BY <1>1, EchoReads DEF Gets
<1>3. t \in List!Takes(toServer[c])
  BY EchoReads
<1>4. /\ Len(t) \in 1 .. Len(toServer[c])
      /\ \A k \in 1 .. Len(t) : t[k] = toServer[c][k] /\ toServer[c][k] \in Half
      /\ toServer'[c] \in Seq(Half) /\ Len(toServer'[c]) = Len(toServer[c]) - Len(t)
  BY <1>1, <1>2, <1>3, TakenAt
<1>5. toServer' \in [Peer -> Seq(Half)]
  BY <1>1, <1>2, <1>4 DEF Gets
<1>6. PICK l \in Nat : l = Len(toServer[c])
  BY <1>1
<1>7. PICK n \in Nat : n = Len(t)
  BY <1>4, <1>6
<1>8. n >= 1 /\ n <= l
  BY <1>4, <1>6, <1>7
<1>9. ASSUME NEW p \in Nat, Numbered(toServer[c], p)
      PROVE  /\ 2 * t[1][1] + t[1][2] = p + 1
             /\ Numbered(toServer'[c], p + Len(t)) /\ (p + Len(t)) + Len(toServer'[c]) = p + Len(toServer[c])
  <2>1. /\ t[1] = toServer[c][1] /\ 2 * toServer[c][1][1] + toServer[c][1][2] = p + 1
        /\ Numbered(List!After(toServer[c], t), p + Len(t))
    BY <1>1, <1>3, <1>9, PartTaken
  <2>2. (p + n) + (l - n) = p + l
    BY <1>8
  <2>. QED
    BY <1>2, <1>4, <1>6, <1>7, <2>1, <2>2
<1>10. odd' \subseteq Peer /\ (c \in odd' <=> c \in odd \/ Len(t) # 2) /\ (\A d \in Peer \ {c} : d \in odd' <=> d \in odd)
  BY <1>1, Marked DEF Gets
<1>. QED
  BY <1>2, <1>4, <1>5, <1>6, <1>7, <1>8, <1>9, <1>10 DEF Got

(* The conversation after a read() of the server, with the next of its     *)
(* stages: r halves have been taken then.                                  *)
LEMMA ServerReads ==
  ASSUME EchoInv, NEW c \in Peer, Conversing, peer = c, UNCHANGED <<ec, nsent, result, waiting, peer, toClient>>,
         NEW p \in Nat, NEW q \in Nat, NEW m \in Nat, NEW g \in {0, 2}, Talk(c, p, q, m, g), NEW r \in Nat,
         (UNCHANGED closed /\ es' \in {"length", "text", "answer"}) \/ es' = "dead",
         c \notin Long => /\ Numbered(toServer'[c], r) /\ r + Len(toServer'[c]) = p + Len(toServer[c])
                          /\ ec[c] \in {"new", "key"} => r = p /\ toServer'[c] = toServer[c]
                          /\ es' = "length" => r \in {1, 2}
                          /\ c \in odd' /\ es' # "dead" => NoRight(c, r, q, m, g)'
                          /\ c \notin odd' /\ es' # "dead" => Calm(c, r, q, m, g)'
  PROVE  Talks(c)'
<1>1. /\ Place(c, q, m) /\ Reply(toClient[c], q, g) /\ m \in {0, 2, 4, 6} /\ (m <= 4 => g = 2)
      /\ (result[c] = "right" => ec[c] = "done" /\ c \notin Long \cup odd) /\ (c \notin Long => Asked(c, p))
  BY DEF Talk
<1>2. Stage(c) = es /\ es # "none" /\ es # "dead"
  BY DEF Stage, Conversing
<1>3. m = 2 /\ g = 2 /\ c \notin closed /\ ~Queued(c) /\ ec[c] # "new"
  BY <1>1, <1>2 DEF Place
<1>4. ~Queued(c)' /\ Stage(c)' \in {"none", "length", "text", "answer"} /\ (Stage(c)' # "none" => Stage(c)' = es')
  BY <1>3 DEF Queued, Stage, Conversing
<1>5. Place(c, q, m)'
  BY <1>1, <1>3, <1>4 DEF Place
<1>6. c \notin Long => Asked(c, r)'
  BY <1>1, <1>4 DEF Asked
<1>7. es' = "dead" => NoRight(c, r, q, m, g)'
  BY <1>3 DEF NoRight
<1>8. result[c] # "right"
  <2>. SUFFICES ASSUME result[c] = "right" PROVE FALSE
    OBVIOUS
  <2>1. c \notin Long /\ c \notin odd /\ ec[c] = "done" /\ Calm(c, p, q, m, g)
    BY <1>1, <1>2 DEF Talk
  <2>. QED
    BY <1>3, <2>1 DEF Calm
<1>9. Talk(c, r, q, m, g)'
  BY <1>1, <1>3, <1>5, <1>6, <1>7, <1>8 DEF Talk
<1>. QED
  BY <1>9 DEF Talks

LEMMA AcceptEcho ==
  ASSUME EchoInv, Echo!AcceptAndSendKey
  PROVE  EchoInv'
<1>1. EchoTypes /\ Counters /\ waiting \in Seq(Peer) /\ EchoData
  BY DEF EchoInv, EchoTypes, Echo!TypeOK, EchoData
<1>2. /\ es = "accept" /\ waiting # <<>> /\ es' = "key" /\ good' = TRUE /\ nread' = 0
      /\ waiting' = Tail(waiting) /\ UNCHANGED <<ec, nsent, result, toServer, closed, odd>>
  BY DEF Echo!AcceptAndSendKey, Echo!clientVars
<1>3. PICK n \in Nat : n = Len(waiting)
  BY <1>1
<1>4. DOMAIN waiting = 1 .. n /\ n >= 1
  BY <1>1, <1>2, <1>3, EmptySeq
<1>5. PICK c \in Peer : c = waiting[1] /\ c = Head(waiting)
  BY <1>1, <1>2, <1>4, HeadTailProperties
<1>6. peer' = c /\ toClient' = [toClient EXCEPT ![c] = Echo!Part(0)]
  BY <1>5 DEF Echo!AcceptAndSendKey
<1>7. /\ waiting' \in Seq(Peer) /\ DOMAIN waiting' = 1 .. n - 1
      /\ \A k \in 1 .. n - 1 : waiting'[k] = waiting[k + 1] /\ k + 1 \in 1 .. n
  BY <1>1, <1>2, <1>3, <1>4, HeadTailProperties
<1>8. \A k, l \in 1 .. n : waiting[k] = waiting[l] => k = l
  BY <1>1, <1>4 DEF EchoTypes
<1>9. 1 \in 1 .. n /\ (\A k \in 1 .. n - 1 : k + 1 # 1)
      /\ \A k \in 1 .. n : k = 1 \/ (k - 1 \in 1 .. n - 1 /\ (k - 1) + 1 = k)
  BY <1>4
<1>10. Queued(c) /\ ~Queued(c)'
  BY <1>4, <1>5, <1>7, <1>8, <1>9 DEF Queued
<1>11. ASSUME NEW d, d # c
       PROVE  Queued(d)' <=> Queued(d)
  <2>1. ASSUME NEW k \in 1 .. n, waiting[k] = d
        PROVE  Queued(d)'
    <3>1. PICK l \in 1 .. n - 1 : l + 1 = k
      BY <1>5, <1>9, <1>11, <2>1
    <3>2. waiting'[l] = d
      BY <1>7, <2>1, <3>1
    <3>. QED
      BY <1>7, <3>2 DEF Queued
  <2>2. ASSUME NEW k \in 1 .. n - 1, waiting'[k] = d
        PROVE  Queued(d)
    BY <1>4, <1>7, <2>2 DEF Queued
  <2>. QED
    BY <1>4, <1>7, <2>1, <2>2 DEF Queued
<1>12. \A k, l \in DOMAIN waiting' : waiting'[k] = waiting'[l] => k = l
  <2>1. \A k, l \in 1 .. n - 1 : k + 1 = l + 1 => k = l
    OBVIOUS
  <2>. QED
    BY <1>7, <1>8, <2>1
<1>13. /\ Echo!Part(0) \in Seq(Half) /\ Len(Echo!Part(0)) = 2
       /\ Echo!Part(0)[1] = <<0, 1>> /\ Echo!Part(0)[2] = <<0, 2>>
  BY DEF Half, Echo!Part
<1>14. /\ toClient' \in [Peer -> Seq(Half)] /\ toClient'[c] = Echo!Part(0)
       /\ \A d \in Peer \ {c} : toClient'[d] = toClient[d]
  BY <1>1, <1>6, <1>13 DEF EchoTypes
<1>15. Stage(c)' = "key" /\ Stage(c) = "none" /\ \A d \in Peer \ {c} : Stage(d)' = "none" /\ Stage(d) = "none"
  BY <1>2, <1>6 DEF Stage, Conversing
<1>16. EchoTypes'
  <2>1. 0 \in 0 .. NumBlocks
    BY EchoConstants
  <2>2. nread' \in 0 .. NumBlocks /\ peer' \in Peer \cup {Echo!Nobody} /\ good' \in BOOLEAN
    BY <1>2, <1>6, <2>1
  <2>. QED
    BY <1>1, <1>2, <1>7, <1>12, <1>14, <2>2 DEF EchoTypes, Echo!TypeOK
<1>17. Counters'
  BY <1>1, <1>2, <1>6 DEF Counters, Conversing, Echo!Blocks
<1>18. ASSUME NEW d \in Peer, d # c
       PROVE  Talks(d)'
  <2>1. Untouched(d)
    BY <1>2, <1>11, <1>14, <1>15, <1>18 DEF Untouched
  <2>. QED
    BY <2>1, EchoFrame DEF EchoInv
<1>19. PICK p \in Nat, q \in Nat, m \in Nat, g \in {0, 2} : Talk(c, p, q, m, g)
  BY DEF EchoInv, Talks
<1>20. /\ Place(c, q, m) /\ m \in {0, 2, 4, 6} /\ (m <= 4 => g = 2)
       /\ (result[c] = "right" => ec[c] = "done" /\ c \notin Long \cup odd) /\ (c \notin Long => Asked(c, p))
  BY <1>19 DEF Talk
<1>21. m = 0 /\ q = 0 /\ ec[c] = "key" /\ c \notin odd /\ toServer[c] = <<>> /\ c \notin closed /\ g = 2
  <2>1. m = 0 /\ ec[c] = "key" /\ c \notin odd /\ toServer[c] = <<>>
    BY <1>2, <1>10, <1>20 DEF Place
  <2>. QED
    BY <1>2, <1>20, <2>1 DEF Place
<1>22. Place(c, 0, 2)'
  <2>1. 0 + Len(toClient'[c]) = 2
    BY <1>13, <1>14
  <2>. QED
    BY <1>2, <1>10, <1>15, <1>21, <2>1 DEF Place
<1>23. Reply(toClient[c], 0, 2)'
  <2>1. \A k \in 1 .. 2 : k = 1 \/ k = 2
    OBVIOUS
  <2>2. 2 * 0 + 1 = 0 + 1 /\ 2 * 0 + 2 = 0 + 2
    OBVIOUS
  <2>. QED
    BY <1>13, <1>14, <2>1, <2>2 DEF Reply
<1>24. c \notin Long => Asked(c, 0)'
  <2>1. c \notin Long => p = 0
    BY <1>20, <1>21 DEF Asked
  <2>. QED
    BY <1>2, <1>15, <1>20, <1>21, <2>1 DEF Asked
<1>25. Calm(c, 0, 0, 2, 2)'
  BY <1>2, <1>15, <1>21 DEF Calm
<1>26. Talk(c, 0, 0, 2, 2)'
  <2>1. result'[c] # "right" /\ c \notin odd'
    BY <1>2, <1>20, <1>21
  <2>. QED
    BY <1>22, <1>23, <1>24, <1>25, <2>1 DEF Talk
<1>. QED
  BY <1>16, <1>17, <1>18, <1>26 DEF EchoInv, Talks

(* When the server dies of a read() that brings no block, or of none.      *)
LEMMA ServerDies ==
  ASSUME EchoInv, NEW c \in Peer, Conversing, peer = c, UNCHANGED <<ec, nsent, result, waiting, peer, toClient>>,
         Echo!Die, good' \in BOOLEAN, nread' \in 0 .. NumBlocks,
         (UNCHANGED <<toServer, odd>>) \/ \E t \in Echo!Takes(toServer[c]) : Got(c, t)
  PROVE  EchoInv'
<1>1. PICK p \in Nat, q \in Nat, m \in Nat, g \in {0, 2} : Talk(c, p, q, m, g)
  BY DEF EchoInv, Talks
<1>2. EchoTypes /\ Counters /\ closed \subseteq Peer /\ es' = "dead" /\ closed' = Peer
  BY DEF EchoInv, EchoTypes, Echo!TypeOK, Echo!Die
<1>3. c \notin Long => Asked(c, p)
  BY <1>1 DEF Talk
<1>4. Counters'
  BY <1>2 DEF Counters, Conversing, Echo!Blocks
<1>5. ASSUME NEW r \in Nat, toServer' \in [Peer -> Seq(Half)], odd' \subseteq Peer,
             \A d \in Peer \ {c} : toServer'[d] = toServer[d] /\ (d \in odd' <=> d \in odd),
             c \notin Long => /\ Numbered(toServer'[c], r) /\ r + Len(toServer'[c]) = p + Len(toServer[c])
                              /\ ec[c] \in {"new", "key"} => r = p /\ toServer'[c] = toServer[c]
      PROVE  EchoInv'
  <2>1. EchoTypes'
    BY <1>2, <1>5 DEF EchoTypes, Echo!TypeOK
  <2>2. Talks(c)'
    BY <1>1, <1>2, <1>5, ServerReads
  <2>. QED
    BY <1>2, <1>4, <1>5, <2>1, <2>2, ServerStep
<1>6. CASE UNCHANGED <<toServer, odd>>
  <2>1. toServer' \in [Peer -> Seq(Half)] /\ odd' \subseteq Peer
    BY <1>2, <1>6 DEF EchoTypes, Echo!TypeOK
  <2>2. c \notin Long => Numbered(toServer'[c], p) /\ p + Len(toServer'[c]) = p + Len(toServer[c])
    BY <1>3, <1>6 DEF Asked
  <2>. QED
    BY <1>5, <1>6, <2>1, <2>2
<1>7. ASSUME NEW t \in Echo!Takes(toServer[c]), Got(c, t)
      PROVE  EchoInv'
  <2>1. PICK n \in Nat : n = Len(t)
    BY <1>7 DEF Got
  <2>2. PICK r \in Nat : r = p + n
    OBVIOUS
  <2>3. /\ toServer' \in [Peer -> Seq(Half)] /\ odd' \subseteq Peer /\ n >= 1 /\ n <= Len(toServer[c])
        /\ \A d \in Peer \ {c} : toServer'[d] = toServer[d] /\ (d \in odd' <=> d \in odd)
    BY <1>7, <2>1 DEF Got
  <2>4. c \notin Long => Numbered(toServer'[c], r) /\ r + Len(toServer'[c]) = p + Len(toServer[c])
    <3>. SUFFICES ASSUME c \notin Long
                  PROVE  Numbered(toServer'[c], r) /\ r + Len(toServer'[c]) = p + Len(toServer[c])
      OBVIOUS
    <3>1. Numbered(toServer[c], p)
      BY <1>3 DEF Asked
    <3>2. Numbered(toServer'[c], p + Len(t)) /\ (p + Len(t)) + Len(toServer'[c]) = p + Len(toServer[c])
      BY <1>7, <3>1 DEF Got
    <3>. QED
      BY <2>1, <2>2, <3>2
  <2>5. c \notin Long => ec[c] \notin {"new", "key"}
    <3>1. Len(<<>>) = 0
      OBVIOUS
    <3>2. toServer[c] # <<>>
      BY <2>3, <3>1
    <3>. QED
      BY <1>3, <3>2 DEF Asked
  <2>. QED
    BY <1>5, <2>2, <2>3, <2>4, <2>5
<1>. QED
  BY <1>6, <1>7

(* Before its second read() the server has taken the key, or half of it.   *)
LEMMA ServerKeyInv ==
  ASSUME EchoInv, Echo!ServerKey
  PROVE  EchoInv'
<1>1. EchoTypes /\ Counters /\ es = "key" /\ Conversing /\ peer \in Peer
  BY DEF EchoInv, Echo!ServerKey, Counters, Conversing
<1>2. PICK c \in Peer : c = peer
  BY <1>1
<1>3. PICK p \in Nat, q \in Nat, m \in Nat, g \in {0, 2} : Talk(c, p, q, m, g)
  BY DEF EchoInv, Talks
<1>4. UNCHANGED <<ec, nsent, result, waiting, peer, good, nread, toClient>> /\ nread = 0
  BY <1>1 DEF Echo!ServerKey, Echo!clientVars, Counters
<1>5. Stage(c) = "key" /\ c \notin closed
  <2>1. Stage(c) = "key" /\ Place(c, q, m)
    BY <1>1, <1>2, <1>3 DEF Stage, Talk
  <2>. QED
    BY <1>1, <2>1 DEF Place
<1>6. c \notin Long => Asked(c, p) /\ p = 0
  BY <1>3, <1>5 DEF Talk, Asked
<1>7. ASSUME NEW t \in Echo!Takes(toServer[c]), Len(t) <= 2, Echo!Mark(c, t),
             toServer' = [toServer EXCEPT ![c] = Echo!After(@, t)], es' = "length", UNCHANGED closed
      PROVE  EchoInv'
  <2>1. Got(c, t)
    <3>1. Gets(c, t)
      BY <1>7 DEF Gets
    <3>. QED
      BY <3>1, ServerTakes
  <2>2. PICK n \in Nat : n = Len(t)
    BY <2>1 DEF Got
  <2>3. /\ toServer' \in [Peer -> Seq(Half)] /\ n \in {1, 2} /\ n <= Len(toServer[c]) /\ odd' \subseteq Peer
        /\ (c \in odd' <=> c \in odd \/ n # 2)
        /\ \A d \in Peer \ {c} : toServer'[d] = toServer[d] /\ (d \in odd' <=> d \in odd)
    BY <1>7, <2>1, <2>2 DEF Got
  <2>4. EchoTypes' /\ Counters'
    BY <1>1, <1>2, <1>4, <1>7, <2>3 DEF EchoTypes, Echo!TypeOK, Counters, Conversing, Echo!Blocks
  <2>5. Stage(c)' = "length"
    BY <1>2, <1>4, <1>7 DEF Stage, Conversing
  <2>6. Talks(c)'
    <3>1. c \notin Long => Numbered(toServer'[c], n) /\ n + Len(toServer'[c]) = p + Len(toServer[c])
      <4>. SUFFICES ASSUME c \notin Long
                    PROVE  Numbered(toServer'[c], n) /\ n + Len(toServer'[c]) = p + Len(toServer[c])
        OBVIOUS
      <4>1. Numbered(toServer[c], 0) /\ 0 \in Nat /\ p = 0
        BY <1>6 DEF Asked
      <4>2. Numbered(toServer'[c], 0 + Len(t)) /\ (0 + Len(t)) + Len(toServer'[c]) = 0 + Len(toServer[c])
        BY <2>1, <4>1 DEF Got
      <4>3. 0 + Len(t) = n
        BY <2>2
      <4>. QED
        BY <4>1, <4>2, <4>3
    <3>2. c \notin Long => ec[c] \notin {"new", "key"}
      <4>1. Len(<<>>) = 0 /\ n # 0 /\ toServer[c] # <<>>
        <5>1. Len(<<>>) = 0
          OBVIOUS
        <5>. QED
          BY <2>3, <5>1
      <4>. QED
        BY <1>6, <4>1 DEF Asked
    <3>3. c \notin Long => /\ c \in odd' => NoRight(c, n, q, m, g)'
                           /\ c \notin odd' => Calm(c, n, q, m, g)'
      <4>. SUFFICES ASSUME c \notin Long
                    PROVE  /\ c \in odd' => NoRight(c, n, q, m, g)'
                           /\ c \notin odd' => Calm(c, n, q, m, g)'
        OBVIOUS
      <4>1. c \in odd => NoRight(c, p, q, m, g)
        BY <1>3 DEF Talk
      <4>2. c \in odd => (ec[c] = "text" /\ q > 4) \/ (ec[c] = "done" /\ result[c] # "right") \/ (m = 6 /\ g = 0)
        BY <1>1, <1>5, <4>1 DEF NoRight
      <4>3. c \in odd' => NoRight(c, n, q, m, g)'
        BY <1>4, <2>3, <2>5, <4>2 DEF NoRight
      <4>4. c \notin odd => Calm(c, p, q, m, g)
        BY <1>1, <1>3 DEF Talk
      <4>5. c \notin odd' => Calm(c, n, q, m, g)'
        BY <1>4, <1>5, <1>7, <2>3, <2>5, <4>4 DEF Calm
      <4>. QED
        BY <4>3, <4>5
    <3>. QED
      BY <1>1, <1>2, <1>3, <1>4, <1>7, <2>3, <3>1, <3>2, <3>3, ServerReads
  <2>. QED
    BY <1>1, <1>2, <1>4, <1>7, <2>3, <2>4, <2>6, ServerStep
<1>8. ASSUME Echo!Die, UNCHANGED <<toServer, odd>>
      PROVE  EchoInv'
  <2>1. good' \in BOOLEAN /\ nread' \in 0 .. NumBlocks
    BY <1>1, <1>4 DEF EchoTypes, Echo!TypeOK
  <2>. QED
    BY <1>1, <1>2, <1>4, <1>8, <2>1, ServerDies
<1>. QED
  BY <1>2, <1>7, <1>8 DEF Echo!ServerKey

(* Only a block is taken for the length of the text, and only where one    *)
(* begins: not behind half a key.                                          *)
LEMMA ServerLengthInv ==
  ASSUME EchoInv, Echo!ServerLength
  PROVE  EchoInv'
<1>1. EchoTypes /\ Counters /\ es = "length" /\ Conversing /\ peer \in Peer
  BY DEF EchoInv, Echo!ServerLength, Counters, Conversing
<1>2. PICK c \in Peer : c = peer
  BY <1>1
<1>3. PICK p \in Nat, q \in Nat, m \in Nat, g \in {0, 2} : Talk(c, p, q, m, g)
  BY DEF EchoInv, Talks
<1>4. UNCHANGED <<ec, nsent, result, waiting, peer, good, nread, toClient>> /\ nread = 0
  BY <1>1 DEF Echo!ServerLength, Echo!clientVars, Counters
<1>5. Stage(c) = "length" /\ c \notin closed
  <2>1. Stage(c) = "length" /\ Place(c, q, m)
    BY <1>1, <1>2, <1>3 DEF Stage, Talk
  <2>. QED
    BY <1>1, <2>1 DEF Place
<1>6. c \notin Long => Asked(c, p) /\ p \in {1, 2}
  BY <1>3, <1>5 DEF Talk, Asked
<1>7. good' \in BOOLEAN /\ nread' \in 0 .. NumBlocks
  BY <1>1, <1>4 DEF EchoTypes, Echo!TypeOK
<1>8. ASSUME NEW t \in Echo!Takes(toServer[c]), Echo!IsBlock(t), Echo!Mark(c, t),
             toServer' = [toServer EXCEPT ![c] = Echo!After(@, t)], es' = "text", UNCHANGED closed
      PROVE  EchoInv'
  <2>1. Got(c, t)
    <3>1. Gets(c, t)
      BY <1>8 DEF Gets
    <3>. QED
      BY <3>1, ServerTakes
  <2>2. PICK n \in Nat : n = Len(t)
    BY <2>1 DEF Got
  <2>3. /\ toServer' \in [Peer -> Seq(Half)] /\ n >= 1 /\ n <= Len(toServer[c]) /\ odd' \subseteq Peer
        /\ (c \in odd' <=> c \in odd \/ n # 2)
        /\ \A d \in Peer \ {c} : toServer'[d] = toServer[d] /\ (d \in odd' <=> d \in odd)
    BY <2>1, <2>2 DEF Got
  <2>4. EchoTypes' /\ Counters'
    <3>1. 0 < Echo!Blocks(c)
      BY EchoConstants DEF Echo!Blocks
    <3>2. EchoTypes'
      BY <1>1, <1>4, <1>8, <2>3 DEF EchoTypes, Echo!TypeOK
    <3>3. Counters'
      BY <1>1, <1>2, <1>4, <1>8, <3>1 DEF Counters, Conversing, Echo!Blocks
    <3>. QED
      BY <3>2, <3>3
  <2>5. Stage(c)' = "text"
    BY <1>2, <1>4, <1>8 DEF Stage, Conversing
  <2>6. PICK r \in Nat : r = p + n
    OBVIOUS
  <2>7. c \notin Long => /\ Numbered(toServer'[c], r) /\ r + Len(toServer'[c]) = p + Len(toServer[c]) /\ p = 2
                         /\ ec[c] \notin {"new", "key"}
    <3>. SUFFICES ASSUME c \notin Long
                  PROVE  /\ Numbered(toServer'[c], r) /\ r + Len(toServer'[c]) = p + Len(toServer[c]) /\ p = 2
                         /\ ec[c] \notin {"new", "key"}
      OBVIOUS
    <3>1. Numbered(toServer[c], p)
      BY <1>6 DEF Asked
    <3>2. /\ Numbered(toServer'[c], p + Len(t)) /\ (p + Len(t)) + Len(toServer'[c]) = p + Len(toServer[c])
          /\ 2 * t[1][1] + t[1][2] = p + 1
      BY <2>1, <3>1 DEF Got
    <3>3. p = 2
      <4>1. t[1] \in Half /\ t[1][2] = 1
        <5>1. 1 \in 1 .. n
          BY <2>3
        <5>. QED
          BY <1>8, <2>1, <2>2, <5>1 DEF Got, Echo!IsBlock
      <4>2. PICK i \in Nat : i = t[1][1]
        BY <4>1 DEF Half
      <4>3. 2 * i + 1 = p + 1
        BY <3>2, <4>1, <4>2
      <4>4. p # 1
        BY <4>3
      <4>. QED
        BY <1>6, <4>4
    <3>4. ec[c] \notin {"new", "key"}
      <4>1. Len(<<>>) = 0
        OBVIOUS
      <4>2. toServer[c] # <<>>
        BY <2>3, <4>1
      <4>. QED
        BY <1>6, <4>2 DEF Asked
    <3>. QED
      BY <2>2, <2>6, <3>2, <3>3, <3>4
  <2>8. c \notin Long => /\ c \in odd' => NoRight(c, r, q, m, g)'
                         /\ c \notin odd' => Calm(c, r, q, m, g)'
    <3>. SUFFICES ASSUME c \notin Long
                  PROVE  /\ c \in odd' => NoRight(c, r, q, m, g)'
                         /\ c \notin odd' => Calm(c, r, q, m, g)'
      OBVIOUS
    <3>1. p = 2 /\ (r = 4 <=> n = 2)
      BY <2>6, <2>7
    <3>2. c \in odd => NoRight(c, p, q, m, g)
      BY <1>3 DEF Talk
    <3>3. c \in odd => (ec[c] = "text" /\ q > 4) \/ (ec[c] = "done" /\ result[c] # "right") \/ (m = 6 /\ g = 0)
      BY <1>1, <1>5, <3>1, <3>2 DEF NoRight
    <3>4. c \in odd' => NoRight(c, r, q, m, g)'
      BY <1>4, <2>3, <2>5, <3>1, <3>3 DEF NoRight
    <3>5. c \notin odd => Calm(c, p, q, m, g)
      BY <1>1, <1>3 DEF Talk
    <3>6. c \notin odd' => Calm(c, r, q, m, g)'
      BY <1>4, <1>5, <1>8, <2>3, <2>5, <3>1, <3>5 DEF Calm
    <3>. QED
      BY <3>4, <3>6
  <2>9. Talks(c)'
    BY <1>1, <1>2, <1>3, <1>4, <1>8, <2>7, <2>8, ServerReads
  <2>. QED
    BY <1>1, <1>2, <1>4, <1>8, <2>3, <2>4, <2>9, ServerStep
<1>9. ASSUME NEW t \in Echo!Takes(toServer[c]), Echo!Mark(c, t),
             toServer' = [toServer EXCEPT ![c] = Echo!After(@, t)], Echo!Die
      PROVE  EchoInv'
  <2>1. Got(c, t)
    <3>1. Gets(c, t)
      BY <1>9 DEF Gets
    <3>. QED
      BY <3>1, ServerTakes
  <2>. QED
    BY <1>1, <1>2, <1>4, <1>7, <1>9, <2>1, ServerDies
<1>10. ASSUME Echo!Die, UNCHANGED <<toServer, odd>>
       PROVE  EchoInv'
  BY <1>1, <1>2, <1>4, <1>7, <1>10, ServerDies
<1>. QED
  BY <1>2, <1>8, <1>9, <1>10 DEF Echo!ServerLength

(* Of a short message one read() takes the text: it is right if and only   *)
(* if it begins where the text does.                                       *)
LEMMA ServerTextInv ==
  ASSUME EchoInv, Echo!ServerText
  PROVE  EchoInv'
<1>1. EchoTypes /\ Counters /\ es = "text" /\ Conversing /\ peer \in Peer
  BY DEF EchoInv, Echo!ServerText, Counters, Conversing
<1>2. PICK c \in Peer : c = peer
  BY <1>1
<1>3. PICK p \in Nat, q \in Nat, m \in Nat, g \in {0, 2} : Talk(c, p, q, m, g)
  BY DEF EchoInv, Talks
<1>4. UNCHANGED <<ec, nsent, result, waiting, peer, toClient>> /\ nread' = nread + 1
  BY DEF Echo!ServerText, Echo!clientVars
<1>5. Stage(c) = "text" /\ c \notin closed
  <2>1. Stage(c) = "text" /\ Place(c, q, m)
    BY <1>1, <1>2, <1>3 DEF Stage, Talk
  <2>. QED
    BY <1>1, <2>1 DEF Place
<1>6. c \notin Long => Asked(c, p)
  BY <1>3 DEF Talk
<1>7. nread \in Nat /\ nread + 1 <= Echo!Blocks(c) /\ nread' \in 0 .. NumBlocks
  <2>1. nread \in Nat /\ nread < Echo!Blocks(c)
    BY <1>1, <1>2 DEF EchoTypes, Echo!TypeOK, Counters
  <2>2. Echo!Blocks(c) \in Nat /\ Echo!Blocks(c) <= NumBlocks /\ NumBlocks \in Nat
    BY EchoConstants DEF Echo!Blocks
  <2>. QED
    BY <1>4, <2>1, <2>2
<1>8. c \notin Long => Echo!Blocks(c) = 1 /\ nread = 0
  BY <1>7 DEF Echo!Blocks
<1>9. ASSUME Echo!NextText, UNCHANGED closed
      PROVE  /\ es' \in {"text", "answer"} /\ Stage(c)' = es' /\ Counters'
             /\ c \notin Long => es' = "answer"
  <2>1. es' = IF nread + 1 = Echo!Blocks(c) THEN "answer" ELSE "text"
    BY <1>2, <1>9 DEF Echo!NextText
  <2>2. es' \in {"text", "answer"} /\ (es' = "text" => nread' < Echo!Blocks(c))
    <3>1. Echo!Blocks(c) \in Nat
      BY EchoConstants DEF Echo!Blocks
    <3>. QED
      BY <1>4, <1>7, <2>1, <3>1
  <2>3. Stage(c)' = es'
    BY <1>2, <1>4, <2>2 DEF Stage, Conversing
  <2>4. c \notin Long => es' = "answer"
    BY <1>8, <2>1
  <2>5. Counters'
    BY <1>1, <1>2, <1>4, <2>2 DEF Counters, Conversing, Echo!Blocks
  <2>. QED
    BY <2>2, <2>3, <2>4, <2>5
<1>10. ASSUME c \notin Long, c \in odd, p = 4 \/ good' = FALSE, es' = "answer", Stage(c)' = "answer"
       PROVE  NoRight(c, p, q, m, g)' /\ (p = 4 => \A r \in Nat : NoRight(c, r, q, m, g)')
  <2>1. NoRight(c, p, q, m, g)
    BY <1>3, <1>10 DEF Talk
  <2>2. p = 4 => (ec[c] = "text" /\ q > 4) \/ (ec[c] = "done" /\ result[c] # "right") \/ (m = 6 /\ g = 0)
    BY <1>1, <1>5, <2>1 DEF NoRight
  <2>3. p = 4 => \A r \in Nat : NoRight(c, r, q, m, g)'
    BY <1>4, <2>2 DEF NoRight
  <2>4. good' = FALSE => NoRight(c, p, q, m, g)'
    BY <1>10 DEF NoRight
  <2>. QED
    BY <1>10, <2>3, <2>4
<1>11. ASSUME NEW t \in Echo!Takes(toServer[c]), Echo!IsBlock(t), Echo!Mark(c, t),
              toServer' = [toServer EXCEPT ![c] = Echo!After(@, t)],
              good' = (good /\ Echo!IsBlock(t) /\ t[1][1] = nread + 2),
              Echo!NextText, UNCHANGED closed
       PROVE  EchoInv'
  <2>1. Got(c, t)
    <3>1. Gets(c, t)
      BY <1>11 DEF Gets
    <3>. QED
      BY <3>1, ServerTakes
  <2>2. PICK n \in Nat : n = Len(t)
    BY <2>1 DEF Got
  <2>3. /\ toServer' \in [Peer -> Seq(Half)] /\ n >= 1 /\ n <= Len(toServer[c]) /\ odd' \subseteq Peer
        /\ (c \in odd' <=> c \in odd \/ n # 2)
        /\ \A d \in Peer \ {c} : toServer'[d] = toServer[d] /\ (d \in odd' <=> d \in odd)
    BY <2>1, <2>2 DEF Got
  <2>4. es' \in {"text", "answer"} /\ Stage(c)' = es' /\ Counters' /\ (c \notin Long => es' = "answer")
    BY <1>9, <1>11
  <2>5. EchoTypes'
    <3>1. good' \in BOOLEAN
      BY <1>11, Zenon
    <3>. QED
      BY <1>1, <1>4, <1>7, <1>11, <2>3, <2>4, <3>1 DEF EchoTypes, Echo!TypeOK
  <2>6. PICK r \in Nat : r = p + n
    OBVIOUS
  <2>7. ASSUME c \notin Long
        PROVE  /\ Numbered(toServer'[c], r) /\ r + Len(toServer'[c]) = p + Len(toServer[c])
               /\ ec[c] \notin {"new", "key"} /\ (p = 4 => n = 2) /\ (p = 4 <=> t[1][1] = 2)
    <3>1. Numbered(toServer[c], p) /\ p + Len(toServer[c]) <= 6
      BY <1>6, <2>7 DEF Asked
    <3>2. /\ Numbered(toServer'[c], p + Len(t)) /\ (p + Len(t)) + Len(toServer'[c]) = p + Len(toServer[c])
          /\ 2 * t[1][1] + t[1][2] = p + 1
      BY <2>1, <3>1 DEF Got
    <3>3. t[1] \in Half /\ t[1][2] = 1 /\ n >= 2
      <4>1. 1 \in 1 .. n
        BY <2>3
      <4>. QED
        BY <1>11, <2>1, <2>2, <4>1 DEF Got, Echo!IsBlock
    <3>4. PICK i \in Nat : i = t[1][1]
      BY <3>3 DEF Half
    <3>5. p = 4 <=> i = 2
      <4>1. 2 * i + 1 = p + 1
        BY <3>2, <3>3, <3>4
      <4>. QED
        BY <4>1
    <3>6. p = 4 => n = 2
      <4>1. PICK l \in Nat : l = Len(toServer[c])
        BY <1>1 DEF EchoTypes
      <4>. QED
        BY <2>3, <3>1, <3>3, <4>1
    <3>7. ec[c] \notin {"new", "key"}
      <4>1. Len(<<>>) = 0
        OBVIOUS
      <4>2. toServer[c] # <<>>
        BY <2>3, <4>1
      <4>. QED
        BY <1>6, <2>7, <4>2 DEF Asked
    <3>. QED
      BY <2>2, <2>6, <3>2, <3>4, <3>5, <3>6, <3>7
  <2>8. ASSUME c \notin Long
        PROVE  good' <=> good /\ p = 4
    <3>1. nread + 2 = 2
      BY <1>8, <2>8
    <3>2. good' <=> good /\ t[1][1] = 2
      BY <1>11, <3>1, Zenon
    <3>. QED
      BY <2>7, <2>8, <3>2, Zenon
  <2>9. ASSUME c \notin Long, c \in odd'
        PROVE  NoRight(c, r, q, m, g)'
    <3>1. CASE p = 4
      <4>1. c \in odd
        BY <2>3, <2>7, <2>9, <3>1
      <4>. QED
        BY <1>10, <2>4, <2>9, <3>1, <4>1
    <3>2. CASE p # 4
      <4>1. ~good'
        BY <2>8, <2>9, <3>2, Zenon
      <4>. QED
        BY <2>4, <2>9, <4>1 DEF NoRight
    <3>. QED
      BY <3>1, <3>2
  <2>10. ASSUME c \notin Long, c \notin odd'
         PROVE  Calm(c, r, q, m, g)'
    <3>1. Calm(c, p, q, m, g)
      BY <1>1, <1>3, <2>3, <2>10 DEF Talk
    <3>2. good /\ p = 4
      BY <1>5, <3>1 DEF Calm
    <3>3. good'
      BY <2>8, <2>10, <3>2, Zenon
    <3>4. /\ ec'[c] = "done" => result'[c] = "right" /\ c \in closed'
          /\ ec'[c] = "text" => q = 4
          /\ m = 6 => g = 2
          /\ Stage(c)' # "length" /\ Stage(c)' # "text"
      BY <1>4, <1>11, <2>4, <2>10, <3>1 DEF Calm
    <3>. QED
      BY <3>3, <3>4, Zenon DEF Calm
  <2>11. Talks(c)'
    <3>1. UNCHANGED closed /\ es' \in {"length", "text", "answer"} /\ es' # "length"
      BY <1>11, <2>4
    <3>2. c \notin Long => /\ Numbered(toServer'[c], r) /\ r + Len(toServer'[c]) = p + Len(toServer[c])
                           /\ ec[c] \notin {"new", "key"}
                           /\ c \in odd' => NoRight(c, r, q, m, g)'
                           /\ c \notin odd' => Calm(c, r, q, m, g)'
      BY <2>7, <2>9, <2>10
    <3>. QED
      BY <1>1, <1>2, <1>3, <1>4, <3>1, <3>2, ServerReads
  <2>12. closed \subseteq closed' /\ closed' \subseteq closed \cup {c}
    BY <1>11
  <2>. QED
    BY <1>1, <1>2, <1>4, <2>3, <2>4, <2>5, <2>11, <2>12, ServerStep
<1>12. ASSUME NEW t \in Echo!Takes(toServer[c]), Echo!Mark(c, t),
              toServer' = [toServer EXCEPT ![c] = Echo!After(@, t)],
              good' = (good /\ Echo!IsBlock(t) /\ t[1][1] = nread + 2), Echo!Die
       PROVE  EchoInv'
  <2>1. Got(c, t)
    <3>1. Gets(c, t)
      BY <1>12 DEF Gets
    <3>. QED
      BY <3>1, ServerTakes
  <2>2. good' \in BOOLEAN
    BY <1>12, Zenon
  <2>. QED
    BY <1>1, <1>2, <1>4, <1>7, <1>12, <2>1, <2>2, ServerDies
<1>13. ASSUME Echo!Hang(c), UNCHANGED <<toServer, odd>>, good' = FALSE, Echo!Die \/ (Echo!NextText /\ UNCHANGED closed)
       PROVE  EchoInv'
  <2>1. CASE Echo!Die
    BY <1>1, <1>2, <1>4, <1>7, <1>13, <2>1, ServerDies
  <2>2. CASE Echo!NextText /\ UNCHANGED closed
    <3>1. es' \in {"text", "answer"} /\ Stage(c)' = es' /\ Counters' /\ (c \notin Long => es' = "answer")
      BY <1>9, <2>2
    <3>2. EchoTypes'
      BY <1>1, <1>4, <1>7, <1>13, <2>2, <3>1 DEF EchoTypes, Echo!TypeOK
    <3>3. c \notin Long => c \in odd
      <4>. SUFFICES ASSUME c \notin Long, c \notin odd PROVE FALSE
        OBVIOUS
      <4>1. Calm(c, p, q, m, g)
        BY <1>1, <1>3 DEF Talk
      <4>. QED
        BY <1>5, <1>13, <4>1 DEF Calm, Echo!Hang
    <3>4. c \notin Long => NoRight(c, p, q, m, g)'
      BY <1>10, <1>13, <3>1, <3>3
    <3>5. c \notin Long => Numbered(toServer'[c], p) /\ p + Len(toServer'[c]) = p + Len(toServer[c])
      BY <1>6, <1>13 DEF Asked
    <3>6. Talks(c)'
      BY <1>1, <1>2, <1>3, <1>4, <1>13, <2>2, <3>1, <3>3, <3>4, <3>5, ServerReads
    <3>. QED
      BY <1>1, <1>2, <1>4, <1>13, <2>2, <3>1, <3>2, <3>6, ServerStep
  <2>. QED
    BY <1>13, <2>1, <2>2
<1>. QED
  BY <1>2, <1>11, <1>12, <1>13 DEF Echo!ServerText

(* The answer: the length and the text, and the end of the connection; or  *)
(* the length, and the end of the server.                                  *)
LEMMA ServerAnswerInv ==
  ASSUME EchoInv, Echo!ServerAnswer
  PROVE  EchoInv'
<1>1. EchoTypes /\ Counters /\ es = "answer" /\ Conversing /\ peer \in Peer /\ closed \subseteq Peer
  BY DEF EchoInv, EchoTypes, Echo!TypeOK, Echo!ServerAnswer, Counters, Conversing
<1>2. PICK c \in Peer : c = peer
  BY <1>1
<1>3. PICK p \in Nat, q \in Nat, m \in Nat, g \in {0, 2} : Talk(c, p, q, m, g)
  BY DEF EchoInv, Talks
<1>4. UNCHANGED <<ec, nsent, result, waiting, peer, good, nread, toServer, odd>>
  BY DEF Echo!ServerAnswer, Echo!clientVars
<1>5. Stage(c) = "answer" /\ Place(c, q, m) /\ c \notin closed
  <2>1. Stage(c) = "answer" /\ Place(c, q, m)
    BY <1>1, <1>2, <1>3 DEF Stage, Talk
  <2>. QED
    BY <1>1, <2>1 DEF Place
<1>6. /\ m = 2 /\ g = 2 /\ ~Queued(c) /\ ec[c] # "new" /\ q + Len(toClient[c]) = 2 /\ Reply(toClient[c], q, 2)
      /\ (result[c] = "right" => ec[c] = "done" /\ c \notin Long \cup odd) /\ (c \notin Long => Asked(c, p))
  BY <1>3, <1>5 DEF Talk, Place
<1>7. toClient \in [Peer -> Seq(Half)] /\ toClient[c] \in Seq(Half)
  BY <1>1 DEF EchoTypes
<1>8. PICK l \in Nat : l = Len(toClient[c])
  BY <1>7
<1>9. q + l = 2
  BY <1>6, <1>8
<1>10. ~Queued(c)'
  BY <1>4, <1>6 DEF Queued
<1>11. result[c] # "right"
  <2>. SUFFICES ASSUME result[c] = "right" PROVE FALSE
    OBVIOUS
  <2>1. c \notin Long /\ c \notin odd /\ es # "dead" /\ ec[c] = "done"
    BY <1>1, <1>6
  <2>2. Calm(c, p, q, m, g)
    BY <1>3, <2>1 DEF Talk
  <2>. QED
    BY <1>5, <2>1, <2>2 DEF Calm
<1>12. PICK s \in Seq(Half) : /\ s = Echo!writes(toClient[c], 1) /\ Len(s) = l + 2
                              /\ (\A k \in 1 .. l : s[k] = toClient[c][k]) /\ s[l + 1] = <<1, 1>> /\ s[l + 2] = <<1, 2>>
  <2>1. Echo!writes(toClient[c], 1) = toClient[c] \o List!Part(1) /\ 1 \in Nat
    BY EchoReads DEF Echo!writes
  <2>2. /\ toClient[c] \o List!Part(1) \in Seq(Half) /\ Len(toClient[c] \o List!Part(1)) = l + 2
        /\ \A k \in 1 .. l : (toClient[c] \o List!Part(1))[k] = toClient[c][k]
        /\ (toClient[c] \o List!Part(1))[l + 1] = <<1, 1>>
        /\ (toClient[c] \o List!Part(1))[l + 2] = <<1, 2>>
    BY <1>7, <1>8, <2>1, WrittenAt
  <2>. QED
    BY <2>1, <2>2
<1>13. \A k \in 1 .. l + 2 : q + k <= 4 /\ 2 * s[k][1] + s[k][2] = q + k
  <2>1. \A k \in 1 .. l : 2 * s[k][1] + s[k][2] = q + k
    <3>1. \A k \in 1 .. l : 2 * toClient[c][k][1] + toClient[c][k][2] = q + k
      BY <1>6, <1>8 DEF Reply
    <3>2. \A k \in 1 .. l : s[k] = toClient[c][k]
      BY <1>12
    <3>. QED
      BY <3>1, <3>2
  <2>2. 2 * 1 + 1 = q + (l + 1) /\ 2 * 1 + 2 = q + (l + 2)
    BY <1>9
  <2>3. 2 * s[l + 1][1] + s[l + 1][2] = q + (l + 1) /\ 2 * s[l + 2][1] + s[l + 2][2] = q + (l + 2)
    <3>1. s[l + 1][1] = 1 /\ s[l + 1][2] = 1 /\ s[l + 2][1] = 1 /\ s[l + 2][2] = 2
      BY <1>12
    <3>. QED
      BY <2>2, <3>1
  <2>4. \A k \in 1 .. l + 2 : k \in 1 .. l \/ k = l + 1 \/ k = l + 2
    OBVIOUS
  <2>5. \A k \in 1 .. l + 2 : q + k <= 4
    BY <1>9
  <2>. QED
    BY <2>1, <2>3, <2>4, <2>5
<1>14. ASSUME NEW d \in {0, 2}, NEW u \in Seq(Half),
              c \notin Long, d = (IF good THEN 2 ELSE 0), u = Echo!writes(s, d),
              toClient' = [toClient EXCEPT ![c] = u], es' = "accept", closed' = closed \cup {c}
       PROVE  EchoInv'
  <2>1. /\ Len(u) = l + 4 /\ (\A k \in 1 .. l + 2 : u[k] = s[k]) /\ u[l + 3] = <<d, 1>> /\ u[l + 4] = <<d, 2>>
    <3>1. u = s \o List!Part(d) /\ d \in Nat
      BY <1>14, EchoReads DEF Echo!writes
    <3>2. (l + 2) + 2 = l + 4 /\ (l + 2) + 1 = l + 3
      OBVIOUS
    <3>3. /\ Len(s \o List!Part(d)) = Len(s) + 2 /\ (\A k \in 1 .. Len(s) : (s \o List!Part(d))[k] = s[k])
          /\ (s \o List!Part(d))[Len(s) + 1] = <<d, 1>> /\ (s \o List!Part(d))[Len(s) + 2] = <<d, 2>>
      BY <3>1, WrittenAt
    <3>4. /\ Len(u) = Len(s) + 2 /\ (\A k \in 1 .. Len(s) : u[k] = s[k])
          /\ u[Len(s) + 1] = <<d, 1>> /\ u[Len(s) + 2] = <<d, 2>>
      BY <3>1, <3>3
    <3>. QED
      BY <1>12, <3>2, <3>4
  <2>2. toClient'[c] = u /\ toClient' \in [Peer -> Seq(Half)] /\ \A e \in Peer \ {c} : toClient'[e] = toClient[e]
    BY <1>7, <1>14
  <2>3. q + Len(u) = 6
    BY <1>9, <2>1
  <2>4. Reply(u, q, d)
    <3>1. \A k \in 1 .. l + 4 : k \in 1 .. l + 2 \/ k = l + 3 \/ k = l + 4
      OBVIOUS
    <3>2. ASSUME NEW k \in 1 .. l + 2
          PROVE  ~(q + k > 4) /\ 2 * u[k][1] + u[k][2] = q + k
      <4>1. u[k] = s[k] /\ q + k <= 4 /\ 2 * s[k][1] + s[k][2] = q + k
        BY <1>13, <2>1
      <4>2. ~(q + k > 4)
        BY <4>1
      <4>. QED
        BY <4>1, <4>2
    <3>3. q + (l + 3) = 5 /\ q + (l + 4) = 6
      BY <1>9
    <3>4. u[l + 3][1] = d /\ u[l + 3][2] = 1 /\ u[l + 4][1] = d /\ u[l + 4][2] = 2
      BY <2>1
    <3>5. d = 2 => 2 * u[l + 3][1] + u[l + 3][2] = 5 /\ 2 * u[l + 4][1] + u[l + 4][2] = 6
      BY <3>4
    <3>6. \A k \in {l + 3, l + 4} : IF d = 0 /\ q + k > 4 THEN u[k][1] = 0 ELSE 2 * u[k][1] + u[k][2] = q + k
      <4>1. d = 0 => u[l + 3][1] = 0 /\ u[l + 4][1] = 0 /\ q + (l + 3) > 4 /\ q + (l + 4) > 4
        BY <3>3, <3>4
      <4>2. d = 2 => d # 0 /\ 2 * u[l + 3][1] + u[l + 3][2] = q + (l + 3)
                           /\ 2 * u[l + 4][1] + u[l + 4][2] = q + (l + 4)
        BY <3>3, <3>5
      <4>. QED
        BY <4>1, <4>2
    <3>7. \A k \in 1 .. l + 4 : IF d = 0 /\ q + k > 4 THEN u[k][1] = 0 ELSE 2 * u[k][1] + u[k][2] = q + k
      BY <3>1, <3>2, <3>6
    <3>. QED
      BY <2>1, <3>7 DEF Reply
  <2>5. Stage(c)' = "none"
    BY <1>14 DEF Stage, Conversing
  <2>6. EchoTypes' /\ Counters'
    BY <1>1, <1>2, <1>4, <1>14, <2>2 DEF EchoTypes, Echo!TypeOK, Counters, Conversing, Echo!Blocks
  <2>7. Place(c, q, 6)'
    BY <1>4, <1>5, <1>6, <1>10, <1>14, <2>2, <2>3, <2>5 DEF Place
  <2>8. Asked(c, p)'
    BY <1>4, <1>6, <1>14, <2>5 DEF Asked
  <2>9. ASSUME c \in odd
        PROVE  NoRight(c, p, q, 6, d)'
    <3>1. NoRight(c, p, q, m, g)
      BY <1>3, <1>14, <2>9 DEF Talk
    <3>2. (ec[c] = "text" /\ q > 4) \/ (ec[c] = "done" /\ result[c] # "right") \/ d = 0
      BY <1>1, <1>5, <1>6, <1>14, <3>1 DEF NoRight
    <3>. QED
      BY <1>4, <3>2 DEF NoRight
  <2>10. ASSUME c \notin odd
         PROVE  Calm(c, p, q, 6, d)'
    <3>1. Calm(c, p, q, m, g)
      BY <1>1, <1>3, <1>14, <2>10 DEF Talk
    <3>2. d = 2
      BY <1>5, <1>14, <3>1 DEF Calm
    <3>. QED
      BY <1>4, <1>5, <1>14, <2>5, <3>1, <3>2 DEF Calm
  <2>11. Talk(c, p, q, 6, d)'
    BY <1>4, <1>11, <1>14, <2>2, <2>4, <2>7, <2>8, <2>9, <2>10 DEF Talk
  <2>12. Talks(c)'
    <3>1. 6 \in Nat
      OBVIOUS
    <3>. QED
      BY <2>11, <3>1 DEF Talks
  <2>. QED
    BY <1>1, <1>2, <1>4, <1>14, <2>2, <2>6, <2>12, ServerStep
<1>15. ASSUME toClient' = [toClient EXCEPT ![c] = s], Echo!Die
       PROVE  EchoInv'
  <2>1. toClient'[c] = s /\ toClient' \in [Peer -> Seq(Half)] /\ \A e \in Peer \ {c} : toClient'[e] = toClient[e]
    BY <1>7, <1>15
  <2>2. q + Len(s) = 4
    BY <1>9, <1>12
  <2>3. Reply(s, q, 2)
    <3>1. \A k \in 1 .. l + 2 : ~(2 = 0 /\ q + k > 4)
      OBVIOUS
    <3>. QED
      BY <1>12, <1>13, <3>1 DEF Reply
  <2>4. es' = "dead" /\ closed' = Peer /\ Stage(c)' = "none"
    BY <1>15 DEF Echo!Die, Stage, Conversing
  <2>5. EchoTypes' /\ Counters'
    BY <1>1, <1>2, <1>4, <2>1, <2>4 DEF EchoTypes, Echo!TypeOK, Counters, Conversing, Echo!Blocks
  <2>6. Place(c, q, 4)'
    BY <1>4, <1>5, <1>6, <1>10, <2>1, <2>2, <2>4 DEF Place
  <2>7. c \notin Long => Asked(c, p)'
    BY <1>4, <1>6, <2>4 DEF Asked
  <2>8. NoRight(c, p, q, 4, 2)'
    BY <2>4 DEF NoRight
  <2>9. Talk(c, p, q, 4, 2)'
    BY <1>4, <1>11, <2>1, <2>3, <2>4, <2>6, <2>7, <2>8 DEF Talk
  <2>10. Talks(c)'
    <3>1. 4 \in Nat
      OBVIOUS
    <3>. QED
      BY <2>9, <3>1 DEF Talks
  <2>. QED
    BY <1>1, <1>2, <1>4, <2>1, <2>4, <2>5, <2>10, ServerStep
<1>16. PICK d \in {0, 2} : d = IF good THEN 2 ELSE 0
  OBVIOUS
<1>17. PICK u \in Seq(Half) : u = Echo!writes(s, d)
  <2>1. d \in Nat /\ Echo!writes(s, d) = s \o List!Part(d)
    BY EchoReads DEF Echo!writes
  <2>. QED
    BY <2>1, WrittenAt
<1>18. \/ /\ c \notin Long /\ toClient' = [toClient EXCEPT ![c] = u]
          /\ es' = "accept" /\ closed' = closed \cup {c}
       \/ toClient' = [toClient EXCEPT ![c] = s] /\ Echo!Die
  BY <1>2, <1>12, <1>16, <1>17 DEF Echo!ServerAnswer
<1>. QED
  BY <1>14, <1>15, <1>16, <1>17, <1>18

LEMMA EchoNext ==
  ASSUME EchoInv, [Echo!Next]_echoVars
  PROVE  EchoInv'
<1>1. CASE UNCHANGED echoVars
  <2>1. UNCHANGED <<waiting, es, peer, good, nread, ec, nsent, toServer, toClient, closed, result, odd>>
    BY <1>1 DEF echoVars
  <2>2. EchoTypes' /\ Counters'
    BY <2>1 DEF EchoInv, EchoTypes, Echo!TypeOK, Counters, Conversing, Echo!Blocks
  <2>3. ASSUME NEW c \in Peer
        PROVE  Talks(c)'
    <3>1. Untouched(c)
      BY <2>1 DEF Untouched, Queued, Stage, Conversing
    <3>. QED
      BY <3>1, EchoFrame DEF EchoInv
  <2>. QED
    BY <2>2, <2>3 DEF EchoInv
<1>2. CASE Echo!Server
  BY <1>2, AcceptEcho, ServerKeyInv, ServerLengthInv, ServerTextInv, ServerAnswerInv DEF Echo!Server
<1>3. ASSUME NEW c \in Peer, Echo!Connect(c) \/ Echo!Client(c)
      PROVE  EchoInv'
  BY <1>3, ConnectEcho, ClientKeyInv, ClientSendInv, ClientReadLengthInv, ClientReadTextInv DEF Echo!Client
<1>. QED
  BY <1>1, <1>2, <1>3 DEF Echo!Next

LEMMA EchoGood ==
  ASSUME EchoInv
  PROVE  Echo!EchoRight
<1>1. Echo!TypeOK
  BY DEF EchoInv, EchoTypes
<1>2. ASSUME NEW c \in Peer, ec[c] = "done"
      PROVE  IF result[c] = "right" THEN c \notin Long \cup odd ELSE c \in Long \cup odd \/ es = "dead"
  <2>1. PICK p \in Nat, q \in Nat, m \in Nat, g \in {0, 2} : Talk(c, p, q, m, g)
    BY DEF EchoInv, Talks
  <2>2. result[c] = "right" => c \notin Long \cup odd
    BY <2>1 DEF Talk
  <2>3. c \notin Long /\ c \notin odd /\ es # "dead" => Calm(c, p, q, m, g)
    BY <2>1 DEF Talk
  <2>4. c \notin Long /\ c \notin odd /\ es # "dead" => result[c] = "right"
    BY <1>2, <2>3 DEF Calm
  <2>. QED
    BY <2>2, <2>4
<1>. QED
  BY <1>1, <1>2 DEF Echo!EchoRight

-----------------------------------------------------------------------------
(***************************************************************************)
(* The file shadow of lab06.  The name of a user who is not spoilt stands  *)
(* once in it, at the beginning of a line and before the password set      *)
(* last.  A tool that is to write has found a place no such line begins    *)
(* just before, nor behind it as far as a record reaches, if there was a   *)
(* password; and at the end of the file only for a user without a record.  *)
(***************************************************************************)
LEMMA PassConstants ==
  /\ \A n \in Name : <<n, n>> \in Begins
  /\ None \notin Name \cup Password \cup {""} /\ "" \notin Password
  /\ Pass!ShadowFile(FirstShadow)
BY LabsAssumption DEF Pass!ConstantsOK

Token == Pass!NameTokens \cup Pass!PwTokens \cup {Pass!Rest}

LEMMA Tokens ==
  /\ \A n, u \in Name : Pass!NameToken(n) = Pass!NameToken(u) => n = u
  /\ \A n \in Name : Pass!NameToken(n) \in Pass!NameTokens /\ Pass!NameToken(n) \in Token
  /\ \A x \in Pass!NameTokens : x \notin Pass!PwTokens /\ x # Pass!Rest /\ \E n \in Name : x = Pass!NameToken(n)
  /\ \A x \in Pass!PwTokens : x # Pass!Rest /\ x[2] \in Password
  /\ \A p \in Password : Pass!PwToken(p) \in Pass!PwTokens /\ Pass!PwToken(p)[2] = p /\ Pass!PwToken(p) \in Token
  /\ Pass!Rest \in Token
<1>1. \A n, u \in Name : Pass!NameToken(n) = Pass!NameToken(u) => n = u
  BY DEF Pass!NameToken
<1>2. \A x \in Pass!NameTokens : \E n \in Name : x = Pass!NameToken(n)
  BY DEF Pass!NameTokens
<1>3. \A x \in Pass!PwTokens : \E p \in Password : x = Pass!PwToken(p)
  BY DEF Pass!PwTokens
<1>4. /\ \A n : Pass!NameToken(n)[1] = "name"
      /\ \A p : Pass!PwToken(p)[1] = "pw" /\ Pass!PwToken(p)[2] = p
      /\ Pass!Rest[1] = "rest"
  BY DEF Pass!NameToken, Pass!PwToken, Pass!Rest
<1>5. \A x \in Pass!NameTokens : x \notin Pass!PwTokens /\ x # Pass!Rest
  BY <1>2, <1>3, <1>4
<1>6. \A x \in Pass!PwTokens : x # Pass!Rest /\ x[2] \in Password
  BY <1>3, <1>4
<1>7. \A n \in Name : Pass!NameToken(n) \in Pass!NameTokens /\ Pass!NameToken(n) \in Token
  BY DEF Token, Pass!NameTokens
<1>8. \A p \in Password : Pass!PwToken(p) \in Pass!PwTokens
  BY DEF Pass!PwTokens
<1>9. Pass!Rest \in Token
  BY DEF Token
<1>. QED
  BY <1>1, <1>2, <1>4, <1>5, <1>6, <1>7, <1>8, <1>9 DEF Token

LEMMA DomainOf ==
  ASSUME NEW s \in Seq(Token), NEW l \in Nat, l = Len(s)
  PROVE  DOMAIN s = 1 .. l
OBVIOUS

LEMMA LeastNat ==
  ASSUME NEW S \in SUBSET Nat, S # {}
  PROVE  Pass!Min(S) \in S /\ \A y \in S : Pass!Min(S) <= y
<1>1. \E x \in S : \A y \in S : ~(<<y, x>> \in OpToRel(<, Nat))
  BY NatLessThanWellFounded, WFMin
<1>2. \A x, y \in S : y < x => <<y, x>> \in OpToRel(<, Nat)
  BY DEF OpToRel
<1>3. PICK x \in S : \A y \in S : ~(<<y, x>> \in OpToRel(<, Nat))
  BY <1>1
<1>4. \A y \in S : ~(y < x)
  BY <1>2, <1>3
<1>5. \E z \in S : \A y \in S : z <= y
  BY <1>4
<1>. QED
  BY <1>5 DEF Pass!Min

ToolRecord == [pc : {"idle", "typing", "done"}, user : Name \cup {None}, start : Nat, saved : BOOLEAN]

LEMMA ToolRecordOf ==
  ASSUME NEW x, NEW a \in {"idle", "typing", "done"}, NEW n \in Name \cup {None}, NEW b \in Nat,
         NEW v \in BOOLEAN, x = [pc |-> a, user |-> n, start |-> b, saved |-> v]
  PROVE  x \in ToolRecord /\ x.pc = a /\ x.user = n /\ x.start = b /\ x.saved = v
BY DEF ToolRecord

NoRecord(n) == \A i \in DOMAIN shadow : shadow[i] # Pass!NameToken(n)

PassTypes ==
  /\ shadow \in Seq(Token) /\ shadow # <<>> /\ shadow[Len(shadow)] = Pass!Rest
  /\ tool \in [Tool -> ToolRecord]
  /\ \A k \in Tool : /\ tool[k].start <= Len(shadow) + 1
                     /\ tool[k].pc = "typing" => tool[k].user \in Name /\ tool[k].start >= 1
  /\ cur \in [Name -> Password \cup {"", None}] /\ spoilt \subseteq Name

(* The record of n at i, and that it is the only one and up to date.       *)
StandsAt(n, i) == i \in DOMAIN shadow /\ shadow[i] = Pass!NameToken(n)
Kept(n) ==
  /\ \A i : StandsAt(n, i) => i \in Pass!LineStarts /\ Pass!PwAt(i) = cur[n] /\ cur[n] # None
  /\ \A i, j : StandsAt(n, i) /\ StandsAt(n, j) => i = j
  /\ NoRecord(n) => cur[n] = None

(* What holds of a place a where a tool is to write for the user u; v says *)
(* whether there was a password.                                           *)
ClearOf(n, a, v) ==
  \A i : StandsAt(n, i) => i + 1 # a /\ (v => i # a + 1 /\ i # a + 2)
Placed(u, a, v) ==
  /\ \A n \in Name \ spoilt : ClearOf(n, a, v)
  /\ v => a + 2 <= Len(shadow)
  /\ a = Len(shadow) + 1 /\ u \notin spoilt => NoRecord(u)

PassKept ==
  /\ \A n \in Name \ spoilt : Kept(n)
  /\ \A k \in Tool : tool[k].pc = "typing" => Placed(tool[k].user, tool[k].start, tool[k].saved)

PassInv == PassTypes /\ PassKept

(* A name of the first file stands at the beginning of a line and before   *)
(* its password.                                                           *)
LEMMA LineOf ==
  ASSUME Pass!ShadowFile(shadow), NEW i \in DOMAIN shadow, NEW n \in Name, shadow[i] = Pass!NameToken(n)
  PROVE  /\ i \in Pass!LineStarts /\ i + 1 \in DOMAIN shadow /\ Pass!PwAt(i) \in Password \cup {""}
         /\ Pass!Entries(n) = {Pass!PwAt(i)}
<1>1. PICK l \in Nat : l = Len(shadow)
  BY DEF Pass!ShadowFile
<1>2. DOMAIN shadow = 1 .. l /\ i \in 1 .. l
  BY <1>1 DEF Pass!ShadowFile
<1>3. i # l
  BY <1>1, Tokens DEF Pass!ShadowFile
<1>4. i \in 1 .. l - 1 /\ i + 1 \in 1 .. l
  BY <1>2, <1>3
<1>5. shadow[i + 1] \in Pass!PwTokens \cup {Pass!Rest}
  BY <1>1, <1>4, Tokens DEF Pass!ShadowFile
<1>6. Pass!PwAt(i) \in Password \cup {""}
  BY <1>5, Tokens DEF Pass!PwAt
<1>7. i \in Pass!LineStarts
  <2>1. CASE i = 1
    BY <2>1 DEF Pass!LineStarts
  <2>2. CASE i # 1
    <3>1. i - 1 \in 1 .. l - 1 /\ (i - 1) + 1 = i
      BY <1>2, <2>2
    <3>2. shadow[i - 1] = Pass!Rest
      BY <1>1, <3>1, Tokens DEF Pass!ShadowFile
    <3>. QED
      BY <3>2 DEF Pass!LineStarts
  <2>. QED
    BY <2>1, <2>2
<1>8. \A j \in DOMAIN shadow : shadow[j] = Pass!NameToken(n) => j = i
  BY Tokens DEF Pass!ShadowFile
<1>. QED
  BY <1>2, <1>4, <1>6, <1>7, <1>8 DEF Pass!Entries, Pass!LineStarts

LEMMA PassInit ==
  ASSUME Pass!Init
  PROVE  PassInv
<1>1. Pass!ShadowFile(shadow) /\ shadow = FirstShadow /\ spoilt = {}
  BY PassConstants DEF Pass!Init
<1>2. /\ tool = [k \in Tool |-> Pass!Idle]
      /\ cur = [n \in Name |-> IF Pass!Entries(n) = {} THEN None ELSE CHOOSE p \in Pass!Entries(n) : TRUE]
  BY DEF Pass!Init
<1>3. shadow \in Seq(Token) /\ shadow # <<>> /\ shadow[Len(shadow)] = Pass!Rest /\ Len(shadow) \in Nat
  BY <1>1 DEF Pass!ShadowFile, Token
<1>4. \A k \in Tool : tool[k] = [pc |-> "idle", user |-> None, start |-> 0, saved |-> FALSE]
  BY <1>2 DEF Pass!Idle
<1>5. tool \in [Tool -> ToolRecord]
  <2>1. Pass!Idle \in ToolRecord
    BY DEF Pass!Idle, ToolRecord
  <2>. QED
    BY <1>2, <2>1
<1>6. \A i \in DOMAIN shadow, n \in Name : shadow[i] = Pass!NameToken(n) => cur[n] = Pass!PwAt(i)
  <2>. SUFFICES ASSUME NEW i \in DOMAIN shadow, NEW n \in Name, shadow[i] = Pass!NameToken(n)
                PROVE  cur[n] = Pass!PwAt(i)
    OBVIOUS
  <2>1. Pass!Entries(n) = {Pass!PwAt(i)}
    BY <1>1, LineOf
  <2>. QED
    BY <1>2, <2>1
<1>7. \A n \in Name : NoRecord(n) => cur[n] = None
  <2>. SUFFICES ASSUME NEW n \in Name, NoRecord(n) PROVE Pass!Entries(n) = {}
    BY <1>2
  <2>. QED
    BY DEF NoRecord, Pass!Entries, Pass!LineStarts
<1>8. cur \in [Name -> Password \cup {"", None}]
  <2>. DEFINE first(n) == IF Pass!Entries(n) = {} THEN None ELSE CHOOSE p \in Pass!Entries(n) : TRUE
  <2>1. cur = [n \in Name |-> first(n)]
    BY <1>2
  <2>. HIDE DEF first
  <2>2. ASSUME NEW n \in Name
        PROVE  first(n) \in Password \cup {"", None}
    <3>1. first(n) = cur[n]
      BY <2>1
    <3>2. CASE NoRecord(n)
      BY <1>7, <3>1, <3>2
    <3>3. ASSUME NEW i \in DOMAIN shadow, shadow[i] = Pass!NameToken(n)
          PROVE  cur[n] \in Password \cup {"", None}
      <4>1. Pass!PwAt(i) \in Password \cup {""}
        BY <1>1, <3>3, LineOf
      <4>2. cur[n] = Pass!PwAt(i)
        BY <1>6, <3>3
      <4>. QED
        BY <4>1, <4>2
    <3>. QED
      BY <3>1, <3>2, <3>3 DEF NoRecord
  <2>. QED
    BY <2>1, <2>2
<1>9. PassTypes
  <2>1. \A k \in Tool : tool[k].start = 0 /\ tool[k].pc = "idle"
    BY <1>4
  <2>2. 0 <= Len(shadow) + 1 /\ spoilt \subseteq Name
    BY <1>1, <1>3
  <2>. QED
    BY <1>3, <1>5, <1>8, <2>1, <2>2 DEF PassTypes
<1>10. ASSUME NEW n \in Name
       PROVE  Kept(n)
  <2>1. ASSUME NEW i, StandsAt(n, i)
        PROVE  i \in Pass!LineStarts /\ Pass!PwAt(i) = cur[n] /\ cur[n] # None
    <3>1. i \in DOMAIN shadow /\ shadow[i] = Pass!NameToken(n)
      BY <2>1 DEF StandsAt
    <3>2. i \in Pass!LineStarts /\ Pass!PwAt(i) \in Password \cup {""}
      BY <1>1, <3>1, LineOf
    <3>. QED
      BY <1>6, <3>1, <3>2, PassConstants
  <2>2. \A i, j : StandsAt(n, i) /\ StandsAt(n, j) => i = j
    BY <1>1, Tokens DEF StandsAt, Pass!ShadowFile
  <2>. QED
    BY <1>7, <2>1, <2>2 DEF Kept
<1>11. PassKept
  BY <1>4, <1>10 DEF PassKept
<1>. QED
  BY <1>9, <1>11 DEF PassInv

(* Where a tool finds a record, and the end of the file.                   *)
LEMMA PlacedInLine ==
  ASSUME PassInv, NEW u \in Name, NEW l \in Nat, l = Len(shadow), NEW b \in 1 .. l,
         DOMAIN shadow = 1 .. l, shadow[l] = Pass!Rest,
         b \in Pass!Matching(u), NEW v \in BOOLEAN, v => shadow[b + 1] # Pass!Rest
  PROVE  Placed(u, b, v)
<1>1. PICK n \in Name : shadow[b] = Pass!NameToken(n) /\ b \in Pass!LineStarts
  BY DEF Pass!Matching
<1>2. shadow[b] # Pass!Rest /\ b # l /\ \A m \in Name : Pass!NameToken(m) # Pass!Rest
  BY <1>1, Tokens
<1>3. b = 1 \/ shadow[b - 1] = Pass!Rest
  BY <1>1 DEF Pass!LineStarts
<1>4. ASSUME NEW m \in Name \ spoilt, NEW i, StandsAt(m, i)
      PROVE  i + 1 # b /\ (v => i # b + 1 /\ i # b + 2)
  <2>1. i \in 1 .. l /\ shadow[i] = Pass!NameToken(m) /\ shadow[i] # Pass!Rest
    BY <1>2, <1>4 DEF StandsAt
  <2>2. i = 1 \/ shadow[i - 1] = Pass!Rest
    BY <1>4 DEF PassInv, PassKept, Kept, Pass!LineStarts
  <2>3. i + 1 = b => i = b - 1 /\ b # 1
    BY <2>1
  <2>4. i = b + 1 => i - 1 = b /\ i # 1
    BY <2>1
  <2>5. i = b + 2 => i - 1 = b + 1 /\ i # 1
    BY <2>1
  <2>. QED
    BY <1>2, <1>3, <2>1, <2>2, <2>3, <2>4, <2>5
<1>5. v => b + 2 <= l
  <2>1. b + 1 = l => ~v
    OBVIOUS
  <2>. QED
    BY <1>2, <2>1
<1>6. b # l + 1
  OBVIOUS
<1>. QED
  BY <1>4, <1>5, <1>6 DEF Placed, ClearOf

LEMMA PlacedAtEnd ==
  ASSUME PassInv, NEW u \in Name, NEW l \in Nat, l = Len(shadow),
         DOMAIN shadow = 1 .. l, shadow[l] = Pass!Rest, Pass!Matching(u) = {}
  PROVE  Placed(u, l + 1, FALSE)
<1>1. ASSUME NEW n \in Name \ spoilt, NEW i, StandsAt(n, i)
      PROVE  i + 1 # l + 1
  <2>1. shadow[i] # Pass!Rest /\ i \in 1 .. l
    BY <1>1, Tokens DEF StandsAt
  <2>. QED
    BY <2>1
<1>2. ASSUME u \notin spoilt
      PROVE  NoRecord(u)
  <2>. SUFFICES ASSUME NEW i \in DOMAIN shadow, shadow[i] = Pass!NameToken(u)
                PROVE  i \in Pass!Matching(u)
    BY DEF NoRecord
  <2>1. StandsAt(u, i)
    BY DEF StandsAt
  <2>2. i \in Pass!LineStarts
    BY <1>2, <2>1 DEF PassInv, PassKept, Kept
  <2>. QED
    BY <2>2, PassConstants DEF Pass!Matching
<1>. QED
  BY <1>1, <1>2 DEF Placed, ClearOf

LEMMA LocateInv ==
  ASSUME PassInv, NEW k \in Tool, NEW u \in Name, Pass!Locate(k, u)
  PROVE  PassInv'
<1>1. UNCHANGED <<shadow, console, cur, spoilt>> /\ PassTypes /\ shadow \in Seq(Token)
  <2>1. UNCHANGED <<shadow, console, cur, spoilt>>
    BY Zenon DEF Pass!Locate
  <2>. QED
    BY <2>1 DEF PassInv, PassTypes
<1>2. PICK l \in Nat : l = Len(shadow)
  BY <1>1
<1>3. DOMAIN shadow = 1 .. l /\ shadow[l] = Pass!Rest
  <2>1. DOMAIN shadow = 1 .. l
    BY <1>1, <1>2, DomainOf
  <2>. QED
    BY <1>1, <1>2, <2>1 DEF PassTypes
<1>4. PICK x \in ToolRecord :
        /\ tool' = [tool EXCEPT ![k] = x] /\ x.start <= l + 1
        /\ x.pc = "typing" => x.user = u /\ x.start >= 1 /\ Placed(x.user, x.start, x.saved)
  <2>1. CASE ~Pass!getpwnam(u)
    <3>1. PICK x : x = [Pass!Idle EXCEPT !.pc = "done"]
      OBVIOUS
    <3>2. Pass!Idle \in ToolRecord /\ Pass!Idle.start = 0
      BY DEF Pass!Idle, ToolRecord
    <3>3. tool' = [tool EXCEPT ![k] = x]
      BY <2>1, <3>1, Zenon DEF Pass!Locate
    <3>4. x \in ToolRecord /\ x.pc = "done" /\ x.start = 0
      BY <3>1, <3>2 DEF ToolRecord
    <3>5. 0 <= l + 1
      OBVIOUS
    <3>. QED
      BY <3>3, <3>4, <3>5
  <2>2. CASE Pass!getpwnam(u)
    <3>1. PICK b : b = IF Pass!Matching(u) = {} THEN l + 1 ELSE Pass!Min(Pass!Matching(u))
      OBVIOUS
    <3>2. PICK v \in BOOLEAN : v = (Pass!Matching(u) # {} /\ shadow[b + 1] # Pass!Rest)
      BY Zenon
    <3>3. PICK x : x = [pc |-> "typing", user |-> u, start |-> b, saved |-> v]
      OBVIOUS
    <3>4. tool' = [tool EXCEPT ![k] = x]
      BY <1>2, <2>2, <3>1, <3>2, <3>3, Zenon DEF Pass!Locate
    <3>5. b \in Nat /\ b >= 1 /\ b <= l + 1 /\ Placed(u, b, v)
      <4>1. CASE Pass!Matching(u) = {}
        <5>1. v = FALSE
          BY <3>2, <4>1, Zenon
        <5>2. Placed(u, l + 1, FALSE)
          BY <1>2, <1>3, <4>1, PlacedAtEnd
        <5>3. b = l + 1
          BY <3>1, <4>1
        <5>4. Placed(u, b, v)
          BY <5>1, <5>2, <5>3, Zenon
        <5>. QED
          BY <5>3, <5>4
      <4>2. CASE Pass!Matching(u) # {}
        <5>1. Pass!Matching(u) \subseteq 1 .. l
          BY <1>3 DEF Pass!Matching, Pass!LineStarts
        <5>2. b \in Pass!Matching(u)
          BY <3>1, <4>2, <5>1, LeastNat
        <5>3. v => shadow[b + 1] # Pass!Rest
          BY <3>2, <4>2, Zenon
        <5>4. b \in 1 .. l
          BY <5>1, <5>2
        <5>. QED
          BY <1>2, <1>3, <5>2, <5>3, <5>4, PlacedInLine
      <4>. QED
        BY <4>1, <4>2
    <3>6. x \in ToolRecord /\ x.pc = "typing" /\ x.user = u /\ x.start = b /\ x.saved = v
      BY <3>3, <3>5, ToolRecordOf
    <3>. QED
      BY <3>4, <3>5, <3>6
  <2>. QED
    BY <2>1, <2>2
<1>5. tool'[k] = x /\ \A j \in Tool \ {k} : tool'[j] = tool[j]
  BY <1>1, <1>4 DEF PassTypes
<1>6. PassTypes'
  <2>1. tool' \in [Tool -> ToolRecord]
    BY <1>1, <1>4 DEF PassTypes
  <2>2. \A j \in Tool : /\ tool'[j].start <= Len(shadow) + 1
                        /\ tool'[j].pc = "typing" => tool'[j].user \in Name /\ tool'[j].start >= 1
    BY <1>1, <1>2, <1>4, <1>5 DEF PassTypes
  <2>. QED
    BY <1>1, <2>1, <2>2 DEF PassTypes
<1>7. \A n \in Name \ spoilt : Kept(n)'
  <2>1. \A n \in Name \ spoilt : Kept(n)
    BY DEF PassInv, PassKept
  <2>. QED
    BY <1>1, <2>1 DEF Kept, StandsAt, NoRecord, Pass!LineStarts, Pass!PwAt
<1>8. ASSUME NEW j \in Tool, tool'[j].pc = "typing"
      PROVE  Placed(tool[j].user, tool[j].start, tool[j].saved)'
  <2>1. Placed(tool'[j].user, tool'[j].start, tool'[j].saved)
    BY <1>4, <1>5, <1>8 DEF PassInv, PassKept
  <2>. QED
    BY <1>1, <2>1 DEF Placed, ClearOf, StandsAt, NoRecord
<1>. QED
  BY <1>1, <1>6, <1>7, <1>8 DEF PassInv, PassKept

(* What a record of three tokens leaves of a file.                         *)
Patch(s, l, at, a, b, c) == SubSeq(s, 1, at - 1) \o <<a, b, c>> \o SubSeq(s, at + 3, l)

(* What the patched file t is, line by line.                                *)
Patched(s, t, l, at, a, b, c) ==
  /\ t \in Seq(Token) /\ Len(t) = IF at + 2 <= l THEN l ELSE at + 2
  /\ \A i \in 1 .. Len(t) : i < at \/ i > at + 2 => t[i] = s[i]
  /\ t[at] = a /\ t[at + 1] = b /\ t[at + 2] = c

LEMMA Overwritten ==
  ASSUME NEW s \in Seq(Token), NEW l \in Nat, l = Len(s), NEW at \in 1 .. l + 1,
         NEW a \in Token, NEW b \in Token, NEW c \in Token,
         NEW t, t = Patch(s, l, at, a, b, c)
  PROVE  Patched(s, t, l, at, a, b, c)
<1>. DEFINE x == SubSeq(s, 1, at - 1)
            y == <<a, b, c>>
            z == SubSeq(s, at + 3, l)
            d == l - (at + 3) + 1
<1>1. at \in Nat /\ 1 <= at /\ at <= l + 1
  OBVIOUS
<1>2. \A i \in 1 .. l : s[i] \in Token
  OBVIOUS
<1>3. x \in Seq(Token) /\ Len(x) = at - 1 /\ \A i \in 1 .. at - 1 : x[i] = s[i]
  <2>1. 1 \in Int /\ at - 1 \in Int /\ \A i \in 1 .. at - 1 : i \in 1 .. l /\ 1 + i - 1 = i
    BY <1>1
  <2>2. (IF 1 <= at - 1 THEN at - 1 - 1 + 1 ELSE 0) = at - 1 /\ at - 1 - 1 + 1 = at - 1
    BY <1>1
  <2>3. /\ x \in Seq(Token) /\ Len(x) = IF 1 <= at - 1 THEN at - 1 - 1 + 1 ELSE 0
        /\ \A i \in 1 .. at - 1 - 1 + 1 : x[i] = s[1 + i - 1]
    BY <1>2, <2>1, SubSeqProperties
  <2>. QED
    BY <2>1, <2>2, <2>3
<1>4. y \in Seq(Token) /\ Len(y) = 3 /\ y[1] = a /\ y[2] = b /\ y[3] = c
  OBVIOUS
<1>5. z \in Seq(Token) /\ Len(z) = (IF at + 3 <= l THEN d ELSE 0) /\ \A i \in 1 .. d : z[i] = s[at + 3 + i - 1]
  <2>1. at + 3 \in Int /\ l \in Int /\ \A i \in at + 3 .. l : i \in 1 .. l
    BY <1>1
  <2>. QED
    BY <1>2, <2>1, SubSeqProperties
<1>. HIDE DEF x, y, z
<1>6. /\ x \o y \in Seq(Token) /\ Len(x \o y) = at + 2
      /\ \A i \in 1 .. at + 2 : (x \o y)[i] = IF i <= at - 1 THEN x[i] ELSE y[i - (at - 1)]
  <2>1. /\ x \o y \in Seq(Token) /\ Len(x \o y) = Len(x) + Len(y)
        /\ \A i \in 1 .. Len(x) + Len(y) : (x \o y)[i] = IF i <= Len(x) THEN x[i] ELSE y[i - Len(x)]
    BY <1>3, <1>4, ConcatProperties
  <2>2. at - 1 + 3 = at + 2
    BY <1>1
  <2>. QED
    BY <1>3, <1>4, <2>1, <2>2
<1>. DEFINE w == x \o y
<1>. HIDE DEF w
<1>7. /\ w \in Seq(Token) /\ Len(w) = at + 2 /\ w[at] = a /\ w[at + 1] = b /\ w[at + 2] = c
      /\ \A i \in 1 .. at - 1 : w[i] = s[i]
  <2>1. /\ at \in 1 .. at + 2 /\ ~(at <= at - 1) /\ at - (at - 1) = 1
        /\ at + 1 \in 1 .. at + 2 /\ ~(at + 1 <= at - 1) /\ at + 1 - (at - 1) = 2
        /\ at + 2 \in 1 .. at + 2 /\ ~(at + 2 <= at - 1) /\ at + 2 - (at - 1) = 3
        /\ \A i \in 1 .. at - 1 : i \in 1 .. at + 2 /\ i <= at - 1
    BY <1>1
  <2>2. w \in Seq(Token) /\ Len(w) = at + 2 /\ \A i \in 1 .. at + 2 : w[i] = IF i <= at - 1 THEN x[i] ELSE y[i - (at - 1)]
    BY <1>6 DEF w
  <2>3. w[at] = y[1] /\ w[at + 1] = y[2] /\ w[at + 2] = y[3]
    BY <2>1, <2>2
  <2>4. \A i \in 1 .. at - 1 : w[i] = x[i]
    BY <2>1, <2>2
  <2>. QED
    BY <1>3, <1>4, <2>2, <2>3, <2>4
<1>8. PICK e \in Nat : e = Len(z) /\ (at + 2 <= l => at + 2 + e = l /\ d = e) /\ (~(at + 2 <= l) => e = 0)
  <2>1. PICK e \in Nat : e = Len(z)
    <3>1. z \in Seq(Token)
      BY <1>5
    <3>. QED
      BY <3>1
  <2>2. (at + 3 <= l => e = l - (at + 3) + 1) /\ (~(at + 3 <= l) => e = 0)
    BY <1>5, <2>1
  <2>3. (at + 2 <= l => at + 2 + e = l /\ d = e) /\ (~(at + 2 <= l) => e = 0)
    BY <1>1, <2>2
  <2>. QED
    BY <2>1, <2>3
<1>9. /\ t \in Seq(Token) /\ Len(t) = at + 2 + e
      /\ \A i \in 1 .. at + 2 + e : t[i] = IF i <= at + 2 THEN w[i] ELSE z[i - (at + 2)]
  <2>1. t = w \o z
    BY DEF w, x, y, z, Patch
  <2>2. /\ w \o z \in Seq(Token) /\ Len(w \o z) = Len(w) + Len(z)
        /\ \A i \in 1 .. Len(w) + Len(z) : (w \o z)[i] = IF i <= Len(w) THEN w[i] ELSE z[i - Len(w)]
    BY <1>5, <1>7, ConcatProperties
  <2>3. Len(w) = at + 2 /\ Len(z) = e
    BY <1>7, <1>8
  <2>. QED
    BY <2>1, <2>2, <2>3
<1>10. Len(t) = IF at + 2 <= l THEN l ELSE at + 2
  BY <1>1, <1>8, <1>9
<1>11. ASSUME NEW i \in 1 .. Len(t), i < at \/ i > at + 2
       PROVE  t[i] = s[i]
  <2>1. CASE i < at
    <3>1. i \in 1 .. at - 1 /\ i <= at + 2 /\ i \in 1 .. at + 2 + e
      BY <1>1, <1>9, <2>1
    <3>. QED
      BY <1>7, <1>9, <3>1
  <2>2. CASE i > at + 2
    <3>1. i \in 1 .. at + 2 + e /\ i \in Nat
      BY <1>9
    <3>2. e # 0 /\ ~(i <= at + 2)
      BY <1>1, <2>2, <3>1
    <3>3. PICK f \in 1 .. e : f = i - (at + 2) /\ at + 3 + f - 1 = i
      BY <1>1, <2>2, <3>1
    <3>4. d = e
      BY <1>8, <3>2
    <3>5. t[i] = z[f]
      BY <1>9, <3>1, <3>2, <3>3
    <3>. QED
      BY <1>5, <3>3, <3>4, <3>5
  <2>. QED
    BY <1>11, <2>1, <2>2
<1>12. t[at] = a /\ t[at + 1] = b /\ t[at + 2] = c
  <2>1. \A i \in {at, at + 1, at + 2} : i \in 1 .. at + 2 + e /\ i <= at + 2
    BY <1>1, <1>8
  <2>. QED
    BY <1>7, <1>9, <2>1
<1>. QED
  BY <1>9, <1>10, <1>11, <1>12 DEF Patched

(* What a tool k that writes for u at the place a may cost.                *)
Sets(k, u, p) == cur' = [cur EXCEPT ![u] = p] /\ tool' = [tool EXCEPT ![k].pc = "done"]
Costs(u, a, v) ==
  /\ \A n \in Name \ spoilt' :
       n # u /\ ~(StandsAt(u, a) /\ v) => \A i \in a .. a + 2 : ~StandsAt(n, i)
  /\ u \notin spoilt' => StandsAt(u, a) \/ a = Len(shadow) + 1
  /\ spoilt \subseteq spoilt'

LEMMA CostsOf ==
  ASSUME PassInv, NEW k \in Tool, NEW p \in Password, Pass!WriteBack(k, p),
         NEW u \in Name, NEW a \in Nat, NEW v, u = tool[k].user, a = tool[k].start, v = tool[k].saved
  PROVE  Costs(u, a, v)
<1>1. spoilt' = spoilt \cup Pass!Spoils(k)
  BY DEF Pass!WriteBack
<1>2. \A n : n \in Pass!Spoils(k) <=>
        /\ n \in Name
        /\ \/ n # u /\ ~(StandsAt(u, a) /\ v) /\ n \in Pass!Lines(a .. a + 2)
           \/ n = u /\ ~StandsAt(u, a) /\ a # Len(shadow) + 1
  BY DEF Pass!Spoils, StandsAt
<1>3. ASSUME NEW n \in Name \ spoilt', NEW i \in a .. a + 2, StandsAt(n, i)
      PROVE  n \in Pass!Lines(a .. a + 2)
  <2>1. i \in Pass!LineStarts
    BY <1>1, <1>3 DEF PassInv, PassKept, Kept
  <2>. QED
    BY <1>3, <2>1 DEF Pass!Lines, StandsAt
<1>4. ASSUME NEW n \in Name \ spoilt', n # u, ~(StandsAt(u, a) /\ v), NEW i \in a .. a + 2, StandsAt(n, i)
      PROVE  FALSE
  <2>1. n \in Pass!Lines(a .. a + 2)
    BY <1>3, <1>4
  <2>2. n \in Pass!Spoils(k)
    BY <1>2, <1>4, <2>1, Zenon
  <2>. QED
    BY <1>1, <1>4, <2>2
<1>5. u \notin spoilt' => StandsAt(u, a) \/ a = Len(shadow) + 1
  BY <1>1, <1>2, Zenon
<1>6. spoilt \subseteq spoilt'
  BY <1>1
<1>. QED
  BY <1>4, <1>5, <1>6 DEF Costs

(* The record of a user who does not write and is not spoilt stands clear  *)
(* of what is written.                                                     *)
LEMMA StandsClear ==
  ASSUME PassInv, NEW u \in Name, NEW a \in Nat, NEW v \in BOOLEAN, Placed(u, a, v), Costs(u, a, v),
         NEW n \in Name \ spoilt', n # u, NEW i \in Nat, StandsAt(n, i)
  PROVE  i # a /\ i # a + 1 /\ i # a + 2 /\ i + 1 # a
<1>1. n \in Name \ spoilt
  BY DEF Costs
<1>2. i + 1 # a /\ (v => i # a + 1 /\ i # a + 2)
  BY <1>1 DEF Placed, ClearOf
<1>3. CASE StandsAt(u, a) /\ v
  <2>1. i # a
    BY <1>3, Tokens DEF StandsAt
  <2>. QED
    BY <1>2, <1>3, <2>1
<1>4. CASE ~(StandsAt(u, a) /\ v)
  <2>1. \A j \in a .. a + 2 : ~StandsAt(n, j)
    BY <1>4 DEF Costs
  <2>2. i = a \/ i = a + 1 \/ i = a + 2 => i \in a .. a + 2
    OBVIOUS
  <2>. QED
    BY <1>2, <2>1, <2>2
<1>. QED
  BY <1>3, <1>4

LEMMA WriteBackInv ==
  ASSUME PassInv, NEW k \in Tool, NEW p \in Password, Pass!WriteBack(k, p)
  PROVE  PassInv'
<1>1. PassTypes /\ shadow \in Seq(Token) /\ tool[k].pc = "typing"
  BY DEF PassInv, PassTypes, Pass!WriteBack
<1>2. PICK u \in Name, at \in Nat, v \in BOOLEAN :
        /\ u = tool[k].user /\ at = tool[k].start /\ v = tool[k].saved
        /\ at >= 1 /\ at <= Len(shadow) + 1
  BY <1>1 DEF PassTypes, ToolRecord
<1>3. PICK l \in Nat : l = Len(shadow)
  BY <1>1
<1>4. at \in 1 .. l + 1
  BY <1>2, <1>3
<1>5. shadow' = Pass!Overwrite(at, Pass!Record(u, p)) /\ Sets(k, u, p)
  BY <1>2 DEF Pass!WriteBack, Sets
<1>6. PICK a \in Token, b \in Token, c \in Token :
        a = Pass!NameToken(u) /\ b = Pass!PwToken(p) /\ c = Pass!Rest /\ b \in Pass!PwTokens /\ b[2] = p
  BY Tokens
<1>7. shadow' = Patch(shadow, l, at, a, b, c)
  <2>1. Pass!Record(u, p) = <<a, b, c>> /\ Len(<<a, b, c>>) = 3
    BY <1>6 DEF Pass!Record
  <2>. QED
    BY <1>3, <1>5, <2>1 DEF Pass!Overwrite, Patch
<1>8. /\ shadow' \in Seq(Token) /\ Len(shadow') = IF at + 2 <= l THEN l ELSE at + 2
      /\ \A i \in 1 .. Len(shadow') : i < at \/ i > at + 2 => shadow'[i] = shadow[i]
      /\ shadow'[at] = a /\ shadow'[at + 1] = b /\ shadow'[at + 2] = c
  <2>1. Patched(shadow, shadow', l, at, a, b, c)
    BY <1>1, <1>3, <1>4, <1>7, Overwritten
  <2>. QED
    BY <2>1 DEF Patched
<1>9. PICK m \in Nat : m = Len(shadow') /\ m >= l /\ m >= at + 2 /\ (at + 2 <= l => m = l) /\ (at + 2 > l => m = at + 2)
  BY <1>4, <1>8
<1>10. DOMAIN shadow = 1 .. l /\ DOMAIN shadow' = 1 .. m
  BY <1>1, <1>3, <1>8, <1>9, DomainOf
<1>11. \A i \in 1 .. m : i < at \/ i > at + 2 => shadow'[i] = shadow[i]
  BY <1>8, <1>9
<1>12. shadow' # <<>> /\ shadow'[m] = Pass!Rest /\ shadow[l] = Pass!Rest /\ l # 0
  <2>1. shadow' # <<>>
    <3>1. Len(<<>>) = 0 /\ m # 0
      BY <1>4, <1>9
    <3>. QED
      BY <1>9, <3>1
  <2>2. shadow[l] = Pass!Rest /\ l # 0
    BY <1>1, <1>3, EmptySeq DEF PassTypes
  <2>3. CASE m = at + 2
    BY <1>6, <1>8, <2>1, <2>2, <2>3
  <2>4. CASE m # at + 2
    <3>1. m = l /\ m > at + 2 /\ m \in 1 .. m
      BY <1>4, <1>9, <2>4
    <3>. QED
      BY <1>11, <2>1, <2>2, <3>1
  <2>. QED
    BY <2>3, <2>4
<1>13. Costs(u, at, v) /\ Placed(u, at, v)
  <2>1. Costs(u, at, v)
    BY <1>2, CostsOf
  <2>. QED
    BY <1>1, <1>2, <2>1 DEF PassInv, PassKept
<1>14. spoilt' \subseteq Name
  BY <1>1 DEF Pass!WriteBack, Pass!Spoils, PassTypes
<1>15. PassTypes'
  <2>1. tool' \in [Tool -> ToolRecord] /\ cur' \in [Name -> Password \cup {"", None}]
    <3>1. [tool[k] EXCEPT !.pc = "done"] \in ToolRecord
      BY <1>1 DEF PassTypes, ToolRecord
    <3>. QED
      BY <1>1, <1>5, <3>1 DEF PassTypes, Sets
  <2>2. ASSUME NEW j \in Tool
        PROVE  /\ tool'[j].start <= m + 1
               /\ tool'[j].pc = "typing" => tool'[j].user \in Name /\ tool'[j].start >= 1
    <3>1. /\ tool'[j].start = tool[j].start /\ tool'[j].user = tool[j].user
          /\ tool'[j].pc = "typing" => tool[j].pc = "typing"
      BY <1>1, <1>5 DEF PassTypes, ToolRecord, Sets
    <3>2. PICK d \in Nat : d = tool[j].start
      BY <1>1 DEF PassTypes, ToolRecord
    <3>3. d <= l + 1 /\ (tool[j].pc = "typing" => tool[j].user \in Name /\ d >= 1)
      BY <1>1, <1>3, <3>2 DEF PassTypes
    <3>. QED
      BY <1>9, <3>1, <3>2, <3>3
  <2>. QED
    BY <1>8, <1>9, <1>12, <1>14, <2>1, <2>2 DEF PassTypes
<1>16. \A n \in Name : Pass!NameToken(n) # b /\ Pass!NameToken(n) # c /\ (n # u => Pass!NameToken(n) # a)
  BY <1>6, Tokens
<1>17. ASSUME NEW n \in Name \ spoilt', n # u, NEW i \in Nat
       PROVE  /\ StandsAt(n, i) => i # at /\ i # at + 1 /\ i # at + 2 /\ i + 1 # at
              /\ StandsAt(n, i)' <=> StandsAt(n, i)
  <2>1. StandsAt(n, i) => i # at /\ i # at + 1 /\ i # at + 2 /\ i + 1 # at
    BY <1>13, <1>17, StandsClear
  <2>2. ASSUME StandsAt(n, i)
        PROVE  StandsAt(n, i)'
    <3>1. i \in 1 .. m /\ (i < at \/ i > at + 2)
      BY <1>4, <1>9, <1>10, <2>1, <2>2 DEF StandsAt
    <3>. QED
      BY <1>10, <1>11, <2>2, <3>1 DEF StandsAt
  <2>3. ASSUME StandsAt(n, i)'
        PROVE  StandsAt(n, i)
    <3>1. i \in 1 .. m /\ shadow'[i] = Pass!NameToken(n)
      BY <1>10, <2>3 DEF StandsAt
    <3>2. i # at /\ i # at + 1 /\ i # at + 2
      BY <1>8, <1>16, <1>17, <3>1
    <3>3. i \in 1 .. l /\ (i < at \/ i > at + 2)
      BY <1>4, <1>9, <3>1, <3>2
    <3>. QED
      BY <1>10, <1>11, <3>1, <3>3 DEF StandsAt
  <2>. QED
    BY <2>1, <2>2, <2>3
<1>18. ASSUME u \notin spoilt', NEW i \in Nat, StandsAt(u, i)'
       PROVE  i = at
  <2>1. i \in 1 .. m /\ shadow'[i] = a
    BY <1>6, <1>10, <1>18 DEF StandsAt
  <2>2. CASE StandsAt(u, at)
    <3>1. i # at + 1 /\ i # at + 2
      BY <1>6, <1>8, <1>16, <2>1
    <3>2. SUFFICES ASSUME i # at PROVE FALSE
      OBVIOUS
    <3>3. i \in 1 .. l /\ shadow[i] = a
      <4>1. i \in 1 .. l /\ (i < at \/ i > at + 2)
        BY <1>4, <1>9, <2>1, <3>1, <3>2
      <4>. QED
        BY <1>11, <2>1, <4>1
    <3>4. StandsAt(u, i) /\ u \in Name \ spoilt
      BY <1>6, <1>10, <1>13, <1>18, <3>3 DEF StandsAt, Costs
    <3>. QED
      BY <2>2, <3>2, <3>4 DEF PassInv, PassKept, Kept
  <2>3. CASE at = l + 1
    <3>1. NoRecord(u)
      BY <1>3, <1>13, <1>18, <2>3 DEF Placed, Costs
    <3>2. SUFFICES ASSUME i # at PROVE FALSE
      OBVIOUS
    <3>3. i # at + 1 /\ i # at + 2
      BY <1>6, <1>8, <1>16, <2>1
    <3>4. i \in 1 .. l /\ (i < at \/ i > at + 2)
      BY <1>4, <1>9, <2>1, <3>2, <3>3
    <3>5. shadow[i] = a
      BY <1>11, <2>1, <3>4
    <3>. QED
      BY <1>6, <1>10, <3>1, <3>4, <3>5 DEF NoRecord
  <2>. QED
    BY <1>3, <1>13, <1>18, <2>2, <2>3 DEF Costs
<1>19. cur'[u] = p /\ \A n \in Name \ {u} : cur'[n] = cur[n]
  BY <1>1, <1>5 DEF Sets, PassTypes
<1>20. ASSUME NEW n \in Name \ spoilt'
       PROVE  Kept(n)'
  <2>1. CASE n # u
    <3>1. Kept(n)
      BY <1>13, <1>20 DEF PassInv, PassKept, Costs
    <3>2. ASSUME NEW i, StandsAt(n, i)'
          PROVE  i \in Pass!LineStarts' /\ Pass!PwAt(i)' = cur'[n] /\ cur'[n] # None /\ StandsAt(n, i)
      <4>1. i \in Nat /\ i \in 1 .. m
        BY <1>10, <3>2 DEF StandsAt
      <4>2. StandsAt(n, i) /\ i # at /\ i # at + 1 /\ i # at + 2 /\ i + 1 # at
        BY <1>17, <2>1, <3>2, <4>1
      <4>3. i \in 1 .. l /\ (i = 1 \/ shadow[i - 1] = Pass!Rest) /\ Pass!PwAt(i) = cur[n] /\ cur[n] # None
        BY <1>10, <3>1, <4>2 DEF Kept, Pass!LineStarts
      <4>4. shadow[i] # Pass!Rest
        BY <4>2, Tokens DEF StandsAt
      <4>5. i # l
        BY <1>12, <4>4
      <4>6. i + 1 \in 1 .. m /\ (i + 1 < at \/ i + 1 > at + 2)
        BY <1>4, <1>9, <4>2, <4>3, <4>5
      <4>7. Pass!PwAt(i)' = Pass!PwAt(i)
        BY <1>11, <4>6 DEF Pass!PwAt
      <4>8. i = 1 \/ shadow'[i - 1] = Pass!Rest
        <5>1. CASE i - 1 = at + 2
          BY <1>6, <1>8, <5>1
        <5>2. CASE i # 1 /\ i - 1 # at + 2
          <6>1. i - 1 \in 1 .. m /\ (i - 1 < at \/ i - 1 > at + 2)
            BY <1>4, <4>1, <4>2, <5>2
          <6>. QED
            BY <1>11, <4>3, <5>2, <6>1
        <5>. QED
          BY <5>1, <5>2
      <4>9. i \in Pass!LineStarts'
        BY <1>10, <4>1, <4>8 DEF Pass!LineStarts
      <4>. QED
        BY <1>19, <2>1, <4>2, <4>3, <4>7, <4>9
    <3>3. NoRecord(n)' => NoRecord(n)
      <4>. SUFFICES ASSUME NoRecord(n)', NEW i \in DOMAIN shadow, shadow[i] = Pass!NameToken(n) PROVE FALSE
        BY DEF NoRecord
      <4>1. StandsAt(n, i) /\ i \in Nat
        BY <1>10 DEF StandsAt
      <4>2. StandsAt(n, i)'
        BY <1>17, <2>1, <4>1
      <4>. QED
        BY <4>2 DEF StandsAt, NoRecord
    <3>4. NoRecord(n)' => cur'[n] = None
      BY <1>19, <2>1, <3>1, <3>3 DEF Kept
    <3>5. \A i, j : StandsAt(n, i)' /\ StandsAt(n, j)' => i = j
      BY <3>1, <3>2 DEF Kept
    <3>. QED
      BY <3>2, <3>4, <3>5 DEF Kept
  <2>2. CASE n = u
    <3>1. \A i : StandsAt(u, i)' => i = at
      <4>. SUFFICES ASSUME NEW i, StandsAt(u, i)' PROVE i = at
        OBVIOUS
      <4>1. i \in Nat
        BY <1>10 DEF StandsAt
      <4>. QED
        BY <1>18, <1>20, <2>2, <4>1
    <3>2. at \in 1 .. m /\ StandsAt(u, at)'
      BY <1>4, <1>6, <1>8, <1>9, <1>10 DEF StandsAt
    <3>3. at = 1 \/ shadow[at - 1] = Pass!Rest
      <4>1. CASE StandsAt(u, at)
        <5>1. u \in Name \ spoilt
          BY <1>13, <1>20, <2>2 DEF Costs
        <5>. QED
          BY <4>1, <5>1 DEF PassInv, PassKept, Kept, Pass!LineStarts
      <4>2. CASE at = l + 1
        <5>1. at - 1 = l
          BY <4>2
        <5>. QED
          BY <1>12, <5>1
      <4>. QED
        BY <1>3, <1>13, <1>20, <2>2, <4>1, <4>2 DEF Costs
    <3>4. at # 1 => at - 1 \in 1 .. m /\ at - 1 < at
      BY <3>2
    <3>5. at \in Pass!LineStarts'
      BY <1>10, <1>11, <3>2, <3>3, <3>4 DEF Pass!LineStarts
    <3>6. Pass!PwAt(at)' = p
      BY <1>6, <1>8, Tokens DEF Pass!PwAt
    <3>7. p # None
      BY PassConstants
    <3>8. ~NoRecord(u)'
      BY <3>2 DEF NoRecord, StandsAt
    <3>9. \A i : StandsAt(u, i)' => i \in Pass!LineStarts' /\ Pass!PwAt(i)' = cur'[u] /\ cur'[u] # None
      <4>. SUFFICES ASSUME NEW i, StandsAt(u, i)'
                    PROVE  i \in Pass!LineStarts' /\ Pass!PwAt(i)' = cur'[u] /\ cur'[u] # None
        OBVIOUS
      <4>1. i = at
        BY <3>1
      <4>2. Pass!PwAt(i)' = Pass!PwAt(at)'
        BY <4>1 DEF Pass!PwAt
      <4>. QED
        BY <1>19, <3>5, <3>6, <3>7, <4>1, <4>2
    <3>10. \A i, j : StandsAt(u, i)' /\ StandsAt(u, j)' => i = j
      BY <3>1
    <3>11. Kept(u)'
      BY <3>8, <3>9, <3>10 DEF Kept
    <3>. QED
      BY <2>2, <3>11
  <2>. QED
    BY <2>1, <2>2
<1>21. ASSUME NEW j \in Tool, tool'[j].pc = "typing"
       PROVE  Placed(tool[j].user, tool[j].start, tool[j].saved)'
  <2>1. /\ tool'[j].start = tool[j].start /\ tool'[j].user = tool[j].user /\ tool'[j].saved = tool[j].saved
        /\ tool[j].pc = "typing"
    BY <1>1, <1>5, <1>21 DEF PassTypes, ToolRecord, Sets
  <2>2. PICK w \in Name, d \in Nat, x \in BOOLEAN :
          w = tool[j].user /\ d = tool[j].start /\ x = tool[j].saved /\ d <= l + 1
    BY <1>1, <1>3, <2>1 DEF PassTypes, ToolRecord
  <2>3. Placed(w, d, x)
    BY <2>1, <2>2 DEF PassInv, PassKept
  <2>4. ASSUME NEW n \in Name \ spoilt', NEW i, StandsAt(n, i)'
        PROVE  i + 1 # d /\ (x => i # d + 1 /\ i # d + 2)
    <3>1. i \in Nat /\ n \in Name \ spoilt
      BY <1>10, <1>13, <2>4 DEF StandsAt, Costs
    <3>2. CASE StandsAt(n, i)
      BY <2>3, <3>1, <3>2 DEF Placed, ClearOf
    <3>3. CASE ~StandsAt(n, i)
      <4>1. n = u
        BY <1>17, <2>4, <3>1, <3>3
      <4>2. i = at
        BY <1>18, <2>4, <3>1, <4>1
      <4>3. at = l + 1
        BY <1>3, <1>13, <2>4, <3>3, <4>1, <4>2 DEF Costs
      <4>4. x => d + 2 <= l
        BY <1>3, <2>3 DEF Placed
      <4>. QED
        BY <2>2, <4>2, <4>3, <4>4
    <3>. QED
      BY <3>2, <3>3
  <2>5. x => d + 2 <= m
    BY <1>3, <1>9, <2>3 DEF Placed
  <2>6. ASSUME d = m + 1, w \notin spoilt'
        PROVE  NoRecord(w)'
    <3>1. m = l /\ d = l + 1 /\ at # l + 1
      BY <1>4, <1>9, <2>2, <2>6
    <3>2. w \in Name \ spoilt /\ NoRecord(w)
      BY <1>3, <1>13, <2>3, <2>6, <3>1 DEF Placed, Costs
    <3>3. w # u
      <4>1. ~StandsAt(w, at)
        BY <3>2 DEF StandsAt, NoRecord
      <4>. QED
        BY <1>3, <1>13, <2>6, <3>1, <4>1 DEF Costs
    <3>4. ASSUME NEW i, StandsAt(w, i)'
          PROVE  FALSE
      <4>1. i \in Nat
        BY <1>10, <3>4 DEF StandsAt
      <4>2. StandsAt(w, i)
        BY <1>17, <2>6, <3>3, <3>4, <4>1
      <4>. QED
        BY <3>2, <4>2 DEF StandsAt, NoRecord
    <3>. QED
      BY <3>4 DEF StandsAt, NoRecord
  <2>7. Placed(w, d, x)'
    BY <1>9, <2>4, <2>5, <2>6 DEF Placed, ClearOf
  <2>. QED
    BY <2>1, <2>2, <2>7
<1>. QED
  BY <1>15, <1>20, <1>21 DEF PassInv, PassKept

LEMMA PassNext ==
  ASSUME PassInv, [Pass!Next]_passVars
  PROVE  PassInv'
<1>1. ASSUME UNCHANGED <<shadow, tool, cur, spoilt>>
      PROVE  PassInv'
  <2>1. PassTypes'
    BY <1>1 DEF PassInv, PassTypes
  <2>2. PassKept'
    <3>1. \A n \in Name \ spoilt : Kept(n)'
      BY <1>1 DEF PassInv, PassKept, Kept, StandsAt, NoRecord, Pass!LineStarts, Pass!PwAt
    <3>2. \A k \in Tool : tool[k].pc = "typing" => Placed(tool[k].user, tool[k].start, tool[k].saved)'
      BY <1>1 DEF PassInv, PassKept, Placed, ClearOf, StandsAt, NoRecord
    <3>. QED
      BY <1>1, <3>1, <3>2 DEF PassKept
  <2>. QED
    BY <2>1, <2>2 DEF PassInv
<1>2. CASE UNCHANGED passVars
  BY <1>1, <1>2 DEF passVars
<1>3. ASSUME NEW u \in Name, NEW p \in Password, Pass!Login(u, p)
      PROVE  PassInv'
  <2>1. UNCHANGED <<shadow, tool, cur, spoilt>>
    BY <1>3, Zenon DEF Pass!Login
  <2>. QED
    BY <1>1, <2>1
<1>. QED
  BY <1>2, <1>3, LocateInv, WriteBackInv DEF Pass!Next

LEMMA PassGood ==
  ASSUME PassInv
  PROVE  Pass!ShadowIntact
<1>1. PassTypes
  BY DEF PassInv
<1>2. Pass!TypeOK
  <2>1. ASSUME NEW k \in Tool
        PROVE  /\ tool[k].pc \in {"idle", "typing", "done"} /\ tool[k].user \in Name \cup {None}
               /\ tool[k].start \in 0 .. Len(shadow) + 1 /\ tool[k].saved \in BOOLEAN
    <3>0. shadow \in Seq(Token)
      BY <1>1 DEF PassTypes
    <3>1. PICK l \in Nat : l = Len(shadow)
      BY <3>0, LenProperties
    <3>2. tool[k] \in ToolRecord /\ tool[k].start <= l + 1
      BY <1>1, <3>1 DEF PassTypes
    <3>. QED
      BY <3>1, <3>2 DEF ToolRecord
  <2>. QED
    BY <1>1, <2>1 DEF PassTypes, Pass!TypeOK, Token
<1>3. ASSUME NEW n \in Name \ spoilt
      PROVE  Pass!Entries(n) = {cur[n]} \ {None}
  <2>1. Kept(n)
    BY DEF PassInv, PassKept
  <2>2. CASE NoRecord(n)
    <3>1. cur[n] = None
      BY <2>1, <2>2 DEF Kept
    <3>2. Pass!Entries(n) = {}
      BY <2>2 DEF NoRecord, Pass!Entries, Pass!LineStarts
    <3>. QED
      BY <3>1, <3>2
  <2>3. ASSUME NEW i \in DOMAIN shadow, shadow[i] = Pass!NameToken(n)
        PROVE  Pass!Entries(n) = {cur[n]} \ {None}
    <3>1. StandsAt(n, i)
      BY <2>3 DEF StandsAt
    <3>2. i \in Pass!LineStarts /\ Pass!PwAt(i) = cur[n] /\ cur[n] # None
      BY <2>1, <3>1 DEF Kept
    <3>3. \A j \in Pass!LineStarts : shadow[j] = Pass!NameToken(n) => j = i
      BY <2>1, <3>1 DEF Kept, StandsAt, Pass!LineStarts
    <3>. QED
      BY <2>3, <3>2, <3>3 DEF Pass!Entries
  <2>. QED
    BY <2>2, <2>3 DEF NoRecord
<1>. QED
  BY <1>2, <1>3 DEF Pass!ShadowIntact

(* The first line whose name begins with what is typed has the password    *)
(* that was last set for the user of that name, if he is not spoilt.       *)
LetInBy(n) ==
  /\ shadow[Pass!Min(Pass!Matching(console'[2]))] = Pass!NameToken(n)
  /\ n \in spoilt \/ cur[n] \in {"", console'[3]}

LEMMA LoginKnows ==
  ASSUME PassInv, NEW u \in Name, NEW p \in Password, Pass!Login(u, p)
  PROVE  \E n \in Name : LetInBy(n)
<1>1. Pass!Matching(u) # {} /\ Pass!PwAt(Pass!Min(Pass!Matching(u))) \in {"", p}
  BY DEF Pass!Login
<1>2. console'[2] = u /\ console'[3] = p
  BY DEF Pass!Login
<1>3. shadow \in Seq(Token)
  BY DEF PassInv, PassTypes
<1>4. Pass!Matching(u) \subseteq Nat
  BY <1>3 DEF Pass!Matching, Pass!LineStarts
<1>5. PICK i \in Pass!Matching(u) : i = Pass!Min(Pass!Matching(u))
  BY <1>1, <1>4, LeastNat
<1>6. PICK n \in Name : i \in DOMAIN shadow /\ shadow[i] = Pass!NameToken(n)
  BY DEF Pass!Matching, Pass!LineStarts
<1>7. n \notin spoilt => cur[n] = Pass!PwAt(i)
  BY <1>6 DEF PassInv, PassKept, Kept, StandsAt
<1>8. n \in spoilt \/ cur[n] \in {"", p}
  BY <1>1, <1>5, <1>7
<1>9. shadow[Pass!Min(Pass!Matching(console'[2]))] = Pass!NameToken(n)
  BY <1>2, <1>5, <1>6
<1>. QED
  BY <1>2, <1>8, <1>9 DEF LetInBy

-----------------------------------------------------------------------------
(***************************************************************************)
(* test_dlist.  c is the sequence of the nodes on the list; each node is   *)
(* linked to a later one, so a walk along next comes to an end.            *)
(***************************************************************************)
LEMMA DllConstants == N \in Nat
BY LabsAssumption DEF Dll!ConstantsOK

LEMMA NatSteps ==
  ASSUME NEW F \in SUBSET Nat, 0 \in F, \A n \in F : n + 1 \in F
  PROVE  F = Nat
<1>. SUFFICES ASSUME Nat \ F # {} PROVE FALSE
  OBVIOUS
<1>1. PICK n \in Nat \ F : \A m \in Nat \ F : n <= m
  BY LeastNat
<1>2. n # 0 /\ n - 1 \in Nat /\ ~ (n <= n - 1)
  BY <1>1
<1>3. n - 1 \in F
  BY <1>1, <1>2
<1>4. (n - 1) + 1 \in F
  BY <1>3
<1>. QED
  BY <1>1, <1>4

Onward(nx) == nx \in [Dll!Node -> 0 .. N] /\ \A n \in Dll!Node : nx[n] = 0 \/ nx[n] > n

(* The function of Chain: the nodes from n on.                             *)
From(nx, g, S) == g = [n \in S |-> IF n = 0 THEN <<>> ELSE <<n>> \o g[nx[n]]]

LEMMA FromExists ==
  ASSUME NEW nx, Onward(nx)
  PROVE  \E g : From(nx, g, 0 .. N)
<1>. DEFINE Dom(j) == {0} \cup (N + 1 - j .. N)
            G == {j \in Nat : j <= N => \E g : From(nx, g, Dom(j))}
<1>1. N \in Nat
  BY DllConstants
<1>2. 0 \in G
  <2>1. Dom(0) = {0}
    BY <1>1
  <2>. DEFINE z == [n \in {0} |-> <<>>]
  <2>2. From(nx, z, {0})
    BY DEF From
  <2>. QED
    BY <2>1, <2>2
<1>3. ASSUME NEW j \in G PROVE j + 1 \in G
  <2>. SUFFICES ASSUME j + 1 <= N PROVE \E g : From(nx, g, Dom(j + 1))
    OBVIOUS
  <2>1. PICK g : From(nx, g, Dom(j))
    <3>1. j <= N
      BY <1>1, <1>3
    <3>. HIDE DEF Dom
    <3>. QED
      BY <1>3, <3>1
  <2>. DEFINE h == [n \in Dom(j + 1) |-> IF n = 0 THEN <<>> ELSE <<n>> \o g[nx[n]]]
  <2>2. \A n \in Dom(j + 1) : n # 0 => n \in Dll!Node /\ nx[n] \in Dom(j)
    <3>. TAKE n \in Dom(j + 1)
    <3>. HAVE n # 0
    <3>1. n \in Dll!Node /\ n \in Nat /\ n >= N - j
      BY <1>1, <1>3 DEF Dll!Node
    <3>2. PICK m \in 0 .. N : m = nx[n] /\ (m = 0 \/ m > n)
      BY <3>1 DEF Onward
    <3>3. m \in Dom(j)
      BY <1>1, <1>3, <3>1, <3>2
    <3>. QED
      BY <3>1, <3>2, <3>3
  <2>3. \A n \in Dom(j) : n \in Dom(j + 1)
    BY <1>1, <1>3
  <2>. HIDE DEF Dom
  <2>4. \A n \in Dom(j) : h[n] = g[n]
    BY <2>1, <2>3 DEF From
  <2>5. \A n \in Dom(j + 1) : n # 0 => h[nx[n]] = g[nx[n]]
    <3>. HIDE DEF h
    <3>. QED
      BY <2>2, <2>4
  <2>6. From(nx, h, Dom(j + 1))
    BY <2>5 DEF From
  <2>. QED
    BY <2>6
<1>4. G = Nat
  <2>. HIDE DEF G
  <2>1. G \subseteq Nat
    BY DEF G
  <2>. QED
    BY <1>2, <1>3, <2>1, NatSteps
<1>5. Dom(N) = 0 .. N
  BY <1>1
<1>6. \E g : From(nx, g, Dom(N))
  <2>1. N \in G
    BY <1>1, <1>4
  <2>. QED
    BY <1>1, <2>1
<1>. QED
  BY <1>5, <1>6

(* The nodes of c are the ones on the list; the others were freed.  A back *)
(* link is right or points at a node that was freed.                       *)
Ahead(c) == IF c = <<>> THEN 0 ELSE c[1]

Nodes(c) ==
  /\ c \in Seq(Dll!Node)
  /\ \A i, j \in 1 .. Len(c) : i < j => c[i] < c[j]

Forward(c) ==
  /\ head = Ahead(c)
  /\ \A k \in 1 .. Len(c) : next[c[k]] = IF k < Len(c) THEN c[k + 1] ELSE 0

Backward(c) ==
  /\ prev \in [Dll!Node -> 0 .. N]
  /\ c # <<>> => prev[c[1]] = 0
  /\ \A k \in 2 .. Len(c) : prev[c[k]] = c[k - 1] \/ prev[c[k]] \in freed

Linked(c) ==
  /\ Nodes(c) /\ Onward(next) /\ Forward(c) /\ Backward(c)
  /\ freed \subseteq Dll!Node
  /\ \A n \in Dll!Node : n \in freed <=> \A k \in 1 .. Len(c) : c[k] # n

LEMMA ChainIs ==
  ASSUME NEW c, Linked(c)
  PROVE  Dll!Chain = c
<1>. DEFINE f == CHOOSE g : From(next, g, 0 .. N)
<1>1. From(next, f, 0 .. N)
  BY FromExists DEF Linked
<1>2. Dll!Chain = f[head]
  BY DEF Dll!Chain, Dll!Null, From
<1>. HIDE DEF f
<1>3. N \in Nat /\ c \in Seq(Dll!Node)
  BY DllConstants DEF Linked, Nodes
<1>4. PICK l \in Nat : l = Len(c)
  BY <1>3
<1>5. f[0] = <<>>
  <2>1. 0 \in 0 .. N
    BY <1>3
  <2>. QED
    BY <1>1, <2>1 DEF From
<1>. DEFINE G == {j \in Nat : j < l => f[c[l - j]] = SubSeq(c, l - j, l)}
<1>6. ASSUME NEW k \in 1 .. l
      PROVE  f[c[k]] = <<c[k]>> \o f[next[c[k]]]
  <2>1. c[k] \in 0 .. N /\ c[k] # 0
    BY <1>3, <1>4 DEF Dll!Node
  <2>. QED
    BY <1>1, <2>1 DEF From
<1>7. ASSUME NEW k \in 1 .. l
      PROVE  SubSeq(c, k, l) = <<c[k]>> \o SubSeq(c, k + 1, l)
  BY <1>3, <1>4, SubSeqRecursiveFirst
<1>8. 0 \in G
  <2>. SUFFICES ASSUME 0 < l PROVE f[c[l]] = SubSeq(c, l, l)
    OBVIOUS
  <2>1. l \in 1 .. l /\ next[c[l]] = 0
    BY <1>4 DEF Linked, Forward
  <2>2. SubSeq(c, l + 1, l) = <<>>
    BY SubSeqEmpty
  <2>. QED
    BY <1>5, <1>6, <1>7, <2>1, <2>2
<1>9. ASSUME NEW j \in G PROVE j + 1 \in G
  <2>. SUFFICES ASSUME j + 1 < l PROVE f[c[l - (j + 1)]] = SubSeq(c, l - (j + 1), l)
    OBVIOUS
  <2>1. PICK k \in 1 .. l : k = l - (j + 1) /\ k < l /\ k + 1 = l - j
    <3>1. l - (j + 1) \in 1 .. l /\ l - (j + 1) < l /\ (l - (j + 1)) + 1 = l - j
      OBVIOUS
    <3>. QED
      BY <3>1
  <2>2. next[c[k]] = c[k + 1]
    BY <1>4, <2>1 DEF Linked, Forward
  <2>3. f[c[k + 1]] = SubSeq(c, k + 1, l)
    <3>1. j < l => f[c[l - j]] = SubSeq(c, l - j, l)
      BY <1>9
    <3>2. j < l
      BY <1>9, <2>1
    <3>. QED
      BY <2>1, <3>1, <3>2
  <2>. QED
    BY <1>6, <1>7, <2>1, <2>2, <2>3
<1>10. G = Nat
  <2>. HIDE DEF G
  <2>1. G \subseteq Nat
    BY DEF G
  <2>. QED
    BY <1>8, <1>9, <2>1, NatSteps
<1>11. CASE c = <<>>
  BY <1>2, <1>5, <1>11 DEF Linked, Forward, Ahead
<1>12. CASE c # <<>>
  <2>1. l - 1 \in Nat /\ l - 1 < l /\ l - (l - 1) = 1
    BY <1>3, <1>4, <1>12
  <2>2. f[c[1]] = SubSeq(c, 1, l)
    BY <1>10, <2>1
  <2>3. SubSeq(c, 1, l) = c
    BY <1>3, <1>4, SubSeqFull
  <2>. QED
    BY <1>2, <1>12, <2>2, <2>3 DEF Linked, Forward, Ahead
<1>. QED
  BY <1>11, <1>12

(* A sequence without its j-th element.                                    *)
Lacks(S, s, e, l, j) ==
  /\ e \in Seq(S) /\ Len(e) = l - 1
  /\ \A k \in 1 .. l - 1 : (k < j => e[k] = s[k]) /\ (k >= j => e[k] = s[k + 1])

LEMMA Without ==
  ASSUME NEW S, NEW s \in Seq(S), NEW l \in Nat, l = Len(s), NEW j \in 1 .. l
  PROVE  Lacks(S, s, Dll!RemoveAt(s, j), l, j)
<1>. DEFINE x == SubSeq(s, 1, j - 1)
            y == SubSeq(s, j + 1, l)
<1>1. \A i \in 1 .. l : s[i] \in S
  OBVIOUS
<1>2. x \in Seq(S) /\ Len(x) = j - 1 /\ \A k \in 1 .. j - 1 : x[k] = s[k]
  <2>1. 1 \in Int /\ j - 1 \in Int /\ \A i \in 1 .. j - 1 : i \in 1 .. l /\ 1 + i - 1 = i
    OBVIOUS
  <2>2. (IF 1 <= j - 1 THEN j - 1 - 1 + 1 ELSE 0) = j - 1 /\ j - 1 - 1 + 1 = j - 1
    OBVIOUS
  <2>3. /\ x \in Seq(S) /\ Len(x) = IF 1 <= j - 1 THEN j - 1 - 1 + 1 ELSE 0
        /\ \A i \in 1 .. j - 1 - 1 + 1 : x[i] = s[1 + i - 1]
    BY <1>1, <2>1, SubSeqProperties
  <2>. HIDE DEF x
  <2>. QED
    BY <2>1, <2>2, <2>3
<1>3. y \in Seq(S) /\ Len(y) = l - j /\ \A k \in 1 .. l - j : y[k] = s[j + k]
  <2>1. j + 1 \in Int /\ l \in Int /\ \A i \in j + 1 .. l : i \in 1 .. l
    OBVIOUS
  <2>2. (IF j + 1 <= l THEN l - (j + 1) + 1 ELSE 0) = l - j /\ l - (j + 1) + 1 = l - j
    OBVIOUS
  <2>3. /\ y \in Seq(S) /\ Len(y) = IF j + 1 <= l THEN l - (j + 1) + 1 ELSE 0
        /\ \A i \in 1 .. l - (j + 1) + 1 : y[i] = s[(j + 1) + i - 1]
    BY <1>1, <2>1, SubSeqProperties
  <2>4. \A i \in 1 .. l - j : (j + 1) + i - 1 = j + i
    OBVIOUS
  <2>. HIDE DEF y
  <2>. QED
    BY <2>2, <2>3, <2>4
<1>4. PICK e : e = x \o y /\ e = Dll!RemoveAt(s, j)
  BY DEF Dll!RemoveAt
<1>. HIDE DEF x, y
<1>5. /\ e \in Seq(S) /\ Len(e) = Len(x) + Len(y)
      /\ \A i \in 1 .. Len(x) + Len(y) : e[i] = IF i <= Len(x) THEN x[i] ELSE y[i - Len(x)]
  <2>1. /\ x \o y \in Seq(S) /\ Len(x \o y) = Len(x) + Len(y)
        /\ \A i \in 1 .. Len(x) + Len(y) : (x \o y)[i] = IF i <= Len(x) THEN x[i] ELSE y[i - Len(x)]
    BY <1>2, <1>3, ConcatProperties
  <2>. QED
    BY <1>4, <2>1
<1>6. Len(e) = l - 1
  BY <1>2, <1>3, <1>5
<1>7. ASSUME NEW k \in 1 .. l - 1
      PROVE  (k < j => e[k] = s[k]) /\ (k >= j => e[k] = s[k + 1])
  <2>1. e[k] = IF k <= j - 1 THEN x[k] ELSE y[k - (j - 1)]
    BY <1>2, <1>3, <1>5
  <2>2. CASE k < j
    BY <1>2, <2>1, <2>2
  <2>3. CASE ~(k < j)
    <3>1. k - (j - 1) \in 1 .. l - j /\ j + (k - (j - 1)) = k + 1 /\ ~(k <= j - 1)
      BY <2>3
    <3>. QED
      BY <1>3, <2>1, <2>3, <3>1
  <2>. QED
    BY <2>2, <2>3
<1>. QED
  BY <1>4, <1>5, <1>6, <1>7 DEF Lacks

(* The words along c, and the first node with the word w.                  *)
WordsOf(c) == [k \in 1 .. Len(c) |-> words[c[k]]]

Hit(c, w, j) ==
  /\ j \in 1 .. Len(c) /\ words[c[j]] = w
  /\ \A i \in 1 .. Len(c) : words[c[i]] = w => j <= i

LEMMA HitLeast ==
  ASSUME NEW c \in Seq(Dll!Node), NEW w, NEW i \in 1 .. Len(c), words[c[i]] = w
  PROVE  \E j : Hit(c, w, j)
<1>. DEFINE S == {k \in 1 .. Len(c) : words[c[k]] = w}
<1>1. PICK j \in S : \A m \in S : j <= m
  <2>1. S \in SUBSET Nat /\ S # {}
    OBVIOUS
  <2>. HIDE DEF S
  <2>. QED
    BY <2>1, LeastNat
<1>. QED
  BY <1>1 DEF Hit

LEMMA FirstRemoved ==
  ASSUME NEW c \in Seq(Dll!Node), words \in Seq(Content), Len(words) = N, NEW w, NEW j, Hit(c, w, j)
  PROVE  Dll!RemoveFirst(WordsOf(c), w) = WordsOf(Dll!RemoveAt(c, j))
<1>1. PICK l \in Nat : l = Len(c)
  OBVIOUS
<1>2. PICK s : s = WordsOf(c)
  OBVIOUS
<1>3. \A k \in 1 .. l : c[k] \in 1 .. N /\ words[c[k]] \in Content
  BY <1>1, DllConstants DEF Dll!Node
<1>4. s \in Seq(Content) /\ Len(s) = l /\ \A k \in 1 .. l : s[k] = words[c[k]]
  BY <1>1, <1>2, <1>3 DEF WordsOf
<1>5. j \in 1 .. l /\ s[j] = w /\ \A i \in 1 .. l : s[i] = w => j <= i
  BY <1>1, <1>4 DEF Hit
<1>6. Dll!RemoveFirst(s, w) = Dll!RemoveAt(s, j)
  <2>. DEFINE I == {i \in DOMAIN s : s[i] = w}
              f == CHOOSE k \in I : \A m \in I : k <= m
  <2>1. j \in I /\ \A i \in I : j <= i /\ i \in Nat
    BY <1>4, <1>5
  <2>2. Dll!RemoveFirst(s, w) = IF I = {} THEN s ELSE Dll!RemoveAt(s, f)
    BY Zenon DEF Dll!RemoveFirst
  <2>. HIDE DEF I
  <2>3. f \in I /\ \A i \in I : f <= i
    BY <2>1
  <2>. HIDE DEF f
  <2>4. PICK k \in I : k = f /\ k \in Nat /\ j \in Nat /\ k <= j /\ j <= k
    BY <2>1, <2>3
  <2>5. f = j
    BY <2>4
  <2>. QED
    BY <2>1, <2>2, <2>5
<1>7. PICK e, d : e = Dll!RemoveAt(c, j) /\ d = Dll!RemoveAt(s, j)
  OBVIOUS
<1>8. Lacks(Dll!Node, c, e, l, j)
  BY <1>1, <1>5, <1>7, Without
<1>9. Lacks(Content, s, d, l, j)
  BY <1>4, <1>5, <1>7, Without
<1>10. PICK t : t = WordsOf(e)
  OBVIOUS
<1>11. \A k \in 1 .. l - 1 : k \in 1 .. l /\ k + 1 \in 1 .. l
  BY <1>1
<1>12. t \in Seq(Content) /\ Len(t) = l - 1 /\ \A k \in 1 .. l - 1 : t[k] = words[e[k]]
  <2>1. \A k \in 1 .. l - 1 : words[e[k]] \in Content
    <3>. TAKE k \in 1 .. l - 1
    <3>1. e[k] = c[k] \/ e[k] = c[k + 1]
      BY <1>5, <1>8 DEF Lacks
    <3>. QED
      BY <1>3, <1>11, <3>1
  <2>2. l - 1 \in Nat
    BY <1>5
  <2>. QED
    BY <1>8, <1>10, <2>1, <2>2 DEF WordsOf, Lacks
<1>13. \A k \in 1 .. l - 1 : t[k] = d[k]
  <2>. TAKE k \in 1 .. l - 1
  <2>1. k \in 1 .. l /\ k + 1 \in 1 .. l /\ t[k] = words[e[k]]
    BY <1>11, <1>12
  <2>2. CASE k < j
    <3>1. e[k] = c[k] /\ d[k] = s[k]
      BY <1>8, <1>9, <2>2 DEF Lacks
    <3>. QED
      BY <1>4, <2>1, <3>1
  <2>3. CASE ~(k < j)
    <3>1. e[k] = c[k + 1] /\ d[k] = s[k + 1]
      BY <1>5, <1>8, <1>9, <2>3 DEF Lacks
    <3>. QED
      BY <1>4, <2>1, <3>1
  <2>. QED
    BY <2>2, <2>3
<1>14. t = d
  BY <1>9, <1>12, <1>13, SeqEqual DEF Lacks
<1>. QED
  BY <1>2, <1>6, <1>7, <1>10, <1>14

(* dlist_remove() goes along the list up to the first node with the word.  *)
LEMMA VisitedIs ==
  ASSUME NEW c, Linked(c), c # <<>>, NEW w
  PROVE  /\ \A n \in Dll!Range(Dll!Visited(w)) : n \notin freed
         /\ \A j : Hit(c, w, j) => Dll!StopsAt(w) = c[j]
         /\ (\A j : ~ Hit(c, w, j)) => words[Dll!StopsAt(w)] # w
<1>1. c \in Seq(Dll!Node) /\ Dll!Chain = c
  BY ChainIs DEF Linked, Nodes
<1>2. PICK l \in Nat : l = Len(c)
  BY <1>1
<1>3. l >= 1
  BY <1>1, <1>2
<1>. DEFINE I == {k \in 1 .. l : words[c[k]] = w}
<1>4. PICK v : v = Dll!Visited(w)
  OBVIOUS
<1>5. v = IF I = {} THEN c ELSE SubSeq(c, 1, CHOOSE k \in I : \A m \in I : k <= m)
  <2>1. {k \in DOMAIN c : words[c[k]] = w} = I
    BY <1>1, <1>2
  <2>2. Dll!Visited(w) = LET H == {k \in DOMAIN c : words[c[k]] = w} IN
          IF H = {} THEN c ELSE SubSeq(c, 1, CHOOSE k \in H : \A m \in H : k <= m)
    BY <1>1 DEF Dll!Visited
  <2>. HIDE DEF I
  <2>. QED
    BY <1>4, <2>1, <2>2
<1>6. \A j : Hit(c, w, j) <=> j \in I /\ \A m \in I : j <= m
  <2>. TAKE j
  <2>1. Hit(c, w, j) <=> /\ j \in 1 .. l /\ words[c[j]] = w
                         /\ \A i \in 1 .. l : (words[c[i]] = w => j <= i)
    BY <1>2 DEF Hit
  <2>2. \A i : i \in I <=> i \in 1 .. l /\ words[c[i]] = w
    OBVIOUS
  <2>. HIDE DEF I
  <2>3. (\A m \in I : j <= m) <=> \A i \in 1 .. l : (words[c[i]] = w => j <= i)
    BY <2>2
  <2>. QED
    BY <2>1, <2>2, <2>3
<1>. HIDE DEF I
<1>7. ASSUME NEW m \in 1 .. l, v \in Seq(Dll!Node), Len(v) = m, \A i \in 1 .. m : v[i] = c[i]
      PROVE  (\A n \in Dll!Range(Dll!Visited(w)) : n \notin freed) /\ Dll!StopsAt(w) = c[m]
  <2>1. v[Len(v)] = c[m]
    BY <1>7
  <2>2. ASSUME NEW i \in 1 .. m PROVE v[i] \notin freed
    <3>1. v[i] = c[i] /\ i \in 1 .. l /\ c[i] \in Dll!Node
      BY <1>1, <1>2, <1>7
    <3>. QED
      BY <1>2, <3>1 DEF Linked
  <2>3. \A n \in Dll!Range(v) : \E i \in 1 .. m : n = v[i]
    BY <1>7 DEF Dll!Range
  <2>. QED
    BY <1>4, <2>1, <2>2, <2>3 DEF Dll!StopsAt
<1>8. CASE I = {}
  <2>1. Dll!StopsAt(w) = c[l] /\ \A n \in Dll!Range(Dll!Visited(w)) : n \notin freed
    BY <1>1, <1>2, <1>3, <1>5, <1>7, <1>8
  <2>2. words[c[l]] # w
    BY <1>3, <1>8 DEF I
  <2>. QED
    BY <1>6, <1>8, <2>1, <2>2
<1>9. CASE I # {}
  <2>1. I \in SUBSET Nat
    BY DEF I
  <2>2. PICK j \in I : \A m \in I : j <= m
    BY <1>9, <2>1, LeastNat
  <2>3. \A k \in I : (\A m \in I : k <= m) => k = j
    BY <2>1, <2>2
  <2>4. (CHOOSE k \in I : \A m \in I : k <= m) = j
    BY <2>2, <2>3
  <2>5. j \in 1 .. l
    BY <2>2 DEF I
  <2>6. v = SubSeq(c, 1, j)
    BY <1>5, <1>9, <2>4
  <2>7. v \in Seq(Dll!Node) /\ Len(v) = j /\ \A i \in 1 .. j : v[i] = c[i]
    BY <1>1, <1>2, <2>5, <2>6
  <2>8. Dll!StopsAt(w) = c[j] /\ \A n \in Dll!Range(Dll!Visited(w)) : n \notin freed
    BY <1>7, <2>5, <2>7
  <2>. QED
    BY <1>6, <2>2, <2>3, <2>8
<1>. QED
  BY <1>8, <1>9

Cut(c, j) == Dll!Unlink(c[j]) /\ freed' = freed \cup {c[j]}

CanCut(c, j) == Len(c) > 1 /\ prev[c[j]] \notin freed

LEMMA AtTheEnds ==
  ASSUME NEW c, Linked(c), NEW j \in 1 .. Len(c)
  PROVE  /\ c[j] \in Dll!Node /\ c[j] \notin freed
         /\ prev[c[j]] = 0 <=> j = 1
         /\ next[c[j]] = 0 <=> j = Len(c)
<1>1. PICK l \in Nat : l = Len(c)
  BY DEF Linked, Nodes
<1>2. N \in Nat /\ j \in 1 .. l /\ c \in Seq(Dll!Node) /\ \A k \in 1 .. l : c[k] \in 1 .. N
  BY <1>1, DllConstants DEF Linked, Nodes, Dll!Node
<1>3. c[j] \in Dll!Node /\ c[j] \notin freed
  BY <1>1, <1>2 DEF Linked, Dll!Node
<1>4. prev[c[j]] = 0 <=> j = 1
  <2>1. CASE j = 1
    <3>1. c # <<>>
      BY <1>1, <1>2
    <3>. QED
      BY <2>1, <3>1 DEF Linked, Backward
  <2>2. CASE j # 1
    <3>1. j \in 2 .. l /\ j - 1 \in 1 .. l
      BY <1>2, <2>2
    <3>2. prev[c[j]] = c[j - 1] \/ prev[c[j]] \in freed
      BY <1>1, <3>1 DEF Linked, Backward
    <3>3. \A n \in freed : n \in 1 .. N
      BY DEF Linked, Dll!Node
    <3>4. c[j - 1] \in 1 .. N
      BY <1>2, <3>1
    <3>. QED
      BY <1>2, <2>2, <3>2, <3>3, <3>4
  <2>. QED
    BY <2>1, <2>2
<1>5. next[c[j]] = 0 <=> j = l
  <2>1. next[c[j]] = IF j < l THEN c[j + 1] ELSE 0
    BY <1>1, <1>2 DEF Linked, Forward
  <2>2. CASE j = l
    BY <1>2, <2>1, <2>2
  <2>3. CASE j # l
    <3>1. j < l /\ j + 1 \in 1 .. l
      BY <1>2, <2>3
    <3>2. c[j + 1] \in 1 .. N
      BY <1>2, <3>1
    <3>. QED
      BY <1>2, <2>1, <2>3, <3>1, <3>2
  <2>. QED
    BY <2>2, <2>3
<1>. QED
  BY <1>1, <1>3, <1>4, <1>5

LEMMA Removed ==
  ASSUME NEW c, Linked(c), c # <<>>, NEW w, Dll!dlist_remove(w), health = "ok"
  PROVE  \/ health' # "ok" /\ \A j : Hit(c, w, j) => ~ CanCut(c, j)
         \/ health' = "ok" /\ \E j : Hit(c, w, j) /\ CanCut(c, j) /\ Cut(c, j)
<1>1. c \in Seq(Dll!Node) /\ head = c[1]
  BY DEF Linked, Nodes, Forward, Ahead
<1>2. PICK l \in Nat : l = Len(c)
  BY <1>1
<1>3. l >= 1
  BY <1>1, <1>2
<1>4. head # Dll!Null
  <2>1. c[1] \in Dll!Node
    BY <1>2, <1>3, AtTheEnds
  <2>. QED
    BY <1>1, <2>1, DllConstants DEF Dll!Node, Dll!Null
<1>5. PICK d : d = Dll!StopsAt(w)
  OBVIOUS
<1>6. \A n \in Dll!Range(Dll!Visited(w)) : n \notin freed
  BY VisitedIs
<1>7. \/ health' = "crash" /\ (words[d] # w \/ (prev[d] = 0 /\ next[d] = 0))
      \/ health' = "stray" /\ prev[d] \in freed
      \/ /\ words[d] = w /\ ~ (prev[d] = 0 /\ next[d] = 0) /\ prev[d] \notin freed
         /\ Dll!Unlink(d) /\ freed' = freed \cup {d} /\ health' = health
  BY <1>4, <1>5, <1>6 DEF Dll!dlist_remove, Dll!Null
<1>8. CASE \A j : ~ Hit(c, w, j)
  <2>1. words[d] # w
    BY <1>5, <1>8, VisitedIs
  <2>2. health' # "ok"
    BY <1>7, <2>1
  <2>. QED
    BY <1>8, <2>2
<1>9. CASE \E j : Hit(c, w, j)
  <2>1. PICK j : Hit(c, w, j)
    BY <1>9
  <2>2. d = c[j] /\ words[d] = w /\ j \in 1 .. l
    BY <1>2, <1>5, <2>1, VisitedIs DEF Hit
  <2>3. \A i : Hit(c, w, i) => i = j
    BY <1>2, <2>1 DEF Hit
  <2>4. (prev[d] = 0 /\ next[d] = 0) <=> ~ (l > 1)
    BY <1>2, <1>3, <2>2, AtTheEnds
  <2>5. CanCut(c, j) <=> ~ (prev[d] = 0 /\ next[d] = 0) /\ prev[d] \notin freed
    BY <1>2, <2>2, <2>4 DEF CanCut
  <2>6. CASE CanCut(c, j)
    <3>1. Cut(c, j) /\ health' = "ok"
      BY <1>7, <2>2, <2>5, <2>6 DEF Cut
    <3>. QED
      BY <2>1, <2>6, <3>1
  <2>7. CASE ~ CanCut(c, j)
    <3>1. health' # "ok"
      BY <1>7, <2>2, <2>5, <2>7
    <3>. QED
      BY <2>3, <2>7, <3>1
  <2>. QED
    BY <2>6, <2>7
<1>. QED
  BY <1>8, <1>9

(* What Cut() does: the links of the node before and of the node behind.   *)
LEMMA CutSteps ==
  ASSUME NEW c, Linked(c), NEW j \in 1 .. Len(c), CanCut(c, j), Cut(c, j)
  PROVE  /\ freed' = freed \cup {c[j]}
         /\ j = 1 => /\ head' = c[2] /\ next' = next
                     /\ prev' = [prev EXCEPT ![c[2]] = 0]
         /\ j # 1 => /\ head' = head /\ prev' = prev
                     /\ next' = [next EXCEPT ![c[j - 1]] = next[c[j]]]
<1>1. PICK l \in Nat : l = Len(c)
  BY DEF Linked, Nodes
<1>2. prev[c[j]] = 0 <=> j = 1
  BY AtTheEnds
<1>3. freed' = freed \cup {c[j]} /\ Dll!Unlink(c[j])
  BY DEF Cut
<1>4. CASE j = 1
  <2>1. 1 \in 1 .. l /\ 1 < l
    BY <1>1, <1>4 DEF CanCut
  <2>2. next[c[1]] = c[2]
    BY <1>1, <2>1 DEF Linked, Forward
  <2>. QED
    BY <1>2, <1>3, <1>4, <2>2 DEF Dll!Unlink, Dll!Null
<1>5. CASE j # 1
  <2>1. j \in 2 .. l
    BY <1>1, <1>5
  <2>2. prev[c[j]] = c[j - 1]
    BY <1>1, <2>1 DEF Linked, Backward, CanCut
  <2>. QED
    BY <1>2, <1>3, <1>5, <2>2 DEF Dll!Unlink, Dll!Null
<1>. QED
  BY <1>4, <1>5

LEMMA StillLinked ==
  ASSUME NEW c, Linked(c), NEW j \in 1 .. Len(c), CanCut(c, j), Cut(c, j),
         NEW e, e = Dll!RemoveAt(c, j)
  PROVE  Linked(e)' /\ Len(e) = Len(c) - 1
<1>1. PICK l \in Nat : l = Len(c)
  BY DEF Linked, Nodes
<1>2. N \in Nat /\ c \in Seq(Dll!Node) /\ j \in 1 .. l /\ l > 1
  BY <1>1, DllConstants DEF Linked, Nodes, CanCut
<1>3. e \in Seq(Dll!Node) /\ Len(e) = l - 1
      /\ \A k \in 1 .. l - 1 : (k < j => e[k] = c[k]) /\ (k >= j => e[k] = c[k + 1])
  <2>1. Lacks(Dll!Node, c, e, l, j)
    BY <1>1, <1>2, Without
  <2>. QED
    BY <2>1 DEF Lacks
<1>4. \A k \in 1 .. l : c[k] \in Dll!Node /\ c[k] \in 1 .. N
  BY <1>1, <1>2 DEF Dll!Node
<1>5. \A i, k \in 1 .. l : (i < k => c[i] < c[k]) /\ (i # k => c[i] # c[k])
  <2>1. \A i, k \in 1 .. l : i < k => c[i] < c[k]
    BY <1>1 DEF Linked, Nodes
  <2>2. \A i, k \in 1 .. l : i < k => c[i] # c[k]
    BY <1>4, <2>1
  <2>3. \A i, k \in 1 .. l : i = k \/ i < k \/ k < i
    OBVIOUS
  <2>. QED
    BY <2>1, <2>2, <2>3
<1>6. \A k \in 1 .. l : next[c[k]] = IF k < l THEN c[k + 1] ELSE 0
  BY <1>1 DEF Linked, Forward
<1>7. /\ freed' = freed \cup {c[j]}
      /\ j = 1 => /\ head' = c[2] /\ next' = next
                  /\ prev' = [prev EXCEPT ![c[2]] = 0]
      /\ j # 1 => /\ head' = head /\ prev' = prev
                  /\ next' = [next EXCEPT ![c[j - 1]] = next[c[j]]]
  BY CutSteps
<1>8. /\ next \in [Dll!Node -> 0 .. N] /\ \A n \in Dll!Node : next[n] = 0 \/ next[n] > n
      /\ prev \in [Dll!Node -> 0 .. N]
  BY DEF Linked, Onward, Backward
<1>9. \A k \in 1 .. l - 1 : k \in 1 .. l /\ k + 1 \in 1 .. l
  BY <1>2
<1>10. \A i, k \in 1 .. l - 1 : i < k => e[i] < e[k]
  <2>. TAKE i, k \in 1 .. l - 1
  <2>. HAVE i < k
  <2>1. i \in 1 .. l /\ i + 1 \in 1 .. l /\ k \in 1 .. l /\ k + 1 \in 1 .. l
    BY <1>9
  <2>2. CASE k < j
    <3>1. i < j
      BY <1>2, <2>2
    <3>2. e[i] = c[i] /\ e[k] = c[k]
      BY <1>3, <2>2, <3>1
    <3>. QED
      BY <1>5, <2>1, <3>2
  <2>3. CASE i >= j
    <3>1. k >= j /\ i + 1 < k + 1
      BY <1>2, <2>3
    <3>2. e[i] = c[i + 1] /\ e[k] = c[k + 1]
      BY <1>3, <2>3, <3>1
    <3>. QED
      BY <1>5, <2>1, <3>1, <3>2
  <2>4. CASE i < j /\ k >= j
    <3>1. i < k + 1
      BY <1>2, <2>4
    <3>2. e[i] = c[i] /\ e[k] = c[k + 1]
      BY <1>3, <2>4
    <3>. QED
      BY <1>5, <2>1, <3>1, <3>2
  <2>. QED
    BY <1>2, <2>2, <2>3, <2>4
<1>11. Nodes(e)
  BY <1>3, <1>10 DEF Nodes
<1>12. Onward(next)'
  <2>1. CASE j = 1
    BY <1>7, <2>1 DEF Linked, Onward
  <2>2. CASE j # 1
    <3>1. j - 1 \in 1 .. l /\ j - 1 < j
      BY <1>2, <2>2
    <3>2. c[j - 1] < c[j]
      BY <1>2, <1>5, <3>1
    <3>3. c[j - 1] \in 1 .. N /\ c[j] \in 1 .. N
      BY <1>2, <1>4, <3>1
    <3>4. c[j] \in Dll!Node /\ next[c[j]] \in 0 .. N /\ (next[c[j]] = 0 \/ next[c[j]] > c[j])
      BY <1>2, <1>4, <1>8
    <3>5. next[c[j]] = 0 \/ next[c[j]] > c[j - 1]
      BY <3>2, <3>3, <3>4
    <3>6. PICK a, b : a = c[j - 1] /\ b = next[c[j]]
      OBVIOUS
    <3>7. next' = [next EXCEPT ![a] = b] /\ b \in 0 .. N /\ (b = 0 \/ b > a)
      BY <1>7, <2>2, <3>4, <3>5, <3>6
    <3>8. next' \in [Dll!Node -> 0 .. N]
      BY <1>8, <3>7
    <3>9. \A n \in Dll!Node : next'[n] = 0 \/ next'[n] > n
      BY <1>8, <3>7
    <3>. QED
      BY <3>8, <3>9 DEF Onward
  <2>. QED
    BY <2>1, <2>2
<1>13. Forward(e)'
  <2>1. head' = e[1]
    <3>1. 1 \in 1 .. l - 1 /\ 1 + 1 = 2
      BY <1>2
    <3>2. CASE j = 1
      <4>1. e[1] = c[2]
        BY <1>3, <3>1, <3>2
      <4>. QED
        BY <1>7, <3>2, <4>1
    <3>3. CASE j # 1
      <4>1. e[1] = c[1]
        BY <1>2, <1>3, <3>1, <3>3
      <4>2. c # <<>>
        BY <1>1, <1>2
      <4>. QED
        BY <1>7, <3>3, <4>1, <4>2 DEF Linked, Forward, Ahead
    <3>. QED
      BY <3>2, <3>3
  <2>2. ASSUME NEW k \in 1 .. l - 1
        PROVE  next'[e[k]] = IF k < l - 1 THEN e[k + 1] ELSE 0
    <3>1. k \in 1 .. l /\ k + 1 \in 1 .. l
      BY <1>9
    <3>2. k < l - 1 => k + 1 \in 1 .. l - 1 /\ k + 2 \in 1 .. l /\ (k + 1) + 1 = k + 2
      BY <1>2
    <3>3. CASE k >= j
      <4>1. e[k] = c[k + 1] /\ (k < l - 1 => e[k + 1] = c[k + 2])
        BY <1>2, <1>3, <3>2, <3>3
      <4>2. next[c[k + 1]] = IF k < l - 1 THEN c[k + 2] ELSE 0
        BY <1>2, <1>6, <3>1, <3>2
      <4>3. next'[c[k + 1]] = next[c[k + 1]]
        <5>1. CASE j = 1
          BY <1>7, <5>1
        <5>2. CASE j # 1
          <6>1. j - 1 \in 1 .. l /\ j - 1 # k + 1
            BY <1>2, <3>3, <5>2
          <6>2. c[j - 1] # c[k + 1] /\ c[k + 1] \in Dll!Node
            BY <1>4, <1>5, <3>1, <6>1
          <6>. QED
            BY <1>7, <1>8, <5>2, <6>2
        <5>. QED
          BY <5>1, <5>2
      <4>. QED
        BY <4>1, <4>2, <4>3
    <3>4. CASE k = j - 1
      <4>1. j # 1 /\ k < j /\ k + 1 = j
        BY <1>2, <3>4
      <4>2. e[k] = c[k] /\ c[k] \in Dll!Node
        BY <1>3, <1>4, <3>1, <4>1
      <4>3. next'[c[k]] = next[c[j]]
        BY <1>7, <1>8, <3>4, <4>1, <4>2
      <4>4. next[c[j]] = IF k < l - 1 THEN c[j + 1] ELSE 0
        BY <1>2, <1>6, <3>4
      <4>5. k < l - 1 => e[k + 1] = c[j + 1]
        BY <1>2, <1>3, <3>2, <4>1
      <4>. QED
        BY <4>2, <4>3, <4>4, <4>5
    <3>5. CASE k < j - 1
      <4>1. j # 1 /\ k < j /\ k + 1 < j /\ k < l - 1 /\ k < l
        BY <1>2, <3>1, <3>5
      <4>2. e[k] = c[k] /\ e[k + 1] = c[k + 1] /\ c[k] \in Dll!Node
        BY <1>3, <1>4, <3>1, <3>2, <4>1
      <4>3. j - 1 \in 1 .. l /\ j - 1 # k
        BY <1>2, <3>5
      <4>4. c[j - 1] # c[k]
        BY <1>5, <3>1, <4>3
      <4>5. next'[c[k]] = next[c[k]]
        BY <1>7, <1>8, <4>1, <4>2, <4>4
      <4>6. next[c[k]] = c[k + 1]
        BY <1>6, <3>1, <4>1
      <4>. QED
        BY <4>1, <4>2, <4>5, <4>6
    <3>. QED
      BY <1>2, <3>3, <3>4, <3>5
  <2>3. e # <<>>
    BY <1>2, <1>3
  <2>4. head' = Ahead(e)
    BY <2>1, <2>3 DEF Ahead
  <2>. QED
    BY <1>3, <2>2, <2>4 DEF Forward
<1>14. Backward(e)'
  <2>1. ASSUME NEW k \in 1 .. l, j # 1 \/ k # 2
        PROVE  prev'[c[k]] = prev[c[k]]
    <3>1. CASE j # 1
      BY <1>7, <3>1
    <3>2. CASE j = 1
      <4>1. 2 \in 1 .. l
        BY <1>2
      <4>2. c[k] # c[2] /\ c[k] \in Dll!Node
        BY <1>4, <1>5, <2>1, <3>2, <4>1
      <4>. QED
        BY <1>7, <1>8, <3>2, <4>2
    <3>. QED
      BY <3>1, <3>2
  <2>2. prev' \in [Dll!Node -> 0 .. N]
    <3>1. CASE j = 1
      <4>1. 2 \in 1 .. l
        BY <1>2
      <4>2. c[2] \in Dll!Node /\ 0 \in 0 .. N
        BY <1>2, <1>4, <4>1
      <4>. QED
        BY <1>7, <1>8, <3>1, <4>2
    <3>2. CASE j # 1
      BY <1>7, <1>8, <3>2
    <3>. QED
      BY <3>1, <3>2
  <2>3. prev'[e[1]] = 0
    <3>1. 1 \in 1 .. l - 1 /\ 1 + 1 = 2 /\ 2 \in 1 .. l /\ 1 \in 1 .. l
      BY <1>2
    <3>2. CASE j = 1
      <4>1. e[1] = c[2] /\ c[2] \in Dll!Node
        BY <1>3, <1>4, <3>1, <3>2
      <4>. QED
        BY <1>7, <1>8, <3>2, <4>1
    <3>3. CASE j # 1
      <4>1. e[1] = c[1]
        BY <1>2, <1>3, <3>1, <3>3
      <4>2. c # <<>>
        BY <1>1, <1>2
      <4>3. prev[c[1]] = 0
        BY <4>2 DEF Linked, Backward
      <4>. QED
        BY <2>1, <3>1, <3>3, <4>1, <4>3
    <3>. QED
      BY <3>2, <3>3
  <2>4. ASSUME NEW k \in 2 .. l
        PROVE  prev[c[k]] = c[k - 1] \/ prev[c[k]] \in freed'
    BY <1>1, <1>7 DEF Linked, Backward
  <2>5. ASSUME NEW k \in 2 .. l - 1
        PROVE  prev'[e[k]] = e[k - 1] \/ prev'[e[k]] \in freed'
    <3>1. /\ k \in 1 .. l - 1 /\ k - 1 \in 1 .. l - 1 /\ k \in 2 .. l /\ k + 1 \in 2 .. l
          /\ k \in 1 .. l /\ k + 1 \in 1 .. l /\ k + 1 # 2 /\ (k - 1) + 1 = k /\ (k + 1) - 1 = k
      BY <1>2
    <3>2. CASE k < j
      <4>1. k - 1 < j /\ j # 1
        BY <1>2, <3>2
      <4>2. e[k] = c[k] /\ e[k - 1] = c[k - 1]
        BY <1>3, <3>1, <3>2, <4>1
      <4>. QED
        BY <2>1, <2>4, <3>1, <4>1, <4>2
    <3>3. CASE k = j
      <4>1. e[k] = c[k + 1] /\ c[k] \in freed'
        BY <1>2, <1>3, <1>7, <3>1, <3>3
      <4>2. prev[c[k + 1]] = c[k] \/ prev[c[k + 1]] \in freed'
        BY <2>4, <3>1
      <4>3. prev'[c[k + 1]] = prev[c[k + 1]]
        BY <2>1, <3>1
      <4>. QED
        BY <4>1, <4>2, <4>3
    <3>4. CASE k > j
      <4>1. k - 1 >= j /\ k >= j
        BY <1>2, <3>4
      <4>2. e[k] = c[k + 1] /\ e[k - 1] = c[k]
        BY <1>3, <3>1, <4>1
      <4>3. prev[c[k + 1]] = c[k] \/ prev[c[k + 1]] \in freed'
        BY <2>4, <3>1
      <4>4. prev'[c[k + 1]] = prev[c[k + 1]]
        BY <2>1, <3>1
      <4>. QED
        BY <4>2, <4>3, <4>4
    <3>. QED
      BY <1>2, <3>2, <3>3, <3>4
  <2>. QED
    BY <1>3, <2>2, <2>3, <2>5 DEF Backward
<1>15. freed' \subseteq Dll!Node
  <2>1. freed \subseteq Dll!Node
    BY DEF Linked
  <2>. QED
    BY <1>2, <1>4, <1>7, <2>1
<1>16. \A n \in Dll!Node : n \in freed' <=> \A k \in 1 .. l - 1 : e[k] # n
  <2>. TAKE n \in Dll!Node
  <2>1. n \in freed <=> \A k \in 1 .. l : c[k] # n
    BY <1>1 DEF Linked
  <2>2. ASSUME NEW k \in 1 .. l - 1, e[k] = n PROVE n \notin freed'
    <3>1. k \in 1 .. l /\ k + 1 \in 1 .. l
      BY <1>9
    <3>2. CASE k < j
      <4>1. n = c[k] /\ k # j
        BY <1>2, <1>3, <2>2, <3>2
      <4>. QED
        BY <1>2, <1>5, <1>7, <2>1, <3>1, <4>1
    <3>3. CASE k >= j
      <4>1. n = c[k + 1] /\ k + 1 # j
        BY <1>2, <1>3, <2>2, <3>3
      <4>. QED
        BY <1>2, <1>5, <1>7, <2>1, <3>1, <4>1
    <3>. QED
      BY <1>2, <3>2, <3>3
  <2>3. ASSUME n \notin freed' PROVE \E k \in 1 .. l - 1 : e[k] = n
    <3>1. PICK i \in 1 .. l : c[i] = n /\ i # j
      BY <1>2, <1>7, <2>1, <2>3
    <3>2. CASE i < j
      <4>1. i \in 1 .. l - 1
        BY <1>2, <3>2
      <4>. QED
        BY <1>3, <3>1, <3>2, <4>1
    <3>3. CASE i > j
      <4>1. i - 1 \in 1 .. l - 1 /\ i - 1 >= j /\ (i - 1) + 1 = i
        BY <1>2, <3>3
      <4>. QED
        BY <1>3, <3>1, <4>1
    <3>. QED
      BY <1>2, <3>1, <3>2, <3>3
  <2>. QED
    BY <2>2, <2>3
<1>. QED
  BY <1>1, <1>3, <1>11, <1>12, <1>13, <1>14, <1>15, <1>16 DEF Linked

(* Before the first removal: the nodes 1 to Len(words), in this order.     *)
Fresh ==
  /\ head = IF Len(words) = 0 THEN 0 ELSE 1
  /\ tail = Len(words)
  /\ next = [n \in Dll!Node |-> IF n < Len(words) THEN n + 1 ELSE 0]
  /\ prev = [n \in Dll!Node |-> IF n \in 2 .. Len(words) THEN n - 1 ELSE 0]
  /\ freed = {} /\ picked = 0 /\ health = "ok"

(* The words after one, two and three removals.                            *)
One   == Dll!RemoveFirst(words, words[picked])
Two   == Dll!RemoveFirst(One, words[1])
Three == Dll!RemoveFirst(Two, words[N])

OnList(c) ==
  /\ Linked(c) /\ c # <<>> /\ Len(c) = N + 1 - step
  /\ WordsOf(c) = IF step = 2 THEN One ELSE IF step = 3 THEN Two ELSE Three

(* Of words that all differ, the ones removed so far.                      *)
Gone(c) ==
  /\ step = 2 => freed = {picked} /\ (picked # 1 => N > 1 /\ prev[N] = N - 1)
  /\ step = 3 => picked # 1 /\ freed = {1, picked} /\ (Len(c) = 1 \/ prev[N] = N - 1)
  /\ step = 4 => picked \notin {1, N - 1, N}

DllInv ==
  /\ words \in Seq(Content) /\ Len(words) <= N /\ step \in 0 .. 5
  /\ step <= 1 => Fresh
  /\ step >= 1 => Len(words) = N
  /\ step >= 2 => picked \in Dll!Node
  /\ step \in 2 .. 4 /\ health = "ok" => \E c : OnList(c) /\ (Dll!IsInjective(words) => Gone(c))
  /\ step >= 2 /\ Dll!IsInjective(words) /\ health # "ok" => picked \in {1, N - 1, N}
  /\ step = 5 /\ health = "ok" =>
       /\ traversed = Three /\ freed = Dll!Node
       /\ Dll!IsInjective(words) => picked \notin {1, N - 1, N}

LEMMA DllInit == Dll!Init => DllInv
<1>. SUFFICES ASSUME Dll!Init PROVE DllInv
  OBVIOUS
<1>1. N \in Nat /\ words = <<>> /\ step = 0
  BY DllConstants DEF Dll!Init
<1>2. words \in Seq(Content) /\ Len(words) = 0
  BY <1>1
<1>3. Fresh
  <2>1. next = [n \in Dll!Node |-> IF n < 0 THEN n + 1 ELSE 0]
    BY DEF Dll!Init, Dll!Null, Dll!Node
  <2>2. prev = [n \in Dll!Node |-> IF n \in 2 .. 0 THEN n - 1 ELSE 0]
    BY DEF Dll!Init, Dll!Null, Dll!Node
  <2>. QED
    BY <1>2, <2>1, <2>2 DEF Fresh, Dll!Init, Dll!Null
<1>. QED
  BY <1>1, <1>2, <1>3 DEF DllInv

LEMMA DllInsert ==
  ASSUME DllInv, Dll!Insert
  PROVE  DllInv'
<1>1. /\ N \in Nat /\ words \in Seq(Content) /\ Len(words) < N
  BY DllConstants DEF DllInv, Dll!Insert
<1>2. PICK l \in Nat : l = Len(words)
  BY <1>1
<1>3. step = 0 /\ Fresh
  BY <1>1, <1>2 DEF DllInv
<1>4. PICK w \in Content : words' = Append(words, w)
  BY DEF Dll!Insert
<1>5. words' \in Seq(Content) /\ Len(words') = l + 1
  BY <1>1, <1>2, <1>4
<1>6. step' = step /\ freed' = freed /\ picked' = picked /\ health' = health
  BY DEF Dll!Insert
<1>7. /\ tail' = l + 1
      /\ head = 0 => head' = l + 1 /\ next' = next /\ prev' = prev
      /\ head # 0 => /\ head' = head /\ next' = [next EXCEPT ![tail] = l + 1]
                     /\ prev' = [prev EXCEPT ![l + 1] = tail]
  BY <1>2 DEF Dll!Insert, Dll!Null
<1>8. /\ head = IF l = 0 THEN 0 ELSE 1
      /\ tail = l
      /\ next = [n \in 1 .. N |-> IF n < l THEN n + 1 ELSE 0]
      /\ prev = [n \in 1 .. N |-> IF n \in 2 .. l THEN n - 1 ELSE 0]
  BY <1>2, <1>3 DEF Fresh, Dll!Node
<1>9. /\ head' = 1
      /\ next' = [n \in 1 .. N |-> IF n < l + 1 THEN n + 1 ELSE 0]
      /\ prev' = [n \in 1 .. N |-> IF n \in 2 .. l + 1 THEN n - 1 ELSE 0]
  <2>1. CASE l = 0
    <3>1. head' = 1 /\ next' = next /\ prev' = prev
      BY <1>7, <1>8, <2>1
    <3>2. \A n \in 1 .. N : (n < l <=> n < l + 1) /\ (n \in 2 .. l <=> n \in 2 .. l + 1)
      BY <1>1, <2>1
    <3>. QED
      BY <1>8, <3>1, <3>2
  <2>2. CASE l # 0
    <3>1. head' = 1 /\ next' = [next EXCEPT ![l] = l + 1] /\ prev' = [prev EXCEPT ![l + 1] = l]
      BY <1>7, <1>8, <2>2
    <3>2. l \in 1 .. N /\ l + 1 \in 1 .. N
      BY <1>1, <1>2, <2>2
    <3>3. next' = [n \in 1 .. N |-> IF n < l + 1 THEN n + 1 ELSE 0]
      <4>1. DOMAIN next = 1 .. N /\ \A n \in 1 .. N : next[n] = IF n < l THEN n + 1 ELSE 0
        BY <1>8
      <4>2. next' = [n \in 1 .. N |-> IF n = l THEN l + 1 ELSE next[n]]
        BY <3>1, <4>1
      <4>3. \A n \in 1 .. N : (IF n = l THEN l + 1 ELSE next[n]) = IF n < l + 1 THEN n + 1 ELSE 0
        BY <1>2, <4>1
      <4>. QED
        BY <4>2, <4>3
    <3>4. prev' = [n \in 1 .. N |-> IF n \in 2 .. l + 1 THEN n - 1 ELSE 0]
      <4>1. DOMAIN prev = 1 .. N /\ \A n \in 1 .. N : prev[n] = IF n \in 2 .. l THEN n - 1 ELSE 0
        BY <1>8
      <4>2. prev' = [n \in 1 .. N |-> IF n = l + 1 THEN l ELSE prev[n]]
        BY <3>1, <4>1
      <4>3. \A n \in 1 .. N : (IF n = l + 1 THEN l ELSE prev[n]) = IF n \in 2 .. l + 1 THEN n - 1 ELSE 0
        BY <1>2, <2>2, <4>1
      <4>. QED
        BY <4>2, <4>3
    <3>. QED
      BY <3>1, <3>3, <3>4
  <2>. QED
    BY <2>1, <2>2
<1>10. Fresh'
  <2>1. Len(words') # 0
    BY <1>5
  <2>. QED
    BY <1>3, <1>5, <1>6, <1>7, <1>9, <2>1 DEF Fresh, Dll!Node
<1>11. step' = 0 /\ Len(words') <= N
  BY <1>1, <1>2, <1>3, <1>5, <1>6
<1>. QED
  BY <1>5, <1>10, <1>11 DEF DllInv

LEMMA DllTraverse ==
  ASSUME DllInv, Dll!Traverse
  PROVE  DllInv'
<1>1. /\ Len(words) = N /\ step \in {0, 4} /\ health = "ok" /\ step' = step + 1
      /\ words' = words /\ picked' = picked /\ <<head, tail, next, prev>>' = <<head, tail, next, prev>>
      /\ health' = IF Dll!Range(Dll!Chain) \cap freed = {} THEN "ok" ELSE "stray"
      /\ freed' = IF step = 4 THEN freed \cup Dll!Range(Dll!Chain) ELSE freed
      /\ traversed' = [k \in DOMAIN Dll!Chain |-> words[Dll!Chain[k]]]
  BY DEF Dll!Traverse, Dll!links
<1>2. N \in Nat /\ words \in Seq(Content) /\ Len(words) = N
  BY <1>1, DllConstants DEF DllInv
<1>3. CASE step = 0
  <2>1. Fresh
    BY <1>3 DEF DllInv
  <2>2. freed = {} /\ freed' = {} /\ health' = "ok" /\ step' = 1
    BY <1>1, <1>3, <2>1 DEF Fresh
  <2>3. Fresh'
    BY <1>1, <2>1, <2>2 DEF Fresh
  <2>. QED
    BY <1>1, <1>2, <2>2, <2>3 DEF DllInv
<1>4. CASE step = 4
  <2>1. PICK c : OnList(c) /\ (Dll!IsInjective(words) => Gone(c))
    BY <1>1, <1>4 DEF DllInv
  <2>2. Linked(c) /\ WordsOf(c) = Three
    BY <1>4, <2>1 DEF OnList
  <2>3. Dll!Chain = c
    BY <2>2, ChainIs
  <2>4. c \in Seq(Dll!Node) /\ Dll!Range(c) = {c[k] : k \in 1 .. Len(c)}
    BY <2>2 DEF Linked, Nodes, Dll!Range
  <2>5. /\ freed \subseteq Dll!Node
        /\ \A n \in Dll!Node : n \in freed <=> \A k \in 1 .. Len(c) : c[k] # n
    BY <2>2 DEF Linked
  <2>6. Dll!Range(c) \cap freed = {} /\ freed \cup Dll!Range(c) = Dll!Node
    <3>1. \A k \in 1 .. Len(c) : c[k] \in Dll!Node
      BY <2>4
    <3>. QED
      BY <2>4, <2>5, <3>1
  <2>7. health' = "ok" /\ freed' = Dll!Node
    BY <1>1, <1>4, <2>3, <2>6
  <2>8. DOMAIN c = 1 .. Len(c)
    BY <2>4
  <2>9. traversed' = Three
    BY <1>1, <2>2, <2>3, <2>8 DEF WordsOf
  <2>10. Three' = Three
    BY <1>1 DEF Three, Two, One
  <2>11. Dll!IsInjective(words) => picked \notin {1, N - 1, N}
    BY <1>4, <2>1 DEF Gone
  <2>12. step' = 5 /\ picked \in Dll!Node
    BY <1>1, <1>4 DEF DllInv
  <2>. QED
    BY <1>1, <1>2, <2>7, <2>9, <2>10, <2>11, <2>12 DEF DllInv
<1>. QED
  BY <1>1, <1>3, <1>4

LEMMA FreshLinked ==
  ASSUME Fresh, words \in Seq(Content), Len(words) = N, NEW c, c = [k \in 1 .. N |-> k]
  PROVE  Linked(c) /\ Len(c) = N /\ WordsOf(c) = words
<1>1. N \in Nat
  BY DllConstants
<1>2. c \in Seq(Dll!Node) /\ Len(c) = N /\ \A k \in 1 .. N : c[k] = k
  BY <1>1 DEF Dll!Node
<1>3. /\ head = IF N = 0 THEN 0 ELSE 1
      /\ next = [n \in 1 .. N |-> IF n < N THEN n + 1 ELSE 0]
      /\ prev = [n \in 1 .. N |-> IF n \in 2 .. N THEN n - 1 ELSE 0]
      /\ freed = {}
  BY DEF Fresh, Dll!Node
<1>4. Nodes(c)
  BY <1>1, <1>2 DEF Nodes
<1>5. Onward(next)
  BY <1>1, <1>3 DEF Onward, Dll!Node
<1>6. Forward(c)
  <2>1. head = Ahead(c)
    <3>1. N = 0 \/ c[1] = 1
      BY <1>1, <1>2
    <3>2. c = <<>> <=> N = 0
      BY <1>2
    <3>. QED
      BY <1>1, <1>3, <3>1, <3>2 DEF Ahead
  <2>2. \A k \in 1 .. N : k < N => k + 1 \in 1 .. N
    BY <1>1
  <2>. QED
    BY <1>2, <1>3, <2>1, <2>2 DEF Forward
<1>7. Backward(c)
  <2>1. prev \in [Dll!Node -> 0 .. N]
    BY <1>1, <1>3 DEF Dll!Node
  <2>2. c # <<>> => prev[c[1]] = 0
    BY <1>1, <1>2, <1>3
  <2>3. \A k \in 2 .. N : k \in 1 .. N /\ k - 1 \in 1 .. N /\ prev[k] = k - 1
    BY <1>1, <1>3
  <2>4. \A k \in 2 .. N : prev[c[k]] = c[k - 1]
    BY <1>2, <2>3
  <2>. QED
    BY <1>2, <2>1, <2>2, <2>4 DEF Backward
<1>8. \A n \in Dll!Node : n \in freed <=> \A k \in 1 .. N : c[k] # n
  BY <1>2, <1>3 DEF Dll!Node
<1>9. Linked(c)
  BY <1>2, <1>3, <1>4, <1>5, <1>6, <1>7, <1>8 DEF Linked
<1>10. WordsOf(c) = words
  <2>1. words = [k \in 1 .. N |-> words[k]]
    OBVIOUS
  <2>. QED
    BY <1>2, <2>1 DEF WordsOf
<1>. QED
  BY <1>2, <1>9, <1>10

LEMMA HitOwn ==
  ASSUME NEW c, Linked(c), words \in Seq(Content), Len(words) = N, Dll!IsInjective(words),
         NEW r \in Dll!Node
  PROVE  /\ \A j : Hit(c, words[r], j) => j \in 1 .. Len(c) /\ c[j] = r /\ r \notin freed
         /\ r \notin freed => \E j : Hit(c, words[r], j) /\ j \in 1 .. Len(c) /\ c[j] = r
<1>1. c \in Seq(Dll!Node) /\ \A k \in 1 .. Len(c) : c[k] \in 1 .. N
  BY DEF Linked, Nodes, Dll!Node
<1>2. \A m, n \in 1 .. N : words[m] = words[n] => m = n
  <2>1. DOMAIN words = 1 .. N
    OBVIOUS
  <2>. QED
    BY <2>1 DEF Dll!IsInjective
<1>3. ASSUME NEW j, Hit(c, words[r], j)
      PROVE  j \in 1 .. Len(c) /\ c[j] = r /\ r \notin freed
  <2>1. j \in 1 .. Len(c) /\ words[c[j]] = words[r]
    BY <1>3 DEF Hit
  <2>2. c[j] = r
    BY <1>1, <1>2, <2>1 DEF Dll!Node
  <2>. QED
    BY <2>1, <2>2, AtTheEnds
<1>4. ASSUME r \notin freed
      PROVE  \E j : Hit(c, words[r], j) /\ j \in 1 .. Len(c) /\ c[j] = r
  <2>1. PICK i \in 1 .. Len(c) : c[i] = r
    BY <1>4 DEF Linked
  <2>2. words[c[i]] = words[r]
    BY <2>1
  <2>3. PICK j : Hit(c, words[r], j)
    BY <1>1, <2>2, HitLeast
  <2>. QED
    BY <1>3, <2>3
<1>. QED
  BY <1>3, <1>4

LEMMA RemovedFrom ==
  ASSUME NEW c, Linked(c), c # <<>>, words \in Seq(Content), Len(words) = N, words' = words,
         NEW w, Dll!dlist_remove(w), health = "ok", health' = "ok"
  PROVE  \E j, e : /\ Hit(c, w, j) /\ j \in 1 .. Len(c) /\ CanCut(c, j) /\ Cut(c, j)
                   /\ Linked(e)' /\ e # <<>> /\ Len(e) = Len(c) - 1
                   /\ WordsOf(e)' = Dll!RemoveFirst(WordsOf(c), w)
<1>1. PICK j : Hit(c, w, j) /\ CanCut(c, j) /\ Cut(c, j)
  BY Removed
<1>2. PICK e : e = Dll!RemoveAt(c, j)
  OBVIOUS
<1>3. j \in 1 .. Len(c) /\ c \in Seq(Dll!Node) /\ Len(c) > 1
  BY <1>1 DEF Hit, Linked, Nodes, CanCut
<1>4. Linked(e)' /\ Len(e) = Len(c) - 1
  BY <1>1, <1>2, <1>3, StillLinked
<1>5. e # <<>>
  <2>1. PICK l \in Nat : l = Len(c)
    BY <1>3
  <2>2. Len(e) # 0 /\ Len(<<>>) = 0
    BY <1>3, <1>4, <2>1
  <2>. QED
    BY <2>2
<1>6. WordsOf(e) = Dll!RemoveFirst(WordsOf(c), w)
  BY <1>1, <1>2, <1>3, FirstRemoved
<1>7. WordsOf(e)' = WordsOf(e)
  BY DEF WordsOf
<1>. QED
  BY <1>1, <1>3, <1>4, <1>5, <1>6, <1>7

LEMMA DllRandom ==
  ASSUME DllInv, Dll!RemoveRandom
  PROVE  DllInv'
<1>1. PICK r \in Dll!Node : Dll!Removing(1, words[r]) /\ picked' = r
  BY DEF Dll!RemoveRandom
<1>2. PICK w : w = words[r]
  OBVIOUS
<1>3. /\ Len(words) = N /\ step = 1 /\ health = "ok" /\ Dll!dlist_remove(w)
      /\ step' = 2 /\ words' = words
  BY <1>1, <1>2 DEF Dll!Removing
<1>4. N \in Nat /\ words \in Seq(Content) /\ Fresh /\ r \in 1 .. N
  BY <1>3, DllConstants DEF DllInv, Dll!Node
<1>5. PICK c : c = [k \in 1 .. N |-> k]
  OBVIOUS
<1>6. Linked(c) /\ Len(c) = N /\ WordsOf(c) = words
  BY <1>3, <1>4, <1>5, FreshLinked
<1>7. c # <<>> /\ \A k \in 1 .. N : c[k] = k
  BY <1>4, <1>5, <1>6
<1>8. ASSUME health' # "ok", Dll!IsInjective(words)
      PROVE  r \in {1, N - 1, N}
  <2>1. r \notin freed
    BY <1>4 DEF Fresh
  <2>2. PICK j : Hit(c, w, j)
    BY <1>1, <1>2, <1>3, <1>4, <1>6, <1>8, <2>1, HitOwn
  <2>3. ~ CanCut(c, j)
    BY <1>3, <1>6, <1>7, <1>8, <2>2, Removed
  <2>4. ~ (N > 1)
    BY <1>4, <1>6, <2>3 DEF CanCut, Fresh
  <2>. QED
    BY <1>4, <2>4
<1>9. ASSUME health' = "ok"
      PROVE  \E e : OnList(e)' /\ (Dll!IsInjective(words') => Gone(e)')
  <2>1. PICK j, e : /\ Hit(c, w, j) /\ j \in 1 .. Len(c) /\ CanCut(c, j) /\ Cut(c, j)
                    /\ Linked(e)' /\ e # <<>> /\ Len(e) = Len(c) - 1
                    /\ WordsOf(e)' = Dll!RemoveFirst(WordsOf(c), w)
    BY <1>3, <1>4, <1>6, <1>7, <1>9, RemovedFrom
  <2>2. One' = Dll!RemoveFirst(words, w)
    BY <1>1, <1>2, <1>3 DEF One
  <2>3. Len(e) = N + 1 - 2
    BY <1>4, <1>6, <2>1
  <2>4. OnList(e)'
    BY <1>3, <1>6, <2>1, <2>2, <2>3 DEF OnList
  <2>5. ASSUME Dll!IsInjective(words)
        PROVE  freed' = {r} /\ (r # 1 => N > 1 /\ prev'[N] = N - 1)
    <3>1. c[j] = r
      BY <1>1, <1>2, <1>3, <1>4, <1>6, <2>1, <2>5, HitOwn
    <3>2. freed' = {r}
      BY <1>4, <2>1, <3>1 DEF Fresh, Cut
    <3>3. N > 1
      BY <1>6, <2>1 DEF CanCut
    <3>4. ASSUME r # 1 PROVE prev'[N] = N - 1
      <4>1. j # 1
        BY <1>4, <1>7, <3>1, <3>4
      <4>2. prev' = prev
        BY <1>6, <2>1, <4>1, CutSteps
      <4>3. prev = [n \in 1 .. N |-> IF n \in 2 .. N THEN n - 1 ELSE 0]
        BY <1>3, <1>4 DEF Fresh, Dll!Node
      <4>. QED
        BY <1>4, <3>3, <4>2, <4>3
    <3>. QED
      BY <3>2, <3>3, <3>4
  <2>6. Dll!IsInjective(words') => Gone(e)'
    BY <1>1, <1>3, <2>5 DEF Gone
  <2>. QED
    BY <2>4, <2>6
<1>10. /\ words' \in Seq(Content) /\ Len(words') = N /\ step' = 2 /\ picked' \in Dll!Node
       /\ Dll!IsInjective(words') /\ health' # "ok" => picked' \in {1, N - 1, N}
  BY <1>1, <1>3, <1>4, <1>8
<1>. QED
  BY <1>4, <1>9, <1>10 DEF DllInv

LEMMA DllFront ==
  ASSUME DllInv, Dll!RemoveFront
  PROVE  DllInv'
<1>1. PICK w : w = words[1]
  OBVIOUS
<1>2. /\ Len(words) = N /\ step = 2 /\ health = "ok" /\ Dll!dlist_remove(w)
      /\ step' = 3 /\ words' = words /\ picked' = picked
  BY <1>1 DEF Dll!RemoveFront, Dll!Removing
<1>3. N \in Nat /\ words \in Seq(Content) /\ picked \in Dll!Node
  BY <1>2, DllConstants DEF DllInv
<1>4. PICK c : OnList(c) /\ (Dll!IsInjective(words) => Gone(c))
  BY <1>2 DEF DllInv
<1>5. PICK l \in Nat : l = Len(c) /\ c \in Seq(Dll!Node)
  <2>1. c \in Seq(Dll!Node)
    BY <1>4 DEF OnList, Linked, Nodes
  <2>. QED
    BY <2>1
<1>6. Linked(c) /\ c # <<>> /\ l = N - 1 /\ WordsOf(c) = One
  BY <1>2, <1>3, <1>4, <1>5 DEF OnList
<1>7. l >= 1 /\ N >= 2 /\ 1 \in Dll!Node
  <2>1. l # 0
    <3>1. c \in Seq(Dll!Node) /\ c # <<>> /\ l = Len(c)
      BY <1>5, <1>6
    <3>. QED
      BY <3>1, EmptySeq
  <2>. QED
    BY <1>3, <1>6, <2>1 DEF Dll!Node
<1>8. /\ \A k \in 1 .. l : c[k] \in 1 .. N
      /\ \A i, k \in 1 .. l : i < k => c[i] < c[k]
  <2>1. \A k \in 1 .. l : c[k] \in 1 .. N
    <3>. TAKE k \in 1 .. l
    <3>1. k \in 1 .. Len(c) /\ c \in Seq(Dll!Node)
      BY <1>5
    <3>2. c[k] \in Dll!Node
      BY <3>1
    <3>. QED
      BY <3>2 DEF Dll!Node
  <2>2. \A i, k \in 1 .. l : i < k => c[i] < c[k]
    BY <1>5, <1>6 DEF Linked, Nodes
  <2>. QED
    BY <2>1, <2>2
<1>9. ASSUME NEW j \in 1 .. l, c[j] = 1 PROVE j = 1 /\ prev[c[1]] = 0
  <2>1. ~ (1 < j)
    BY <1>3, <1>7, <1>8, <1>9
  <2>. QED
    BY <1>6, <1>9, <2>1 DEF Linked, Backward
<1>10. ASSUME Dll!IsInjective(words)
       PROVE  freed = {picked} /\ (picked # 1 => N > 1 /\ prev[N] = N - 1)
  BY <1>2, <1>4, <1>10 DEF Gone
<1>11. ASSUME health' # "ok", Dll!IsInjective(words)
       PROVE  picked \in {1, N - 1, N}
  <2>. SUFFICES ASSUME picked # 1 PROVE N = 2 /\ picked = N
    BY <1>3
  <2>1. 1 \notin freed
    BY <1>10, <1>11
  <2>2. PICK j : Hit(c, w, j) /\ j \in 1 .. l /\ c[j] = 1
    <3>1. \E j : Hit(c, words[1], j) /\ j \in 1 .. Len(c) /\ c[j] = 1
      BY <1>2, <1>3, <1>6, <1>7, <1>11, <2>1, HitOwn
    <3>. QED
      BY <1>1, <1>5, <3>1
  <2>3. ~ CanCut(c, j)
    BY <1>2, <1>6, <1>11, <2>2, Removed
  <2>4. prev[c[j]] = 0
    BY <1>9, <2>2
  <2>5. 0 \notin freed
    BY <1>6 DEF Linked, Dll!Node
  <2>6. ~ (l > 1)
    BY <1>5, <2>3, <2>4, <2>5 DEF CanCut
  <2>. QED
    BY <1>3, <1>6, <1>7, <2>6 DEF Dll!Node
<1>12. ASSUME health' = "ok"
       PROVE  \E e : OnList(e)' /\ (Dll!IsInjective(words') => Gone(e)')
  <2>1. PICK j, e : /\ Hit(c, w, j) /\ j \in 1 .. Len(c) /\ CanCut(c, j) /\ Cut(c, j)
                    /\ Linked(e)' /\ e # <<>> /\ Len(e) = Len(c) - 1
                    /\ WordsOf(e)' = Dll!RemoveFirst(WordsOf(c), w)
    BY <1>2, <1>3, <1>6, <1>12, RemovedFrom
  <2>2. Two' = Dll!RemoveFirst(One, w)
    BY <1>1, <1>2 DEF One, Two
  <2>3. Len(e) = N + 1 - 3
    <3>1. Len(e) = l - 1 /\ N \in Nat /\ l = N - 1
      BY <1>3, <1>5, <1>6, <2>1
    <3>. QED
      BY <3>1
  <2>4. OnList(e)'
    BY <1>2, <1>6, <2>1, <2>2, <2>3 DEF OnList
  <2>5. ASSUME Dll!IsInjective(words)
        PROVE  picked # 1 /\ freed' = {1, picked} /\ (Len(e) = 1 \/ prev'[N] = N - 1)
    <3>1. c[j] = 1 /\ 1 \notin freed
      BY <1>1, <1>2, <1>3, <1>6, <1>7, <2>1, <2>5, HitOwn
    <3>2. j = 1
      BY <1>5, <1>9, <2>1, <3>1
    <3>3. freed = {picked} /\ picked # 1 /\ prev[N] = N - 1
      BY <1>10, <2>5, <3>1
    <3>4. freed' = {1, picked}
      BY <2>1, <3>1, <3>3 DEF Cut
    <3>5. l > 1
      BY <1>5, <2>1 DEF CanCut
    <3>6. 2 \in 1 .. l /\ N \in 1 .. N
      BY <1>7, <1>3, <3>5
    <3>7. prev' = [prev EXCEPT ![c[2]] = 0]
      BY <1>6, <2>1, <3>2, CutSteps
    <3>8. CASE c[2] = N
      <4>1. ASSUME l > 2 PROVE FALSE
        <5>1. 3 \in 1 .. l /\ 2 < 3
          BY <1>5, <4>1
        <5>2. c[2] < c[3] /\ c[3] <= N /\ c[3] \in Nat
          BY <1>3, <1>8, <3>6, <5>1
        <5>. QED
          BY <1>3, <3>8, <5>2
      <4>2. l = 2
        BY <1>5, <3>5, <4>1
      <4>. QED
        BY <1>5, <2>1, <3>3, <3>4, <4>2
    <3>9. CASE c[2] # N
      <4>1. prev \in [Dll!Node -> 0 .. N] /\ N \in Dll!Node
        BY <1>6, <3>6 DEF Linked, Backward, Dll!Node
      <4>2. prev'[N] = prev[N]
        BY <3>7, <3>9, <4>1
      <4>. QED
        BY <3>3, <3>4, <4>2
    <3>. QED
      BY <3>8, <3>9
  <2>6. Dll!IsInjective(words') => Gone(e)'
    BY <1>2, <2>5 DEF Gone
  <2>. QED
    BY <2>4, <2>6
<1>13. /\ words' \in Seq(Content) /\ Len(words') = N /\ step' = 3 /\ picked' \in Dll!Node
       /\ Dll!IsInjective(words') /\ health' # "ok" => picked' \in {1, N - 1, N}
  BY <1>2, <1>3, <1>11
<1>. QED
  BY <1>3, <1>12, <1>13 DEF DllInv

LEMMA DllBack ==
  ASSUME DllInv, Dll!RemoveBack
  PROVE  DllInv'
<1>1. PICK w : w = words[N]
  OBVIOUS
<1>2. /\ Len(words) = N /\ step = 3 /\ health = "ok" /\ Dll!dlist_remove(w)
      /\ step' = 4 /\ words' = words /\ picked' = picked
  BY <1>1 DEF Dll!RemoveBack, Dll!Removing
<1>3. N \in Nat /\ words \in Seq(Content) /\ picked \in Dll!Node
  BY <1>2, DllConstants DEF DllInv
<1>4. PICK c : OnList(c) /\ (Dll!IsInjective(words) => Gone(c))
  BY <1>2 DEF DllInv
<1>5. PICK l \in Nat : l = Len(c) /\ c \in Seq(Dll!Node)
  <2>1. c \in Seq(Dll!Node)
    BY <1>4 DEF OnList, Linked, Nodes
  <2>. QED
    BY <2>1
<1>6. Linked(c) /\ c # <<>> /\ l = N - 2 /\ WordsOf(c) = Two
  BY <1>2, <1>3, <1>4, <1>5 DEF OnList
<1>7. l >= 1 /\ N >= 3 /\ N \in Dll!Node
  <2>1. l # 0
    <3>1. c \in Seq(Dll!Node) /\ c # <<>> /\ l = Len(c)
      BY <1>5, <1>6
    <3>. QED
      BY <3>1, EmptySeq
  <2>. QED
    BY <1>3, <1>6, <2>1 DEF Dll!Node
<1>8. ASSUME Dll!IsInjective(words)
      PROVE  picked # 1 /\ freed = {1, picked} /\ (l = 1 \/ prev[N] = N - 1)
  BY <1>2, <1>4, <1>5, <1>8 DEF Gone
<1>9. ASSUME health' # "ok", Dll!IsInjective(words)
      PROVE  picked \in {1, N - 1, N}
  <2>. SUFFICES ASSUME picked # N PROVE picked \in {1, N - 1, N}
    OBVIOUS
  <2>1. N \notin freed
    BY <1>7, <1>8, <1>9
  <2>2. PICK j : Hit(c, w, j) /\ j \in 1 .. l /\ c[j] = N
    <3>1. \E j : Hit(c, words[N], j) /\ j \in 1 .. Len(c) /\ c[j] = N
      BY <1>2, <1>3, <1>6, <1>7, <1>9, <2>1, HitOwn
    <3>. QED
      BY <1>1, <1>5, <3>1
  <2>3. ~ CanCut(c, j)
    BY <1>2, <1>6, <1>9, <2>2, Removed
  <2>4. CASE l = 1
    BY <1>3, <1>6, <1>8, <1>9, <2>4 DEF Dll!Node
  <2>5. CASE l # 1
    <3>1. prev[N] = N - 1 /\ N - 1 \in freed
      BY <1>5, <1>7, <1>8, <1>9, <2>2, <2>3, <2>5 DEF CanCut
    <3>2. freed = {1, picked} /\ N - 1 # 1
      BY <1>3, <1>7, <1>8, <1>9
    <3>. QED
      BY <3>1, <3>2
  <2>. QED
    BY <2>4, <2>5
<1>10. ASSUME health' = "ok"
       PROVE  \E e : OnList(e)' /\ (Dll!IsInjective(words') => Gone(e)')
  <2>1. PICK j, e : /\ Hit(c, w, j) /\ j \in 1 .. Len(c) /\ CanCut(c, j) /\ Cut(c, j)
                    /\ Linked(e)' /\ e # <<>> /\ Len(e) = Len(c) - 1
                    /\ WordsOf(e)' = Dll!RemoveFirst(WordsOf(c), w)
    BY <1>2, <1>3, <1>6, <1>10, RemovedFrom
  <2>2. Three' = Dll!RemoveFirst(Two, w)
    BY <1>1, <1>2 DEF One, Two, Three
  <2>3. Len(e) = N + 1 - 4
    <3>1. Len(e) = l - 1 /\ N \in Nat /\ l = N - 2
      BY <1>3, <1>5, <1>6, <2>1
    <3>. QED
      BY <3>1
  <2>4. OnList(e)'
    BY <1>2, <1>6, <2>1, <2>2, <2>3 DEF OnList
  <2>5. ASSUME Dll!IsInjective(words)
        PROVE  picked \notin {1, N - 1, N}
    <3>1. c[j] = N /\ N \notin freed
      BY <1>1, <1>2, <1>3, <1>6, <1>7, <2>1, <2>5, HitOwn
    <3>2. l > 1 /\ prev[N] \notin freed
      BY <1>5, <2>1, <3>1 DEF CanCut
    <3>. QED
      BY <1>8, <2>5, <3>1, <3>2
  <2>6. Dll!IsInjective(words') => Gone(e)'
    BY <1>2, <2>5 DEF Gone
  <2>. QED
    BY <2>4, <2>6
<1>11. /\ words' \in Seq(Content) /\ Len(words') = N /\ step' = 4 /\ picked' \in Dll!Node
       /\ Dll!IsInjective(words') /\ health' # "ok" => picked' \in {1, N - 1, N}
  BY <1>2, <1>3, <1>9
<1>. QED
  BY <1>3, <1>10, <1>11 DEF DllInv

LEMMA DllNext == DllInv /\ [Dll!Next]_dllVars => DllInv'
<1>. SUFFICES ASSUME DllInv, [Dll!Next]_dllVars PROVE DllInv'
  OBVIOUS
<1>1. CASE Dll!Next
  BY <1>1, DllInsert, DllTraverse, DllRandom, DllFront, DllBack DEF Dll!Next
<1>2. CASE UNCHANGED dllVars
  <2>1. /\ words' = words /\ head' = head /\ tail' = tail /\ next' = next /\ prev' = prev
        /\ freed' = freed /\ step' = step /\ picked' = picked /\ health' = health
        /\ traversed' = traversed
    BY <1>2 DEF dllVars
  <2>2. Fresh => Fresh'
    BY <2>1 DEF Fresh
  <2>3. Three' = Three /\ Two' = Two /\ One' = One
    BY <2>1 DEF Three, Two, One
  <2>4. ASSUME NEW c PROVE (OnList(c) => OnList(c)') /\ (Gone(c) => Gone(c)')
    <3>1. Linked(c) => Linked(c)'
      BY <2>1 DEF Linked, Nodes, Onward, Forward, Backward
    <3>2. WordsOf(c)' = WordsOf(c)
      BY <2>1 DEF WordsOf
    <3>3. OnList(c) => OnList(c)'
      BY <2>1, <2>3, <3>1, <3>2 DEF OnList
    <3>4. Gone(c) => Gone(c)'
      BY <2>1 DEF Gone
    <3>. QED
      BY <3>3, <3>4
  <2>5. (\E c : OnList(c) /\ (Dll!IsInjective(words) => Gone(c)))
          => \E c : OnList(c)' /\ (Dll!IsInjective(words') => Gone(c)')
    BY <2>1, <2>4
  <2>. QED
    BY <2>1, <2>2, <2>3, <2>5 DEF DllInv
<1>. QED
  BY <1>1, <1>2

LEMMA DllGood == DllInv => Dll!ListRight
<1>. SUFFICES ASSUME DllInv PROVE Dll!ListRight
  OBVIOUS
<1>1. N \in Nat /\ step \in 0 .. 5
  BY DllConstants DEF DllInv
<1>2. step = 5 /\ health = "ok" => traversed = Three /\ freed = Dll!Node
  BY DEF DllInv
<1>3. ASSUME Len(words) = N, Dll!IsInjective(words)
      PROVE  IF picked \in {1, N - 1, N} THEN ~ (step = 5 /\ health = "ok") ELSE health = "ok"
  <2>1. CASE step <= 1
    BY <1>1, <2>1 DEF DllInv, Fresh
  <2>2. CASE step >= 2
    BY <1>1, <1>3, <2>2 DEF DllInv
  <2>. QED
    BY <1>1, <2>1, <2>2
<1>. QED
  BY <1>2, <1>3 DEF Dll!ListRight, Three, Two, One

-----------------------------------------------------------------------------
(***************************************************************************)
(* cookies.c.  The walk by rounds: round k goes from the k-th separator to *)
(* the one behind it.                                                      *)
(***************************************************************************)
Walks(t, g, i) ==
  g = [k \in 0 .. i |->
        IF k = 0 THEN <<1, Cook!Stop(t, 1)>>
        ELSE LET e == g[k - 1][2] IN
             IF e <= Len(t) THEN <<e, Cook!Stop(t, e + 1)>> ELSE g[k - 1]]

Round(t, x) == IF x[2] <= Len(t) THEN <<x[2], Cook!Stop(t, x[2] + 1)>> ELSE x

LEMMA WalksRounds ==
  ASSUME NEW t, NEW g, NEW i \in Nat, Walks(t, g, i)
  PROVE  /\ g[0] = <<1, Cook!Stop(t, 1)>>
         /\ \A k \in 0 .. i - 1 : g[k + 1] = Round(t, g[k])
<1>1. g[0] = <<1, Cook!Stop(t, 1)>>
  <2>1. 0 \in 0 .. i
    OBVIOUS
  <2>. QED
    BY <2>1 DEF Walks
<1>2. ASSUME NEW k \in 0 .. i - 1 PROVE g[k + 1] = Round(t, g[k])
  <2>1. k + 1 \in 0 .. i /\ k + 1 # 0 /\ (k + 1) - 1 = k
    OBVIOUS
  <2>2. g[k + 1] = LET e == g[(k + 1) - 1][2] IN
                   IF e <= Len(t) THEN <<e, Cook!Stop(t, e + 1)>> ELSE g[(k + 1) - 1]
    BY <2>1 DEF Walks
  <2>. QED
    BY <2>1, <2>2 DEF Round
<1>. QED
  BY <1>1, <1>2

LEMMA WalksExists ==
  ASSUME NEW t, NEW i \in Nat
  PROVE  \E g : Walks(t, g, i)
<1>. DEFINE G == {n \in Nat : \E g : Walks(t, g, n)}
<1>1. 0 \in G
  <2>. DEFINE z == [k \in 0 .. 0 |-> <<1, Cook!Stop(t, 1)>>]
  <2>1. \A k \in 0 .. 0 : k = 0
    OBVIOUS
  <2>2. Walks(t, z, 0)
    BY <2>1 DEF Walks
  <2>. QED
    BY <2>2
<1>2. ASSUME NEW n \in G PROVE n + 1 \in G
  <2>1. PICK g : Walks(t, g, n)
    BY <1>2
  <2>2. n \in Nat /\ n + 1 \in Nat
    BY <1>2
  <2>. DEFINE h == [k \in 0 .. n + 1 |-> IF k <= n THEN g[k] ELSE Round(t, g[n])]
  <2>3. /\ g[0] = <<1, Cook!Stop(t, 1)>>
        /\ \A k \in 0 .. n - 1 : g[k + 1] = Round(t, g[k])
    BY <2>1, <2>2, WalksRounds
  <2>4. h[0] = <<1, Cook!Stop(t, 1)>>
    BY <2>2, <2>3
  <2>5. \A k \in 0 .. n + 1 : k # 0 => h[k] = Round(t, h[k - 1])
    <3>. TAKE k \in 0 .. n + 1
    <3>. HAVE k # 0
    <3>1. k - 1 \in 0 .. n /\ (k - 1) + 1 = k /\ h[k - 1] = g[k - 1]
      BY <2>2
    <3>2. CASE k <= n
      <4>1. k - 1 \in 0 .. n - 1 /\ h[k] = g[k]
        BY <2>2, <3>2
      <4>. QED
        BY <2>3, <3>1, <4>1
    <3>3. CASE k = n + 1
      <4>1. h[k] = Round(t, g[n]) /\ k - 1 = n
        BY <2>2, <3>3
      <4>. QED
        BY <3>1, <4>1
    <3>. QED
      BY <2>2, <3>2, <3>3
  <2>6. DOMAIN h = 0 .. n + 1 /\ h = [k \in 0 .. n + 1 |-> h[k]]
    OBVIOUS
  <2>. HIDE DEF h
  <2>7. Walks(t, h, n + 1)
    BY <2>4, <2>5, <2>6 DEF Walks, Round
  <2>. QED
    BY <2>2, <2>7
<1>. HIDE DEF G
<1>3. G \subseteq Nat
  BY DEF G
<1>4. G = Nat
  BY <1>1, <1>2, <1>3, NatSteps
<1>. QED
  BY <1>4 DEF G

LEMMA WalksSame ==
  ASSUME NEW t, NEW i \in Nat, NEW j \in Nat, NEW g, NEW h, Walks(t, g, i), Walks(t, h, j)
  PROVE  \A k \in Nat : k <= i /\ k <= j => g[k] = h[k]
<1>. DEFINE G == {k \in Nat : k <= i /\ k <= j => g[k] = h[k]}
<1>1. /\ g[0] = <<1, Cook!Stop(t, 1)>> /\ h[0] = <<1, Cook!Stop(t, 1)>>
      /\ \A k \in 0 .. i - 1 : g[k + 1] = Round(t, g[k])
      /\ \A k \in 0 .. j - 1 : h[k + 1] = Round(t, h[k])
  BY WalksRounds
<1>2. 0 \in G
  BY <1>1
<1>3. ASSUME NEW k \in G PROVE k + 1 \in G
  <2>. SUFFICES ASSUME k + 1 <= i, k + 1 <= j PROVE g[k + 1] = h[k + 1]
    BY <1>3
  <2>1. k \in 0 .. i - 1 /\ k \in 0 .. j - 1 /\ g[k] = h[k]
    BY <1>3
  <2>. QED
    BY <1>1, <2>1
<1>. HIDE DEF G
<1>4. G \subseteq Nat
  BY DEF G
<1>5. G = Nat
  BY <1>2, <1>3, <1>4, NatSteps
<1>. QED
  BY <1>5 DEF G

LEMMA WalkRounds ==
  ASSUME NEW t
  PROVE  /\ Cook!Walk(t, 0) = <<1, Cook!Stop(t, 1)>>
         /\ \A i \in Nat : Cook!Walk(t, i + 1) = Round(t, Cook!Walk(t, i))
<1>1. ASSUME NEW i \in Nat
      PROVE  \E g : Walks(t, g, i) /\ Cook!Walk(t, i) = g[i]
  <2>. DEFINE f == CHOOSE g : Walks(t, g, i)
  <2>1. Walks(t, f, i)
    BY WalksExists
  <2>2. Cook!Walk(t, i) = f[i]
    BY DEF Cook!Walk, Walks
  <2>. QED
    BY <2>1, <2>2
<1>2. Cook!Walk(t, 0) = <<1, Cook!Stop(t, 1)>>
  <2>1. PICK g : Walks(t, g, 0) /\ Cook!Walk(t, 0) = g[0]
    BY <1>1
  <2>. QED
    BY <2>1, WalksRounds
<1>3. ASSUME NEW i \in Nat PROVE Cook!Walk(t, i + 1) = Round(t, Cook!Walk(t, i))
  <2>1. PICK g : Walks(t, g, i) /\ Cook!Walk(t, i) = g[i]
    BY <1>1
  <2>2. PICK n \in Nat : n = i + 1
    OBVIOUS
  <2>3. PICK h : Walks(t, h, n) /\ Cook!Walk(t, n) = h[n]
    BY <1>1
  <2>4. h[i] = g[i]
    BY <2>1, <2>2, <2>3, WalksSame
  <2>5. h[i + 1] = Round(t, h[i])
    <3>1. i \in 0 .. n - 1
      BY <2>2
    <3>. QED
      BY <2>2, <2>3, <3>1, WalksRounds
  <2>. QED
    BY <2>1, <2>2, <2>3, <2>4, <2>5
<1>. QED
  BY <1>2, <1>3

LEMMA CookCardinality ==
  /\ \A S : Cook!Cardinality(S) = Cardinality(S)
  /\ \A S : Cook!IsFiniteSet(S) <=> IsFiniteSet(S)
BY DEF Cook!Cardinality, Cardinality, Cook!IsFiniteSet, IsFiniteSet

(* A text that init_cookies() takes.                                       *)
Good(t) == t \in Seq(Cook!Char) /\ t # <<>> /\ t[1] # "%"

LEMMA Separated ==
  ASSUME NEW t, Good(t), NEW l \in Nat, l = Len(t)
  PROVE  /\ l >= 1 /\ IsFiniteSet(Cook!Separators(t))
         /\ \A p \in Cook!Separators(t) :
              /\ p \in 2 .. l - 1 /\ t[p] = "%" /\ t[p + 1] = "n"
              /\ p + 1 \notin Cook!Separators(t)
<1>1. l >= 1
  <2>1. t \in Seq(Cook!Char) /\ t # <<>>
    BY DEF Good
  <2>. QED
    BY <2>1, EmptySeq
<1>2. \A p \in Cook!Separators(t) :
        p \in 1 .. l - 1 /\ p # 1 /\ t[p] = "%" /\ t[p + 1] = "n"
  BY DEF Cook!Separators, Good
<1>3. IsFiniteSet(Cook!Separators(t))
  <2>1. IsFiniteSet(1 .. l - 1)
    BY <1>1, FS_Interval
  <2>. QED
    BY <1>2, <2>1, FS_Subset
<1>4. \A p \in Cook!Separators(t) : p + 1 \notin Cook!Separators(t)
  BY <1>2
<1>. QED
  BY <1>1, <1>2, <1>3, <1>4

LEMMA StopIs ==
  ASSUME NEW t, Good(t), NEW l \in Nat, l = Len(t), NEW a \in 1 .. l + 1
  PROVE  /\ Cook!Stop(t, a) \in Cook!Separators(t) \cup {l + 1}
         /\ Cook!Stop(t, a) \in a .. l + 1
         /\ \A p \in Cook!Separators(t) : p < a \/ p >= Cook!Stop(t, a)
<1>. DEFINE P == {p \in Cook!Separators(t) \cup {l + 1} : p >= a}
<1>1. Cook!Stop(t, a) = Cook!Min(P)
  BY DEF Cook!Stop
<1>2. l + 1 \in P /\ \A p \in P : p \in a .. l + 1
  <2>1. \A p \in Cook!Separators(t) : p \in 2 .. l - 1
    BY Separated
  <2>. QED
    BY <2>1
<1>3. \A p \in Cook!Separators(t) : p \in Nat /\ (p < a \/ p \in P)
  <2>1. \A p \in Cook!Separators(t) : p \in 2 .. l - 1
    BY Separated
  <2>. QED
    BY <2>1
<1>4. \A p \in P : p \in Cook!Separators(t) \cup {l + 1}
  OBVIOUS
<1>. HIDE DEF P
<1>5. P \in SUBSET Nat
  BY <1>2
<1>6. \E n \in P : \A m \in P : n <= m
  BY <1>2, <1>5, LeastNat
<1>7. Cook!Min(P) \in P /\ \A m \in P : Cook!Min(P) <= m
  BY <1>6 DEF Cook!Min
<1>8. PICK x \in P : x = Cook!Stop(t, a) /\ \A m \in P : x <= m
  BY <1>1, <1>7
<1>9. \A p \in Cook!Separators(t) : p < a \/ p >= x
  BY <1>3, <1>5, <1>8
<1>. QED
  BY <1>2, <1>4, <1>8, <1>9

(* Round k goes from b to e, and k separators are before e.                *)
Ended(t, k, b, e) ==
  /\ b \in 1 .. Len(t) /\ e \in b + 1 .. Len(t) + 1
  /\ e \in Cook!Separators(t) \cup {Len(t) + 1}
  /\ IF k = 0 THEN b = 1 ELSE b \in Cook!Separators(t)
  /\ \A p \in Cook!Separators(t) : p <= b \/ p >= e
  /\ Cardinality({p \in Cook!Separators(t) : p < e}) = k

Rounded(t, k, x) == Ended(t, k, x[1], x[2])

LEMMA RoundsEnded ==
  ASSUME NEW t, Good(t), NEW m \in Nat, m = Cardinality(Cook!Separators(t))
  PROVE  \A k \in 0 .. m : /\ Rounded(t, k, Cook!Walk(t, k))
                           /\ k < m => Cook!Walk(t, k)[2] <= Len(t)
                           /\ k = m => Cook!Walk(t, k)[2] = Len(t) + 1
<1>1. PICK l \in Nat : l = Len(t)
  BY DEF Good
<1>2. /\ l >= 1 /\ IsFiniteSet(Cook!Separators(t))
      /\ \A p \in Cook!Separators(t) : p \in 2 .. l - 1
  BY <1>1, Separated
<1>3. ASSUME NEW k \in Nat, NEW x, Rounded(t, k, x), k < m
      PROVE  x[2] <= l /\ x[2] \in Cook!Separators(t)
  <2>. SUFFICES ASSUME x[2] = l + 1 PROVE FALSE
    BY <1>1, <1>2, <1>3 DEF Rounded, Ended
  <2>. DEFINE P == {p \in Cook!Separators(t) : p < x[2]}
  <2>1. P = Cook!Separators(t)
    BY <1>2
  <2>2. Cardinality(P) = k
    BY <1>3 DEF Rounded, Ended
  <2>. HIDE DEF P
  <2>3. k = m
    BY <2>1, <2>2
  <2>. QED
    BY <1>3, <2>3
<1>4. ASSUME NEW x, Rounded(t, m, x) PROVE x[2] = l + 1
  <2>. SUFFICES ASSUME x[2] # l + 1 PROVE FALSE
    OBVIOUS
  <2>. DEFINE P == {p \in Cook!Separators(t) : p < x[2]}
  <2>1. x[2] \in Cook!Separators(t) /\ x[2] \in Nat /\ Cardinality(P) = m
    BY <1>1, <1>4 DEF Rounded, Ended
  <2>2. P \in SUBSET Cook!Separators(t) /\ x[2] \notin P
    BY <2>1
  <2>. HIDE DEF P
  <2>3. P = Cook!Separators(t)
    BY <1>2, <2>1, <2>2, FS_Subset
  <2>. QED
    BY <2>1, <2>2, <2>3
<1>5. Rounded(t, 0, Cook!Walk(t, 0))
  <2>1. PICK e : e = Cook!Stop(t, 1)
    OBVIOUS
  <2>2. /\ e \in Cook!Separators(t) \cup {l + 1} /\ e \in 1 .. l + 1
        /\ \A p \in Cook!Separators(t) : p < 1 \/ p >= e
    BY <1>1, <1>2, <2>1, StopIs
  <2>3. Cook!Walk(t, 0) = <<1, e>>
    BY <2>1, WalkRounds
  <2>4. e \in 2 .. l + 1
    BY <1>2, <2>2
  <2>5. {p \in Cook!Separators(t) : p < e} = {}
    <3>1. ASSUME NEW p \in Cook!Separators(t) PROVE ~ (p < e)
      <4>1. p \in 2 .. l - 1 /\ (p < 1 \/ p >= e)
        BY <1>2, <2>2
      <4>. QED
        BY <2>4, <4>1
    <3>. QED
      BY <3>1
  <2>6. \A p \in Cook!Separators(t) : p <= 1 \/ p >= e
    BY <1>2, <2>2, <2>4
  <2>7. Cardinality({}) = 0
    BY FS_EmptySet
  <2>. QED
    <3>1. 1 \in 1 .. Len(t) /\ e \in 1 + 1 .. Len(t) + 1 /\ e \in Cook!Separators(t) \cup {Len(t) + 1}
      BY <1>1, <1>2, <2>2, <2>4
    <3>2. Cardinality({p \in Cook!Separators(t) : p < e}) = 0
      BY <2>5, <2>7
    <3>3. Ended(t, 0, 1, e)
      BY <2>6, <3>1, <3>2 DEF Ended
    <3>. QED
      BY <2>3, <3>3 DEF Rounded
<1>6. ASSUME NEW k \in Nat, k < m, Rounded(t, k, Cook!Walk(t, k))
      PROVE  Rounded(t, k + 1, Cook!Walk(t, k + 1))
  <2>1. PICK x : x = Cook!Walk(t, k)
    OBVIOUS
  <2>2. PICK d : d = x[2] /\ d <= l /\ d \in Cook!Separators(t)
    BY <1>3, <1>6, <2>1
  <2>3. d \in 2 .. l - 1 /\ d + 1 \in 1 .. l + 1
    BY <1>2, <2>2
  <2>4. PICK e : e = Cook!Stop(t, d + 1)
    OBVIOUS
  <2>5. /\ e \in Cook!Separators(t) \cup {l + 1} /\ e \in d + 1 .. l + 1
        /\ \A p \in Cook!Separators(t) : p < d + 1 \/ p >= e
    BY <1>1, <2>3, <2>4, StopIs
  <2>6. Cook!Walk(t, k + 1) = <<d, e>>
    BY <1>1, <2>1, <2>2, <2>4, WalkRounds DEF Round
  <2>7. \A p \in Cook!Separators(t) : p <= d \/ p >= e
    BY <1>2, <2>3, <2>5
  <2>. DEFINE P == {p \in Cook!Separators(t) : p < d}
              Q == {p \in Cook!Separators(t) : p < e}
  <2>8. Q = P \cup {d}
    BY <1>2, <2>2, <2>3, <2>5, <2>7
  <2>9. Cardinality(P) = k /\ d \notin P /\ P \in SUBSET Cook!Separators(t)
    BY <1>6, <2>1, <2>2, <2>3 DEF Rounded, Ended
  <2>. HIDE DEF P
  <2>10. IsFiniteSet(P)
    BY <1>2, <2>9, FS_Subset
  <2>11. Cardinality(Q) = k + 1
    BY <2>8, <2>9, <2>10, FS_AddElement
  <2>12. d \in 1 .. l /\ k + 1 # 0
    BY <2>3
  <2>. QED
    <3>1. Ended(t, k + 1, d, e)
      BY <1>1, <2>2, <2>5, <2>7, <2>11, <2>12 DEF Ended
    <3>. QED
      BY <2>6, <3>1 DEF Rounded
<1>. DEFINE G == {k \in Nat : k <= m => Rounded(t, k, Cook!Walk(t, k))}
<1>7. 0 \in G
  BY <1>5
<1>8. ASSUME NEW k \in G PROVE k + 1 \in G
  <2>1. k \in Nat /\ k + 1 \in Nat /\ (k + 1 <= m => k < m /\ k <= m)
    BY <1>8
  <2>2. k <= m => Rounded(t, k, Cook!Walk(t, k))
    BY <1>8
  <2>3. k + 1 <= m => Rounded(t, k + 1, Cook!Walk(t, k + 1))
    BY <1>6, <2>1, <2>2
  <2>. QED
    BY <2>1, <2>3
<1>. HIDE DEF G
<1>9. G \subseteq Nat
  BY DEF G
<1>10. G = Nat
  BY <1>7, <1>8, <1>9, NatSteps
<1>11. ASSUME NEW k \in 0 .. m PROVE Rounded(t, k, Cook!Walk(t, k))
  BY <1>10 DEF G
<1>12. ASSUME NEW k \in 0 .. m, k < m PROVE Cook!Walk(t, k)[2] <= l
  BY <1>3, <1>11, <1>12
<1>13. Cook!Walk(t, m)[2] = l + 1
  BY <1>4, <1>11
<1>. QED
  BY <1>1, <1>11, <1>12, <1>13

(* Where the k-th cookie ends, and what it is.                             *)
At(t, k) == Cook!Walk(t, k)[2]

Piece(t, l, m, k) ==
  /\ At(t, k) \in 2 .. l + 1
  /\ k = m => At(t, k) = l + 1
  /\ k = 0 => Cook!get_i_th_cookie(t, k) = SubSeq(t, 1, At(t, k) - 1)
  /\ k > 0 => /\ At(t, k - 1) \in Cook!Separators(t) /\ At(t, k - 1) + 2 <= At(t, k)
              /\ Cook!get_i_th_cookie(t, k) = SubSeq(t, At(t, k - 1) + 2, At(t, k) - 1)
  /\ Cook!Separators(Cook!get_i_th_cookie(t, k)) = {}

LEMMA PieceIs ==
  ASSUME NEW t, Good(t), NEW l \in Nat, l = Len(t),
         NEW m \in Nat, m = Cardinality(Cook!Separators(t)), NEW k \in 0 .. m
  PROVE  Piece(t, l, m, k)
<1>1. /\ l >= 1
      /\ \A p \in Cook!Separators(t) :
           /\ p \in 2 .. l - 1 /\ t[p] = "%" /\ t[p + 1] = "n"
           /\ p + 1 \notin Cook!Separators(t)
  BY Separated
<1>2. PICK b, e : b = Cook!Walk(t, k)[1] /\ e = Cook!Walk(t, k)[2]
  OBVIOUS
<1>3. Ended(t, k, b, e) /\ (k = m => e = l + 1)
  BY <1>2, RoundsEnded DEF Rounded
<1>4. /\ b \in 1 .. l /\ e \in b + 1 .. l + 1 /\ e \in Cook!Separators(t) \cup {l + 1}
      /\ IF k = 0 THEN b = 1 ELSE b \in Cook!Separators(t)
      /\ \A p \in Cook!Separators(t) : p <= b \/ p >= e
  BY <1>3 DEF Ended
<1>5. t \in Seq(Cook!Char) /\ t[1] # "%"
  BY DEF Good
<1>6. PICK a : a = IF k = 0 THEN 1 ELSE b + 2
  OBVIOUS
<1>7. a \in 1 .. e /\ (t[a] = "%" /\ t[a + 1] = "n" /\ a < e => k # 0)
  <2>1. CASE k = 0
    BY <1>1, <1>4, <1>5, <1>6, <2>1
  <2>2. CASE k # 0
    <3>1. b \in 2 .. l - 1 /\ b + 1 \notin Cook!Separators(t)
      BY <1>1, <1>4, <2>2
    <3>2. e # b + 1
      BY <1>4, <3>1
    <3>. QED
      BY <1>4, <1>6, <2>2, <3>1, <3>2
  <2>. QED
    BY <2>1, <2>2
<1>8. PICK q : q = Cook!get_i_th_cookie(t, k)
  OBVIOUS
<1>9. q = SubSeq(t, a, e - 1)
  <2>1. q = SubSeq(t, IF t[b] = "%" THEN b + 2 ELSE b, e - 1)
    BY <1>2, <1>8 DEF Cook!get_i_th_cookie
  <2>2. (IF t[b] = "%" THEN b + 2 ELSE b) = a
    BY <1>1, <1>4, <1>5, <1>6
  <2>. QED
    BY <2>1, <2>2
<1>10. Len(q) = e - a /\ \A i \in 1 .. e - a : q[i] = t[a + i - 1]
  <2>1. a \in Int /\ e - 1 \in Int /\ \A i \in a .. e - 1 : t[i] \in Cook!Char
    BY <1>4, <1>5, <1>7
  <2>2. (IF a <= e - 1 THEN e - 1 - a + 1 ELSE 0) = e - a /\ e - 1 - a + 1 = e - a
    BY <1>4, <1>7
  <2>3. /\ Len(SubSeq(t, a, e - 1)) = IF a <= e - 1 THEN e - 1 - a + 1 ELSE 0
        /\ \A i \in 1 .. e - 1 - a + 1 : SubSeq(t, a, e - 1)[i] = t[a + i - 1]
    BY <2>1, SubSeqProperties
  <2>. QED
    BY <1>9, <2>2, <2>3
<1>11. Cook!Separators(q) = {}
  <2>. SUFFICES ASSUME NEW p \in Cook!Separators(q) PROVE FALSE
    OBVIOUS
  <2>1. p \in 1 .. e - a - 1 /\ q[p] = "%" /\ q[p + 1] = "n"
    BY <1>10 DEF Cook!Separators
  <2>2. PICK i \in Nat : i = a + p - 1 /\ i >= a /\ i + 1 < e /\ a + (p + 1) - 1 = i + 1
    <3>1. a + p - 1 \in Nat /\ a + p - 1 >= a /\ (a + p - 1) + 1 < e /\ a + (p + 1) - 1 = (a + p - 1) + 1
      BY <1>4, <1>7, <2>1
    <3>. QED
      BY <3>1
  <2>3. p \in 1 .. e - a /\ p + 1 \in 1 .. e - a
    BY <1>4, <1>7, <2>1
  <2>4. t[i] = "%" /\ t[i + 1] = "n"
    BY <1>10, <2>1, <2>2, <2>3
  <2>5. i \in 1 .. l - 1
    BY <1>4, <1>7, <2>2
  <2>6. i \in Cook!Separators(t)
    BY <2>4, <2>5 DEF Cook!Separators
  <2>7. i <= b \/ i >= e
    BY <1>4, <2>6
  <2>8. i = 1 /\ k = 0
    BY <1>4, <1>6, <1>7, <2>2, <2>7
  <2>. QED
    BY <1>5, <2>4, <2>8
<1>12. At(t, k) = e /\ e \in 2 .. l + 1
  BY <1>2, <1>4 DEF At
<1>13. ASSUME k > 0 PROVE At(t, k - 1) = b
  <2>1. PICK j \in 0 .. m : j = k - 1 /\ j < m /\ j + 1 = k /\ j \in Nat
    <3>1. k - 1 \in 0 .. m /\ k - 1 < m /\ (k - 1) + 1 = k /\ k - 1 \in Nat
      BY <1>13
    <3>. QED
      BY <3>1
  <2>2. Cook!Walk(t, j)[2] <= Len(t)
    BY <2>1, RoundsEnded
  <2>3. Cook!Walk(t, j + 1) = Round(t, Cook!Walk(t, j))
    BY <2>1, WalkRounds
  <2>4. Cook!Walk(t, k)[1] = Cook!Walk(t, j)[2]
    BY <2>1, <2>2, <2>3 DEF Round
  <2>. QED
    BY <1>2, <2>1, <2>4 DEF At
<1>14. ASSUME k = 0
       PROVE  Cook!get_i_th_cookie(t, k) = SubSeq(t, 1, At(t, k) - 1)
  BY <1>6, <1>8, <1>9, <1>12, <1>14
<1>15. ASSUME k > 0
       PROVE  /\ At(t, k - 1) \in Cook!Separators(t) /\ At(t, k - 1) + 2 <= At(t, k)
              /\ Cook!get_i_th_cookie(t, k) = SubSeq(t, At(t, k - 1) + 2, At(t, k) - 1)
  <2>1. a = b + 2 /\ b \in Cook!Separators(t) /\ a <= e
    BY <1>4, <1>6, <1>7, <1>15
  <2>. QED
    BY <1>8, <1>9, <1>12, <1>13, <1>15, <2>1
<1>. QED
  BY <1>3, <1>8, <1>11, <1>12, <1>14, <1>15 DEF Piece

LEMMA Joined ==
  ASSUME NEW t, Good(t), NEW l \in Nat, l = Len(t),
         NEW p \in Cook!Separators(t), NEW e \in 2 .. l + 1, p + 2 <= e
  PROVE  SubSeq(t, 1, p - 1) \o <<"%", "n">> \o SubSeq(t, p + 2, e - 1) = SubSeq(t, 1, e - 1)
<1>1. p \in 2 .. l - 1 /\ t[p] = "%" /\ t[p + 1] = "n" /\ t \in Seq(Cook!Char)
  BY Separated DEF Good
<1>2. ASSUME NEW a \in 1 .. l, NEW d \in 1 .. l + 1, a <= d
      PROVE  /\ SubSeq(t, a, d - 1) \in Seq(Cook!Char) /\ Len(SubSeq(t, a, d - 1)) = d - a
             /\ \A i \in 1 .. d - a : SubSeq(t, a, d - 1)[i] = t[a + i - 1]
  <2>. DEFINE C == Cook!Char
              b == d - 1
  <2>1. a \in Int /\ b \in Int /\ \A i \in a .. b : t[i] \in C
    BY <1>1, <1>2
  <2>2. (IF a <= d - 1 THEN d - 1 - a + 1 ELSE 0) = d - a /\ d - 1 - a + 1 = d - a
    BY <1>2
  <2>. HIDE DEF C, b
  <2>3. /\ SubSeq(t, a, b) \in Seq(C)
        /\ Len(SubSeq(t, a, b)) = IF a <= b THEN b - a + 1 ELSE 0
        /\ \A i \in 1 .. b - a + 1 : SubSeq(t, a, b)[i] = t[a + i - 1]
    BY <2>1, SubSeqProperties
  <2>. QED
    BY <2>2, <2>3 DEF C, b
<1>. DEFINE y == <<"%", "n">>
<1>3. PICK x : x = SubSeq(t, 1, p - 1)
  OBVIOUS
<1>4. PICK z : z = SubSeq(t, p + 2, e - 1)
  OBVIOUS
<1>5. PICK w : w = SubSeq(t, 1, e - 1)
  OBVIOUS
<1>6. x \in Seq(Cook!Char) /\ Len(x) = p - 1 /\ \A i \in 1 .. p - 1 : x[i] = t[i]
  <2>1. 1 \in 1 .. l /\ p \in 1 .. l + 1 /\ 1 <= p
    BY <1>1
  <2>2. \A i \in 1 .. p - 1 : 1 + i - 1 = i
    OBVIOUS
  <2>. QED
    BY <1>2, <1>3, <2>1, <2>2
<1>7. w \in Seq(Cook!Char) /\ Len(w) = e - 1 /\ \A i \in 1 .. e - 1 : w[i] = t[i]
  <2>1. 1 \in 1 .. l /\ e \in 1 .. l + 1 /\ 1 <= e
    BY <1>1
  <2>2. \A i \in 1 .. e - 1 : 1 + i - 1 = i
    OBVIOUS
  <2>. QED
    BY <1>2, <1>5, <2>1, <2>2
<1>8. z \in Seq(Cook!Char) /\ Len(z) = e - (p + 2) /\ \A i \in 1 .. e - (p + 2) : z[i] = t[p + 1 + i]
  <2>1. CASE p + 2 <= l
    <3>1. p + 2 \in 1 .. l /\ e \in 1 .. l + 1 /\ p + 2 <= e
      BY <1>1, <2>1
    <3>2. \A i \in 1 .. e - (p + 2) : p + 2 + i - 1 = p + 1 + i
      BY <1>1
    <3>. QED
      <4>1. z \in Seq(Cook!Char) /\ Len(z) = e - (p + 2) /\ \A i \in 1 .. e - (p + 2) : z[i] = t[p + 2 + i - 1]
        BY <1>2, <1>4, <3>1
      <4>. QED
        BY <3>2, <4>1
  <2>2. CASE p + 2 > l
    <3>1. p + 2 = e /\ e - 1 < p + 2
      BY <1>1, <2>2
    <3>2. z = <<>>
      BY <1>1, <1>4, <3>1, SubSeqEmpty
    <3>3. Len(<<>>) = 0 /\ <<>> \in Seq(Cook!Char)
      BY EmptySeq
    <3>. QED
      BY <1>1, <3>1, <3>2, <3>3
  <2>. QED
    BY <1>1, <2>1, <2>2
<1>9. y \in Seq(Cook!Char) /\ Len(y) = 2 /\ y[1] = "%" /\ y[2] = "n"
  BY DEF Cook!Char
<1>. HIDE DEF y
<1>10. PICK u : u = x \o y
  OBVIOUS
<1>11. u \in Seq(Cook!Char) /\ Len(u) = p + 1 /\ \A i \in 1 .. p + 1 : u[i] = t[i]
  <2>1. /\ u \in Seq(Cook!Char) /\ Len(u) = Len(x) + Len(y)
        /\ \A i \in 1 .. Len(x) + Len(y) : u[i] = IF i <= Len(x) THEN x[i] ELSE y[i - Len(x)]
    <3>1. x \in Seq(Cook!Char) /\ y \in Seq(Cook!Char)
      BY <1>6, <1>9
    <3>. QED
      BY <1>10, <3>1, ConcatProperties
  <2>2. Len(x) + Len(y) = p + 1
    BY <1>1, <1>6, <1>9
  <2>3. ASSUME NEW i \in 1 .. p + 1 PROVE u[i] = t[i]
    <3>1. u[i] = IF i <= p - 1 THEN x[i] ELSE y[i - (p - 1)]
      BY <1>6, <2>1, <2>2
    <3>2. CASE i <= p - 1
      BY <1>1, <1>6, <3>1, <3>2
    <3>3. CASE i = p
      BY <1>1, <1>9, <3>1, <3>3
    <3>4. CASE i = p + 1
      BY <1>1, <1>9, <3>1, <3>4
    <3>. QED
      BY <1>1, <3>2, <3>3, <3>4
  <2>. QED
    BY <2>1, <2>2, <2>3
<1>12. PICK v : v = u \o z
  OBVIOUS
<1>13. v \in Seq(Cook!Char) /\ Len(v) = e - 1 /\ \A i \in 1 .. e - 1 : v[i] = t[i]
  <2>1. /\ v \in Seq(Cook!Char) /\ Len(v) = Len(u) + Len(z)
        /\ \A i \in 1 .. Len(u) + Len(z) : v[i] = IF i <= Len(u) THEN u[i] ELSE z[i - Len(u)]
    <3>1. u \in Seq(Cook!Char) /\ z \in Seq(Cook!Char)
      BY <1>8, <1>11
    <3>. QED
      BY <1>12, <3>1, ConcatProperties
  <2>2. Len(u) + Len(z) = e - 1
    BY <1>1, <1>8, <1>11
  <2>3. ASSUME NEW i \in 1 .. e - 1 PROVE v[i] = t[i]
    <3>1. v[i] = IF i <= p + 1 THEN u[i] ELSE z[i - (p + 1)]
      BY <1>11, <2>1, <2>2
    <3>2. CASE i <= p + 1
      BY <1>1, <1>11, <3>1, <3>2
    <3>3. CASE i > p + 1
      <4>1. i - (p + 1) \in 1 .. e - (p + 2) /\ p + 1 + (i - (p + 1)) = i /\ ~ (i <= p + 1)
        BY <1>1, <3>3
      <4>. QED
        BY <1>8, <3>1, <4>1
    <3>. QED
      BY <1>1, <3>2, <3>3
  <2>. QED
    BY <2>1, <2>2, <2>3
<1>14. v = w
  <2>1. Len(v) = Len(w) /\ \A i \in 1 .. Len(v) : v[i] = w[i]
    BY <1>7, <1>13
  <2>. QED
    BY <1>7, <1>13, <2>1, SeqEqual
<1>. QED
  BY <1>3, <1>4, <1>5, <1>10, <1>12, <1>14 DEF y

(* The pieces put together, from the first on.                             *)
Joins(q, g, n) ==
  g = [k \in 0 .. n |-> IF k = 0 THEN q[0] ELSE g[k - 1] \o <<"%", "n">> \o q[k]]

LEMMA JoinsExists ==
  ASSUME NEW q, NEW m \in Nat
  PROVE  \E g : Joins(q, g, m)
<1>. DEFINE G == {n \in Nat : \E g : Joins(q, g, n)}
<1>1. 0 \in G
  <2>. DEFINE f == [k \in 0 .. 0 |-> q[0]]
  <2>1. \A k \in 0 .. 0 : k = 0
    OBVIOUS
  <2>2. [k \in 0 .. 0 |-> IF k = 0 THEN q[0] ELSE f[k - 1] \o <<"%", "n">> \o q[k]] = f
    BY <2>1, Zenon
  <2>3. Joins(q, f, 0)
    BY <2>2 DEF Joins
  <2>. QED
    BY <2>3
<1>2. ASSUME NEW n \in G PROVE n + 1 \in G
  <2>1. PICK g : Joins(q, g, n)
    BY <1>2
  <2>2. n \in Nat /\ n + 1 \in Nat
    BY <1>2
  <2>. DEFINE h == [k \in 0 .. n + 1 |-> IF k <= n THEN g[k] ELSE g[n] \o <<"%", "n">> \o q[k]]
  <2>3. \A k \in 0 .. n : g[k] = IF k = 0 THEN q[0] ELSE g[k - 1] \o <<"%", "n">> \o q[k]
    BY <2>1 DEF Joins
  <2>4. ASSUME NEW k \in 0 .. n + 1
        PROVE  h[k] = IF k = 0 THEN q[0] ELSE h[k - 1] \o <<"%", "n">> \o q[k]
    <3>1. CASE k = 0
      BY <2>2, <2>3, <3>1
    <3>2. CASE k # 0 /\ k <= n
      <4>1. k \in 0 .. n /\ h[k] = g[k] /\ h[k - 1] = g[k - 1]
        BY <2>2, <3>2
      <4>. QED
        BY <2>3, <3>2, <4>1
    <3>3. CASE k = n + 1
      <4>1. h[k] = g[n] \o <<"%", "n">> \o q[k] /\ h[k - 1] = g[n] /\ k # 0
        BY <2>2, <3>3
      <4>. QED
        BY <4>1
    <3>. QED
      BY <2>2, <3>1, <3>2, <3>3
  <2>5. h = [k \in 0 .. n + 1 |-> h[k]]
    OBVIOUS
  <2>. HIDE DEF h
  <2>6. Joins(q, h, n + 1)
    BY <2>4, <2>5 DEF Joins
  <2>. QED
    BY <2>2, <2>6
<1>. HIDE DEF G
<1>3. G \subseteq Nat
  BY DEF G
<1>4. G = Nat
  BY <1>1, <1>2, <1>3, NatSteps
<1>. QED
  BY <1>4 DEF G

(* Up to the j-th separator the text is put together from the first j      *)
(* cookies and one more.                                                   *)
LEMMA JoinedUpTo ==
  ASSUME NEW t, Good(t), NEW m \in Nat, m = Cardinality(Cook!Separators(t)),
         NEW q, \A j \in 0 .. m : q[j] = Cook!get_i_th_cookie(t, j),
         NEW g, Joins(q, g, m)
  PROVE  g[m] = t
<1>1. PICK l \in Nat : l = Len(t)
  BY DEF Good
<1>. DEFINE G == {j \in Nat : j <= m => g[j] = SubSeq(t, 1, At(t, j) - 1)}
<1>2. 0 \in G
  <2>1. 0 \in 0 .. m
    OBVIOUS
  <2>2. g[0] = Cook!get_i_th_cookie(t, 0)
    BY <2>1 DEF Joins
  <2>. QED
    BY <1>1, <2>1, <2>2, PieceIs DEF Piece
<1>3. ASSUME NEW j \in G PROVE j + 1 \in G
  <2>. SUFFICES ASSUME j + 1 <= m
                PROVE  g[j + 1] = SubSeq(t, 1, At(t, j + 1) - 1)
    BY <1>3
  <2>1. PICK n \in 1 .. m : n = j + 1 /\ n - 1 = j /\ n > 0 /\ n \in 0 .. m /\ n \in Nat
    <3>1. j + 1 \in 1 .. m /\ (j + 1) - 1 = j /\ j + 1 > 0 /\ j + 1 \in 0 .. m /\ j + 1 \in Nat
      BY <1>3
    <3>. QED
      BY <3>1
  <2>2. g[n] = g[j] \o <<"%", "n">> \o Cook!get_i_th_cookie(t, n)
    <3>1. g[n] = g[n - 1] \o <<"%", "n">> \o q[n]
      <4>1. g[n] = IF n = 0 THEN q[0] ELSE g[n - 1] \o <<"%", "n">> \o q[n]
        BY <2>1, Zenon DEF Joins
      <4>2. n # 0
        BY <2>1
      <4>. QED
        BY <4>1, <4>2, Zenon
    <3>2. q[n] = Cook!get_i_th_cookie(t, n)
      BY <2>1
    <3>. QED
      BY <2>1, <3>1, <3>2
  <2>3. g[j] = SubSeq(t, 1, At(t, j) - 1)
    BY <1>3, <2>1
  <2>4. /\ At(t, n) \in 2 .. l + 1 /\ At(t, j) \in Cook!Separators(t) /\ At(t, j) + 2 <= At(t, n)
        /\ Cook!get_i_th_cookie(t, n) = SubSeq(t, At(t, j) + 2, At(t, n) - 1)
    <3>. HIDE DEF G
    <3>1. /\ At(t, n) \in 2 .. l + 1
          /\ n > 0 => /\ At(t, n - 1) \in Cook!Separators(t) /\ At(t, n - 1) + 2 <= At(t, n)
                      /\ Cook!get_i_th_cookie(t, n) = SubSeq(t, At(t, n - 1) + 2, At(t, n) - 1)
      <4>1. Piece(t, l, m, n)
        BY <1>1, <2>1, PieceIs
      <4>. QED
        BY <4>1 DEF Piece
    <3>. QED
      BY <2>1, <3>1
  <2>5. PICK p \in Cook!Separators(t), e \in 2 .. l + 1 : p = At(t, j) /\ e = At(t, n) /\ p + 2 <= e
    BY <2>4
  <2>6. SubSeq(t, 1, p - 1) \o <<"%", "n">> \o SubSeq(t, p + 2, e - 1) = SubSeq(t, 1, e - 1)
    BY <1>1, <2>5, Joined
  <2>. QED
    BY <2>1, <2>2, <2>3, <2>4, <2>5, <2>6
<1>. HIDE DEF G
<1>4. G \subseteq Nat
  BY DEF G
<1>5. G = Nat
  BY <1>2, <1>3, <1>4, NatSteps
<1>6. g[m] = SubSeq(t, 1, At(t, m) - 1)
  BY <1>5 DEF G
<1>7. At(t, m) = l + 1
  BY <1>1, PieceIs DEF Piece
<1>8. SubSeq(t, 1, l) = t
  <2>1. t \in Seq(Cook!Char)
    BY DEF Good
  <2>. QED
    BY <1>1, <2>1, SubSeqFull
<1>. QED
  BY <1>6, <1>7, <1>8

CookInv ==
  /\ cookies # <<>> => Good(cookies) /\ cookie_count = Cook!count_cookies(cookies)
  /\ cookies = <<>> => cookie_buf = <<>>
  /\ asked \in Int
  /\ cookie_buf # <<>> =>
       cookie_buf = Cook!get_i_th_cookie(cookies, IF asked < 0 THEN 0 ELSE asked % cookie_count)

LEMMA CookInit == Cook!Init => CookInv
BY DEF Cook!Init, CookInv

LEMMA CookNext == CookInv /\ [Cook!Next]_cookVars => CookInv'
<1>. SUFFICES ASSUME CookInv, [Cook!Next]_cookVars PROVE CookInv'
  OBVIOUS
<1>1. CASE Cook!init_cookies
  <2>1. PICK t \in UNION {[1 .. n -> Cook!Char] : n \in 1 .. MaxText} :
          t[1] # "%" /\ cookies' = t /\ cookie_count' = Cook!count_cookies(t)
    BY <1>1 DEF Cook!init_cookies
  <2>2. t \in Seq(Cook!Char) /\ t # <<>>
    <3>1. PICK n \in 1 .. MaxText : t \in [1 .. n -> Cook!Char]
      OBVIOUS
    <3>2. t \in Seq(Cook!Char) /\ Len(t) = n /\ n > 0
      BY <3>1
    <3>. QED
      BY <3>2, EmptySeq
  <2>3. cookies = <<>> /\ cookie_buf' = cookie_buf /\ asked' = asked
    BY <1>1 DEF Cook!init_cookies
  <2>. QED
    BY <2>1, <2>2, <2>3 DEF CookInv, Good
<1>2. ASSUME NEW i \in -1 .. MaxIndex, Cook!get_cookie(i) PROVE CookInv'
  BY <1>2 DEF CookInv, Cook!get_cookie
<1>3. CASE UNCHANGED cookVars
  BY <1>3 DEF CookInv, cookVars
<1>. QED
  BY <1>1, <1>2, <1>3 DEF Cook!Next

LEMMA CookGood == CookInv => Cook!CookieRight
<1>. SUFFICES ASSUME CookInv, cookies # <<>> PROVE Cook!CookieRight
  BY DEF Cook!CookieRight
<1>1. PICK l \in Nat : l = Len(cookies)
  BY DEF CookInv, Good
<1>2. Good(cookies) /\ IsFiniteSet(Cook!Separators(cookies))
  BY <1>1, Separated DEF CookInv
<1>3. PICK m \in Nat : m = Cardinality(Cook!Separators(cookies))
  BY <1>2, FS_CardinalityType
<1>4. cookie_count = m + 1 /\ cookie_count - 1 = m
  BY <1>3, CookCardinality DEF CookInv, Cook!count_cookies
<1>. DEFINE piece == [k \in 0 .. m |-> Cook!get_i_th_cookie(cookies, k)]
            joined == CHOOSE g : Joins(piece, g, m)
<1>5. \A k \in 0 .. m : piece[k] = Cook!get_i_th_cookie(cookies, k)
  OBVIOUS
<1>6. Joins(piece, joined, m)
  BY JoinsExists
<1>7. Cook!CookieRight <=>
        /\ \A k \in 0 .. m : Cook!Separators(piece[k]) = {}
        /\ joined[m] = cookies
        /\ cookie_buf # <<>> => cookie_buf = piece[IF asked < 0 THEN 0 ELSE asked % cookie_count]
  BY <1>4 DEF Cook!CookieRight, Joins
<1>. HIDE DEF piece, joined
<1>8. ASSUME NEW k \in 0 .. m PROVE Cook!Separators(piece[k]) = {}
  <2>1. Cook!Separators(Cook!get_i_th_cookie(cookies, k)) = {}
    BY <1>1, <1>2, <1>3, PieceIs DEF Piece
  <2>. QED
    BY <1>5, <2>1
<1>9. joined[m] = cookies
  BY <1>2, <1>3, <1>5, <1>6, JoinedUpTo
<1>10. ASSUME cookie_buf # <<>>
       PROVE  cookie_buf = piece[IF asked < 0 THEN 0 ELSE asked % cookie_count]
  <2>1. PICK i : i = IF asked < 0 THEN 0 ELSE asked % cookie_count
    OBVIOUS
  <2>2. cookie_buf = Cook!get_i_th_cookie(cookies, i) /\ asked \in Int
    BY <1>10, <2>1 DEF CookInv
  <2>3. i \in 0 .. m
    <3>1. m + 1 \in Nat \ {0} /\ asked % (m + 1) \in 0 .. (m + 1) - 1
      BY <2>2
    <3>. QED
      BY <1>4, <2>1, <3>1
  <2>. QED
    BY <1>5, <2>1, <2>2, <2>3
<1>. QED
  BY <1>7, <1>8, <1>9, <1>10

-----------------------------------------------------------------------------
(***************************************************************************)
(* reflectord and udp-sender.  The loop of the checksum adds one word      *)
(* after another, so packets whose words are alike have like sums.         *)
(***************************************************************************)
LEMMA ReflConstants ==
  /\ Size \in Nat /\ HeaderSum \in Nat /\ Garbage \subseteq 0 .. 255
  /\ \A t \in Texts : t \in Seq(1 .. 255) /\ Len(t) + 3 <= Size
BY LabsAssumption DEF Refl!ConstantsOK

Sums(b, g, m) == g = [k \in 0 .. m |-> IF k = 0 THEN 0 ELSE g[k - 1] + Refl!Word(b, k)]

LEMMA SumsExists ==
  ASSUME NEW b, NEW m \in Nat
  PROVE  \E g : Sums(b, g, m)
<1>. DEFINE G == {n \in Nat : \E g : Sums(b, g, n)}
<1>1. 0 \in G
  <2>. DEFINE f == [k \in 0 .. 0 |-> 0]
  <2>1. \A k \in 0 .. 0 : k = 0
    OBVIOUS
  <2>2. [k \in 0 .. 0 |-> IF k = 0 THEN 0 ELSE f[k - 1] + Refl!Word(b, k)] = f
    BY <2>1
  <2>3. Sums(b, f, 0)
    BY <2>2 DEF Sums
  <2>. QED
    BY <2>3
<1>2. ASSUME NEW n \in G PROVE n + 1 \in G
  <2>1. PICK g : Sums(b, g, n)
    BY <1>2
  <2>2. n \in Nat /\ n + 1 \in Nat
    BY <1>2
  <2>. DEFINE h == [k \in 0 .. n + 1 |-> IF k <= n THEN g[k] ELSE g[n] + Refl!Word(b, k)]
  <2>3. \A k \in 0 .. n : g[k] = IF k = 0 THEN 0 ELSE g[k - 1] + Refl!Word(b, k)
    BY <2>1 DEF Sums
  <2>4. ASSUME NEW k \in 0 .. n + 1
        PROVE  h[k] = IF k = 0 THEN 0 ELSE h[k - 1] + Refl!Word(b, k)
    <3>1. CASE k = 0
      BY <2>2, <2>3, <3>1
    <3>2. CASE k # 0 /\ k <= n
      <4>1. k \in 0 .. n /\ h[k] = g[k] /\ h[k - 1] = g[k - 1]
        BY <2>2, <3>2
      <4>. QED
        BY <2>3, <3>2, <4>1
    <3>3. CASE k = n + 1
      <4>1. h[k] = g[n] + Refl!Word(b, k) /\ h[k - 1] = g[n] /\ k # 0
        BY <2>2, <3>3
      <4>. QED
        BY <4>1
    <3>. QED
      BY <2>2, <3>1, <3>2, <3>3
  <2>5. h = [k \in 0 .. n + 1 |-> h[k]]
    OBVIOUS
  <2>. HIDE DEF h
  <2>6. Sums(b, h, n + 1)
    BY <2>4, <2>5 DEF Sums
  <2>. QED
    BY <2>2, <2>6
<1>. HIDE DEF G
<1>3. G \subseteq Nat
  BY DEF G
<1>4. G = Nat
  BY <1>1, <1>2, <1>3, NatSteps
<1>. QED
  BY <1>4 DEF G

Adding(b, g, m) == g[0] = 0 /\ \A k \in 1 .. m : g[k] = g[k - 1] + Refl!Word(b, k)

LEMMA SumSteps ==
  ASSUME NEW b, NEW m \in Nat
  PROVE  \E g : Refl!SumOfWords(b, m) = g[m] /\ Adding(b, g, m)
<1>. DEFINE f == CHOOSE g : Sums(b, g, m)
<1>1. Sums(b, f, m)
  BY SumsExists
<1>2. Refl!SumOfWords(b, m) = f[m]
  BY DEF Refl!SumOfWords, Sums
<1>. HIDE DEF f
<1>3. \A k \in 0 .. m : f[k] = IF k = 0 THEN 0 ELSE f[k - 1] + Refl!Word(b, k)
  BY <1>1 DEF Sums
<1>4. f[0] = 0
  BY <1>3
<1>5. \A k \in 1 .. m : f[k] = f[k - 1] + Refl!Word(b, k)
  BY <1>3
<1>. QED
  BY <1>2, <1>4, <1>5 DEF Adding

(* The vectors of test-checksum.c.                                         *)
LEMMA Vectors == Refl!TestVectors
<1>1. Refl!Checksum(<<1, 0, 1, 0>>, 4, 0) = 65533
  <2>. DEFINE b == <<1, 0, 1, 0>>
  <2>1. Refl!Word(b, 1) = 1 /\ Refl!Word(b, 2) = 1
    BY DEF Refl!Word
  <2>. HIDE DEF b
  <2>2. Refl!Total(b, 4) = Refl!SumOfWords(b, 2)
    BY DEF Refl!Total
  <2>3. PICK g : Refl!SumOfWords(b, 2) = g[2] /\ Adding(b, g, 2)
    BY SumSteps
  <2>4. g[1] = 1 /\ g[2] = 2
    BY <2>1, <2>3 DEF Adding
  <2>5. Refl!Checksum(b, 4, 0) = 65533
    BY <2>2, <2>3, <2>4 DEF Refl!Checksum, Refl!Folded
  <2>. QED
    BY <2>5 DEF b
<1>2. Refl!Checksum(<<96, 102, 85, 85, 12, 143>>, 6, 0) = 46397
  <2>. DEFINE b == <<96, 102, 85, 85, 12, 143>>
  <2>1. Refl!Word(b, 1) = 26208 /\ Refl!Word(b, 2) = 21845 /\ Refl!Word(b, 3) = 36620
    BY DEF Refl!Word
  <2>. HIDE DEF b
  <2>2. Refl!Total(b, 6) = Refl!SumOfWords(b, 3)
    BY DEF Refl!Total
  <2>3. PICK g : Refl!SumOfWords(b, 3) = g[3] /\ Adding(b, g, 3)
    BY SumSteps
  <2>4. g[1] = 26208 /\ g[2] = 48053 /\ g[3] = 84673
    BY <2>1, <2>3 DEF Adding
  <2>5. Refl!Checksum(b, 6, 0) = 46397
    BY <2>2, <2>3, <2>4 DEF Refl!Checksum, Refl!Folded
  <2>. QED
    BY <2>5 DEF b
<1>3. Refl!Checksum(<<96, 102, 85, 85, 65, 0, 0, 0>>, 5, 0) = 17417
  <2>. DEFINE b == <<96, 102, 85, 85, 65, 0, 0, 0>>
  <2>1. /\ Refl!Word(b, 1) = 26208 /\ Refl!Word(b, 2) = 21845
        /\ Refl!Word(b, 3) = 65 /\ Refl!Word(b, 4) = 0
    BY DEF Refl!Word
  <2>. HIDE DEF b
  <2>2. Refl!Total(b, 5) = Refl!SumOfWords(b, 4)
    BY DEF Refl!Total
  <2>3. PICK g : Refl!SumOfWords(b, 4) = g[4] /\ Adding(b, g, 4)
    BY SumSteps
  <2>4. g[1] = 26208 /\ g[2] = 48053 /\ g[3] = 48118 /\ g[4] = 48118
    BY <2>1, <2>3 DEF Adding
  <2>5. Refl!Checksum(b, 5, 0) = 17417
    BY <2>2, <2>3, <2>4 DEF Refl!Checksum, Refl!Folded
  <2>. QED
    BY <2>5 DEF b
<1>. QED
  BY <1>1, <1>2, <1>3 DEF Refl!TestVectors

(* Packets that are alike in their first j words.                          *)
Alike(b, d, j) == \A k \in 1 .. j : Refl!Word(b, k) \in Nat /\ Refl!Word(d, k) = Refl!Word(b, k)

LEMMA LikeSums ==
  ASSUME NEW b, NEW d, NEW m \in Nat, NEW j \in 0 .. m, NEW g, NEW h,
         Adding(b, g, m), Adding(d, h, m), Alike(b, d, j)
  PROVE  g[j] \in Nat /\ h[j] = g[j]
<1>. DEFINE G == {k \in Nat : k <= j => g[k] \in Nat /\ h[k] = g[k]}
<1>1. 0 \in G
  BY DEF Adding
<1>2. ASSUME NEW k \in G PROVE k + 1 \in G
  <2>. SUFFICES ASSUME k + 1 <= j PROVE g[k + 1] \in Nat /\ h[k + 1] = g[k + 1]
    BY <1>2
  <2>1. k + 1 \in 1 .. m /\ k + 1 \in 1 .. j /\ (k + 1) - 1 = k /\ g[k] \in Nat /\ h[k] = g[k]
    BY <1>2
  <2>2. g[k + 1] = g[k] + Refl!Word(b, k + 1) /\ h[k + 1] = h[k] + Refl!Word(d, k + 1)
    BY <2>1 DEF Adding
  <2>3. Refl!Word(b, k + 1) \in Nat /\ Refl!Word(d, k + 1) = Refl!Word(b, k + 1)
    BY <2>1 DEF Alike
  <2>. QED
    BY <2>1, <2>2, <2>3
<1>. HIDE DEF G
<1>3. G \subseteq Nat
  BY DEF G
<1>4. G = Nat
  BY <1>1, <1>2, <1>3, NatSteps
<1>. QED
  BY <1>4 DEF G

(* A packet with a text of n bytes, and the sums of what is sent and of    *)
(* what comes back: an odd text has the dot in its last word.              *)
TextIn(d, n) ==
  /\ n \in Nat /\ n + 3 <= Size /\ d \in [1 .. Size -> 0 .. 255]
  /\ \A k \in 1 .. n : d[k] # 0
  /\ d[n + 1] = 0

LEMMA Dotted ==
  ASSUME NEW d, NEW n, TextIn(d, n)
  PROVE  Refl!AppendDot(d) = [k \in 1 .. Size |-> IF k = n + 1 THEN 46 ELSE IF k = n + 2 THEN 0 ELSE d[k]]
<1>. DEFINE z == {k \in 1 .. Size : d[k] = 0}
<1>1. n \in Nat /\ n + 1 \in 1 .. Size /\ Size \in Nat
  BY ReflConstants DEF TextIn
<1>2. n + 1 \in z /\ \A k \in z : n + 1 <= k /\ k \in Nat
  BY <1>1 DEF TextIn
<1>. HIDE DEF z
<1>3. \E x \in z : \A y \in z : x <= y
  BY <1>2
<1>4. Refl!Min(z) \in z /\ \A y \in z : Refl!Min(z) <= y
  BY <1>3 DEF Refl!Min
<1>5. Refl!Min(z) = n + 1
  <2>1. PICK x \in z : x = Refl!Min(z) /\ x <= n + 1
    BY <1>2, <1>4
  <2>. QED
    BY <1>1, <1>2, <2>1
<1>6. z # {} /\ (n + 1) + 1 = n + 2
  BY <1>1, <1>2
<1>7. Refl!AppendDot(d) =
        IF z = {} THEN d
        ELSE [k \in 1 .. Size |-> IF k = Refl!Min(z) THEN 46 ELSE IF k = Refl!Min(z) + 1 THEN 0 ELSE d[k]]
  BY DEF Refl!AppendDot, Refl!Dot, z
<1>. QED
  BY <1>5, <1>6, <1>7

(* What a dot in place of a NUL, and a NUL in place of any byte, add.      *)
Dots(x, y) == \E c \in 11521 .. 11776 : y = x + c

LEMMA SumsDiffer ==
  ASSUME NEW x \in Nat, NEW y \in Nat, Dots(x, y)
  PROVE  Refl!Folded(x) # Refl!Folded(y)
<1>. PICK c \in 11521 .. 11776 : y = x + c
  BY DEF Dots
<1>1. y = x + c /\ x + c # 0 /\ c \in Nat
  OBVIOUS
<1>2. Refl!Folded(y) = ((x + c - 1) % 65535) + 1
  BY <1>1 DEF Refl!Folded
<1>3. CASE x = 0
  <2>1. (x + c - 1) % 65535 = c - 1
    BY <1>3
  <2>. QED
    BY <1>1, <1>2, <1>3, <2>1 DEF Refl!Folded
<1>4. CASE x # 0
  <2>1. Refl!Folded(x) = ((x - 1) % 65535) + 1
    BY <1>4 DEF Refl!Folded
  <2>2. PICK a \in Nat : a = x - 1 /\ x + c - 1 = a + c
    <3>1. x - 1 \in Nat /\ x + c - 1 = (x - 1) + c
      BY <1>4
    <3>. QED
      BY <3>1
  <2>3. a % 65535 # (a + c) % 65535 /\ a % 65535 \in Nat /\ (a + c) % 65535 \in Nat
    OBVIOUS
  <2>. QED
    BY <1>2, <2>1, <2>2, <2>3
<1>. QED
  BY <1>3, <1>4

LEMMA FoldedInt == \A x \in Nat : Refl!Folded(x) \in Int
<1>. SUFFICES ASSUME NEW x \in Nat PROVE Refl!Folded(x) \in Int
  OBVIOUS
<1>1. CASE x = 0
  BY <1>1 DEF Refl!Folded
<1>2. CASE x # 0
  <2>1. (x - 1) \in Nat
    BY <1>2
  <2>2. ((x - 1) % 65535) \in Int
    BY <2>1
  <2>. QED
    BY <1>2, <2>2 DEF Refl!Folded
<1>. QED
  BY <1>1, <1>2

LEMMA DotSeen ==
  ASSUME NEW d, NEW n, TextIn(d, n), NEW e, e = Refl!AppendDot(d)
  PROVE  Refl!Checksum(e, n, HeaderSum) = Refl!Checksum(d, n, HeaderSum) <=> n % 2 # 1
<1>1. n \in Nat /\ HeaderSum \in Nat /\ Size \in Nat /\ n + 3 <= Size
  BY ReflConstants DEF TextIn
<1>2. /\ \A k \in 1 .. Size : d[k] \in 0 .. 255
      /\ \A k \in 1 .. Size : e[k] = IF k = n + 1 THEN 46 ELSE IF k = n + 2 THEN 0 ELSE d[k]
      /\ d[n + 1] = 0
  <2>1. e = [k \in 1 .. Size |-> IF k = n + 1 THEN 46 ELSE IF k = n + 2 THEN 0 ELSE d[k]]
    BY Dotted
  <2>2. d \in [1 .. Size -> 0 .. 255] /\ d[n + 1] = 0
    BY DEF TextIn
  <2>. QED
    BY <2>1, <2>2
<1>3. ASSUME NEW k \in Nat, k >= 1, 2 * k <= n
      PROVE  Refl!Word(d, k) \in Nat /\ Refl!Word(e, k) = Refl!Word(d, k)
  <2>1. PICK i, j \in 1 .. n : i = 2 * k - 1 /\ j = 2 * k
    BY <1>1, <1>3
  <2>2. i \in 1 .. Size /\ j \in 1 .. Size /\ e[i] = d[i] /\ e[j] = d[j]
    BY <1>1, <1>2
  <2>3. PICK v, w \in 0 .. 255 : v = d[i] /\ w = d[j]
    BY <1>2, <2>2, Zenon
  <2>4. Refl!Word(d, k) = v + 256 * w /\ Refl!Word(e, k) = v + 256 * w
    BY <2>1, <2>2, <2>3 DEF Refl!Word
  <2>5. v + 256 * w \in Nat
    OBVIOUS
  <2>. QED
    BY <2>4, <2>5
<1>4. CASE n % 2 = 0
  <2>1. PICK m \in Nat : n = 2 * m /\ ((n + 1) \div 2) + (n % 2) = m
    <3>1. n \div 2 \in Nat /\ n = 2 * (n \div 2) /\ ((n + 1) \div 2) + (n % 2) = n \div 2
      BY <1>1, <1>4
    <3>. QED
      BY <3>1
  <2>2. PICK g : Refl!SumOfWords(d, m) = g[m] /\ Adding(d, g, m)
    BY SumSteps
  <2>3. PICK h : Refl!SumOfWords(e, m) = h[m] /\ Adding(e, h, m)
    BY SumSteps
  <2>4. m \in 0 .. m
    OBVIOUS
  <2>5. Alike(d, e, m)
    <3>1. ASSUME NEW k \in 1 .. m PROVE k \in Nat /\ k >= 1 /\ 2 * k <= n
      BY <2>1
    <3>. QED
      BY <1>3, <3>1 DEF Alike
  <2>6. h[m] = g[m]
    BY <2>2, <2>3, <2>4, <2>5, LikeSums
  <2>7. Refl!Total(e, n) = Refl!Total(d, n)
    BY <2>1, <2>2, <2>3, <2>6 DEF Refl!Total
  <2>. QED
    BY <1>4, <2>7 DEF Refl!Checksum
<1>5. CASE n % 2 = 1
  <2>1. PICK j \in Nat : n = 2 * j + 1 /\ ((n + 1) \div 2) + (n % 2) = j + 2
    <3>1. n \div 2 \in Nat /\ n = 2 * (n \div 2) + 1 /\ ((n + 1) \div 2) + (n % 2) = (n \div 2) + 2
      BY <1>1, <1>5
    <3>. QED
      BY <3>1
  <2>2. PICK m \in Nat : m = j + 2
    OBVIOUS
  <2>3. PICK g : Refl!SumOfWords(d, m) = g[m] /\ Adding(d, g, m)
    BY SumSteps
  <2>4. PICK h : Refl!SumOfWords(e, m) = h[m] /\ Adding(e, h, m)
    BY SumSteps
  <2>5. g[j] \in Nat /\ h[j] = g[j]
    <3>1. Alike(d, e, j)
      <4>1. ASSUME NEW k \in 1 .. j PROVE k \in Nat /\ k >= 1 /\ 2 * k <= n
        BY <2>1
      <4>. QED
        BY <1>3, <4>1 DEF Alike
    <3>2. j \in 0 .. m
      BY <2>2
    <3>. QED
      BY <2>3, <2>4, <3>1, <3>2, LikeSums
  <2>6. /\ n \in 1 .. Size /\ n + 1 \in 1 .. Size /\ n + 2 \in 1 .. Size /\ n + 3 \in 1 .. Size
        /\ 2 * (j + 1) - 1 = n /\ 2 * (j + 1) = n + 1 /\ 2 * (j + 2) - 1 = n + 2 /\ 2 * (j + 2) = n + 3
    BY <1>1, <2>1
  <2>7. PICK a, b, c \in 0 .. 255 : a = d[n] /\ b = d[n + 2] /\ c = d[n + 3]
    BY <1>2, <2>6, Zenon
  <2>8. Refl!Word(d, j + 1) = a /\ Refl!Word(d, j + 2) = b + 256 * c
    BY <1>2, <2>6, <2>7 DEF Refl!Word
  <2>9. Refl!Word(e, j + 1) = a + 11776 /\ Refl!Word(e, j + 2) = 256 * c
    <3>1. e[n] = a /\ e[n + 1] = 46 /\ e[n + 2] = 0 /\ e[n + 3] = c
      BY <1>1, <1>2, <2>6, <2>7
    <3>. QED
      BY <2>6, <2>7, <3>1 DEF Refl!Word
  <2>10. j + 1 \in 1 .. m /\ j + 2 \in 1 .. m /\ (j + 1) - 1 = j /\ (j + 2) - 1 = j + 1 /\ j + 2 = m
    BY <2>2
  <2>11. g[m] = g[j] + a + (b + 256 * c)
    <3>1. g[j + 1] = g[j] + Refl!Word(d, j + 1) /\ g[j + 2] = g[j + 1] + Refl!Word(d, j + 2)
      BY <2>3, <2>10 DEF Adding
    <3>. QED
      BY <2>5, <2>8, <2>10, <3>1
  <2>12. h[m] = g[j] + (a + 11776) + 256 * c
    <3>1. h[j + 1] = h[j] + Refl!Word(e, j + 1) /\ h[j + 2] = h[j + 1] + Refl!Word(e, j + 2)
      BY <2>4, <2>10 DEF Adding
    <3>. QED
      BY <2>5, <2>9, <2>10, <3>1
  <2>13. PICK x, y \in Nat : HeaderSum + g[m] = x /\ HeaderSum + h[m] = y /\ Dots(x, y)
    <3>1. PICK s \in Nat : s = g[j]
      BY <2>5
    <3>2. g[m] = s + a + (b + 256 * c) /\ h[m] = s + (a + 11776) + 256 * c
      BY <2>11, <2>12, <3>1
    <3>3. PICK t \in Nat : t = HeaderSum + (s + a + (b + 256 * c))
      <4>1. HeaderSum + (s + a + (b + 256 * c)) \in Nat
        BY <1>1
      <4>. QED
        BY <4>1
    <3>4. 11776 - b \in 11521 .. 11776
      OBVIOUS
    <3>5. PICK z \in 11521 .. 11776 : z = 11776 - b
      BY <3>4
    <3>6. PICK u \in Nat : u = t + z
      OBVIOUS
    <3>7. HeaderSum + (s + (a + 11776) + 256 * c) = u
      BY <1>1, <3>3, <3>5, <3>6
    <3>8. HeaderSum + g[m] = t /\ HeaderSum + h[m] = u
      BY <3>2, <3>3, <3>7
    <3>9. Dots(t, u)
      BY <3>6 DEF Dots
    <3>. QED
      BY <3>8, <3>9
  <2>14. Refl!Folded(x) # Refl!Folded(y) /\ Refl!Folded(x) \in Int /\ Refl!Folded(y) \in Int
    <3>1. \A i \in Nat : Refl!Folded(i) \in Int
      BY FoldedInt
    <3>2. Refl!Folded(x) # Refl!Folded(y)
      BY <2>13, SumsDiffer
    <3>. QED
      BY <3>1, <3>2
  <2>15. Refl!Total(d, n) = g[m] /\ Refl!Total(e, n) = h[m]
    BY <2>1, <2>2, <2>3, <2>4 DEF Refl!Total
  <2>16. Refl!Checksum(d, n, HeaderSum) = 65535 - Refl!Folded(x)
         /\ Refl!Checksum(e, n, HeaderSum) = 65535 - Refl!Folded(y)
    BY <2>13, <2>15 DEF Refl!Checksum
  <2>. QED
    BY <1>5, <2>14, <2>16
<1>. QED
  BY <1>1, <1>4, <1>5

(* The packet of the sender has its text in it and the checksum of the     *)
(* text; read whole, it comes back with its dot; and when that is read     *)
(* whole, what the checksum says depends on the length of the text alone.  *)
ReflSent ==
  /\ TextIn(packet.data, Len(text))
  /\ packet.check = Refl!Checksum(packet.data, Len(text), HeaderSum)

ReflBack == stack.check = packet.check /\ stack.data = Refl!AppendDot(packet.data)

ReflSeen == judged = "corrupted" <=> (Len(text) % 2) = 1

ReflInv ==
  /\ judged \in {"none", "sent", "returned", "intact", "corrupted"}
  /\ judged \in {"sent", "returned"} => ReflSent
  /\ judged = "returned" /\ whole => ReflBack
  /\ judged \in {"intact", "corrupted"} /\ whole => ReflSeen

LEMMA ReflInit == Refl!Init => ReflInv
BY DEF Refl!Init, ReflInv

LEMMA Packed ==
  ASSUME NEW t \in Texts, NEW n \in Nat, n = Len(t),
         NEW junk, junk \in [n + 2 .. Size -> Garbage],
         NEW d, d = [k \in 1 .. Size |-> IF k <= n THEN t[k] ELSE IF k = n + 1 THEN 0 ELSE junk[k]]
  PROVE  TextIn(d, n)
<1>1. Size \in Nat /\ Garbage \subseteq 0 .. 255 /\ n + 3 <= Size /\ t \in Seq(1 .. 255)
  BY ReflConstants
<1>2. \A k \in 1 .. n : t[k] \in 1 .. 255
  BY <1>1, ElementOfSeq
<1>3. ASSUME NEW k \in 1 .. Size PROVE d[k] \in 0 .. 255
  <2>1. k <= n \/ k = n + 1 \/ k >= n + 2
    BY <1>1
  <2>2. ASSUME k >= n + 2 PROVE d[k] \in 0 .. 255
    <3>1. d[k] = junk[k]
      BY <2>2
    <3>2. junk[k] \in Garbage
      BY <1>1, <2>2
    <3>. QED
      BY <1>1, <3>1, <3>2
  <2>3. ASSUME k <= n PROVE d[k] \in 0 .. 255
    <3>1. d[k] = t[k] /\ k \in 1 .. n
      BY <2>3
    <3>. QED
      BY <1>2, <3>1
  <2>4. ASSUME k = n + 1 PROVE d[k] \in 0 .. 255
    BY <2>4
  <2>. QED
    BY <2>1, <2>2, <2>3, <2>4
<1>4. d \in [1 .. Size -> 0 .. 255]
  <2>1. d = [k \in 1 .. Size |-> d[k]]
    OBVIOUS
  <2>. QED
    BY <1>3, <2>1
<1>5. (\A k \in 1 .. n : d[k] # 0) /\ d[n + 1] = 0
  <2>1. ASSUME NEW k \in 1 .. Size, k <= n PROVE d[k] # 0
    <3>1. d[k] = t[k] /\ k \in 1 .. n
      BY <2>1
    <3>2. PICK v \in 1 .. 255 : v = t[k]
      BY <1>2, <3>1
    <3>3. v # 0
      OBVIOUS
    <3>. QED
      BY <3>1, <3>2, <3>3, Zenon
  <2>2. d[n + 1] = 0
    BY <1>1
  <2>3. \A k \in 1 .. n : k \in 1 .. Size /\ k <= n
    BY <1>1
  <2>. QED
    BY <2>1, <2>2, <2>3
<1>. QED
  BY <1>1, <1>4, <1>5 DEF TextIn

LEMMA ReflSend ==
  ASSUME ReflInv, Refl!Send
  PROVE  ReflInv'
<1>1. judged' = "sent"
  BY DEF Refl!Send
<1>2. PICK t \in Texts : \E junk \in [Len(t) + 2 .. Size -> Garbage] :
        LET d == [k \in 1 .. Size |-> IF k <= Len(t) THEN t[k]
                                      ELSE IF k = Len(t) + 1 THEN 0 ELSE junk[k]] IN
        text' = t /\ packet' = [check |-> Refl!Checksum(d, Len(t), HeaderSum), data |-> d]
  BY Zenon DEF Refl!Send
<1>3. PICK junk \in [Len(t) + 2 .. Size -> Garbage] :
        LET d == [k \in 1 .. Size |-> IF k <= Len(t) THEN t[k]
                                      ELSE IF k = Len(t) + 1 THEN 0 ELSE junk[k]] IN
        text' = t /\ packet' = [check |-> Refl!Checksum(d, Len(t), HeaderSum), data |-> d]
  BY <1>2
<1>. DEFINE d == [k \in 1 .. Size |-> IF k <= Len(t) THEN t[k]
                                      ELSE IF k = Len(t) + 1 THEN 0 ELSE junk[k]]
<1>4. text' = t /\ packet'.data = d /\ packet'.check = Refl!Checksum(d, Len(t), HeaderSum)
  BY <1>3
<1>5. t \in Seq(1 .. 255) /\ Size \in Nat /\ Garbage \subseteq 0 .. 255
  BY ReflConstants
<1>6. PICK n \in Nat : n = Len(t)
  BY <1>5
<1>7. d = [k \in 1 .. Size |-> IF k <= n THEN t[k] ELSE IF k = n + 1 THEN 0 ELSE junk[k]]
  BY <1>6
<1>. HIDE DEF d
<1>8. TextIn(d, n)
  <2>1. junk \in [n + 2 .. Size -> Garbage]
    BY <1>6
  <2>. QED
    BY <1>6, <1>7, <2>1, Packed
<1>9. ReflSent'
  BY <1>4, <1>6, <1>8 DEF ReflSent
<1>. QED
  BY <1>1, <1>9 DEF ReflInv

LEMMA ReflReflect ==
  ASSUME ReflInv, Refl!Reflect
  PROVE  ReflInv'
<1>1. judged' = "returned" /\ UNCHANGED <<text, packet>> /\ ReflSent
  BY DEF Refl!Reflect, ReflInv
<1>2. ReflSent'
  BY <1>1 DEF ReflSent
<1>3. PICK n \in 0 .. Size :
        /\ stack' = [Refl!Received(stack.data, packet, n) EXCEPT !.data = Refl!AppendDot(@)]
        /\ whole' = (n = Size)
  BY Zenon DEF Refl!Reflect
<1>4. ASSUME n = Size PROVE ReflBack'
  <2>1. packet.data \in [1 .. Size -> 0 .. 255] /\ Size \in Nat
    BY <1>1, ReflConstants DEF ReflSent, TextIn
  <2>2. [k \in 1 .. Size |-> IF k <= n THEN packet.data[k] ELSE stack.data[k]] = packet.data
    BY <1>4, <2>1
  <2>3. Refl!Received(stack.data, packet, n) = [check |-> packet.check, data |-> packet.data]
    BY <2>2 DEF Refl!Received
  <2>4. stack'.check = packet.check /\ stack'.data = Refl!AppendDot(packet.data)
    BY <1>3, <2>3
  <2>. QED
    BY <1>1, <2>4 DEF ReflBack
<1>5. whole' => n = Size
  BY <1>3, Zenon
<1>6. whole' => ReflBack'
  BY <1>4, <1>5, Zenon
<1>. QED
  BY <1>1, <1>2, <1>6 DEF ReflInv

LEMMA ReflJudge ==
  ASSUME ReflInv, Refl!Judge
  PROVE  ReflInv'
<1>1. judged = "returned" /\ UNCHANGED <<text, packet, stack>> /\ ReflSent
  BY DEF Refl!Judge, ReflInv
<1>2. PICK n \in 0 .. Size, g \in Garbage :
        LET back == Refl!Received([k \in 1 .. Size |-> g], stack, n) IN
        /\ whole' = (whole /\ n = Size)
        /\ judged' = IF Refl!Checksum(back.data, Len(text), HeaderSum) = back.check
                     THEN "intact" ELSE "corrupted"
  BY Zenon DEF Refl!Judge
<1>. DEFINE back == Refl!Received([k \in 1 .. Size |-> g], stack, n)
<1>3. judged' = IF Refl!Checksum(back.data, Len(text), HeaderSum) = back.check
                THEN "intact" ELSE "corrupted"
  BY <1>2, Zenon
<1>4. whole' => whole /\ n = Size
  BY <1>2, Zenon
<1>5. judged' \in {"intact", "corrupted"}
  BY <1>3
<1>6. ASSUME whole, n = Size PROVE ReflSeen'
  <2>1. ReflBack
    BY <1>1, <1>6, Zenon DEF ReflInv
  <2>. DEFINE d == packet.data
  <2>12. d = packet.data
    OBVIOUS
  <2>. HIDE DEF d
  <2>. DEFINE e == Refl!AppendDot(d)
  <2>13. e = Refl!AppendDot(d)
    OBVIOUS
  <2>. HIDE DEF e
  <2>2. PICK l : l = Len(text) /\ TextIn(d, l)
    BY <1>1, <2>12 DEF ReflSent
  <2>3. e = [k \in 1 .. Size |-> IF k = l + 1 THEN 46 ELSE IF k = l + 2 THEN 0 ELSE d[k]]
    BY <2>2, <2>13, Dotted
  <2>4. Refl!Checksum(e, l, HeaderSum) = Refl!Checksum(d, l, HeaderSum) <=> l % 2 # 1
    BY <2>2, <2>13, DotSeen
  <2>5. Size \in Nat
    BY ReflConstants
  <2>6. [k \in 1 .. Size |-> IF k <= n THEN e[k] ELSE [i \in 1 .. Size |-> g][k]] = e
    <3>1. \A k \in 1 .. Size : (k <= n) /\ e = [i \in 1 .. Size |-> e[i]]
      BY <1>6, <2>3, <2>5
    <3>. QED
      BY <2>3, <3>1
  <2>7. stack.data = e /\ stack.check = packet.check
    BY <2>1, <2>12, <2>13 DEF ReflBack
  <2>8. back.data = e /\ back.check = packet.check
    BY <2>6, <2>7 DEF Refl!Received
  <2>9. packet.check = Refl!Checksum(d, l, HeaderSum)
    BY <1>1, <2>2, <2>12 DEF ReflSent
  <2>. HIDE DEF back
  <2>10. judged' = IF Refl!Checksum(e, l, HeaderSum) = Refl!Checksum(d, l, HeaderSum)
                   THEN "intact" ELSE "corrupted"
    BY <1>3, <2>2, <2>8, <2>9
  <2>11. judged' = "corrupted" <=> l % 2 = 1
    BY <2>4, <2>10
  <2>. QED
    BY <1>1, <2>2, <2>11 DEF ReflSeen
<1>7. whole' => ReflSeen'
  BY <1>4, <1>6, Zenon
<1>. QED
  BY <1>5, <1>7 DEF ReflInv

LEMMA ReflNext == ReflInv /\ [Refl!Next]_reflVars => ReflInv'
<1>1. ASSUME ReflInv, UNCHANGED reflVars PROVE ReflInv'
  <2>1. judged' = judged /\ whole' = whole
    BY <1>1 DEF reflVars
  <2>2. ReflSent' = ReflSent /\ ReflBack' = ReflBack /\ ReflSeen' = ReflSeen
    BY <1>1 DEF reflVars, ReflSent, ReflBack, ReflSeen
  <2>. QED
    BY <1>1, <2>1, <2>2, Zenon DEF ReflInv
<1>. QED
  BY <1>1, ReflSend, ReflReflect, ReflJudge DEF Refl!Next

LEMMA ReflGood == ReflInv => Refl!DotNoticed
BY Vectors, Zenon DEF ReflInv, ReflSeen, Refl!DotNoticed

-----------------------------------------------------------------------------
(***************************************************************************)
(* The CRC of lab08.  A register is a set of bits, and what a step does is *)
(* said of each bit.                                                       *)
(***************************************************************************)
LEMMA RelConstants ==
  /\ cm_width = 16 /\ cm_poly \subseteq 0 .. 15 /\ Ulong \in Nat /\ Ulong >= 16
  /\ Message \subseteq Seq(Rel!Byte)
BY LabsAssumption DEF Rel!ConstantsOK, Rel!CrcConstantsOK

Register == SUBSET (0 .. 15)

LEMMA WordBits ==
  /\ Register \subseteq Rel!Word
  /\ \A w \in Rel!Word : \A k \in w : k \in 0 .. Ulong - 1
BY RelConstants DEF Register, Rel!Word, Rel!Bit

LEMMA NextBitIs ==
  ASSUME NEW r \in Rel!Word
  PROVE  /\ Rel!NextBit[r] \in Register
         /\ \A k \in 0 .. 15 : k \in Rel!NextBit[r] <=> ~(k - 1 \in r <=> 15 \in r /\ k \in cm_poly)
<1>1. Rel!NextBit[r] = Rel!Divide(r) \cap 0 .. 15
  BY RelConstants DEF Rel!NextBit, Rel!widmask
<1>2. \A k \in 0 .. 15 : k \in Rel!ShiftLeft(r, 1) <=> k - 1 \in r
  <2>. SUFFICES ASSUME NEW k \in 0 .. 15 PROVE k \in Rel!ShiftLeft(r, 1) <=> k - 1 \in r
    OBVIOUS
  <2>1. k \in Rel!Bit
    BY RelConstants DEF Rel!Bit
  <2>2. ASSUME k - 1 \in r PROVE k \in Rel!ShiftLeft(r, 1)
    <3>1. k = (k - 1) + 1
      OBVIOUS
    <3>. QED
      BY <2>1, <2>2, <3>1 DEF Rel!ShiftLeft
  <2>3. ASSUME k \in Rel!ShiftLeft(r, 1) PROVE k - 1 \in r
    <3>1. PICK i \in r : k = i + 1
      BY <2>3 DEF Rel!ShiftLeft
    <3>2. i \in 0 .. Ulong - 1
      BY WordBits
    <3>3. i = k - 1
      BY <3>1, <3>2, RelConstants
    <3>. QED
      BY <3>3
  <2>. QED
    BY <2>2, <2>3
<1>3. \A k \in 0 .. 15 : k \in Rel!Divide(r) <=> ~(k - 1 \in r <=> 15 \in r /\ k \in cm_poly)
  <2>1. Rel!Divide(r) = IF 15 \in r THEN Rel!Xor(Rel!ShiftLeft(r, 1), cm_poly) ELSE Rel!ShiftLeft(r, 1)
    BY RelConstants DEF Rel!Divide
  <2>2. CASE 15 \in r
    <3>1. Rel!Divide(r) = Rel!Xor(Rel!ShiftLeft(r, 1), cm_poly)
      BY <2>1, <2>2
    <3>. QED
      BY <1>2, <2>2, <3>1, Zenon DEF Rel!Xor
  <2>3. CASE 15 \notin r
    <3>1. Rel!Divide(r) = Rel!ShiftLeft(r, 1)
      BY <2>1, <2>3
    <3>. QED
      BY <1>2, <2>3, <3>1, Zenon
  <2>. QED
    BY <2>2, <2>3
<1>4. Rel!NextBit[r] \in Register
  BY <1>1 DEF Register
<1>5. \A k \in 0 .. 15 : k \in Rel!NextBit[r] <=> k \in Rel!Divide(r)
  BY <1>1
<1>. QED
  BY <1>3, <1>4, <1>5, Zenon

(* cm_nxt(): the byte goes into the upper half of the register, its lowest *)
(* bit on top, and eight steps follow.                                     *)
Begin(r, w) == Rel!Xor(r, Rel!ShiftLeft(Rel!reflect(w, 8), 8))

LEMMA BeginIs ==
  ASSUME NEW r \in Register, NEW w \in Rel!Word
  PROVE  /\ Begin(r, w) \in Rel!Word
         /\ \A k \in 0 .. 15 : k \in Begin(r, w) <=> ~(k \in r <=> k >= 8 /\ 15 - k \in w)
<1>. DEFINE u == Rel!ShiftLeft(Rel!reflect(w, 8), 8)
<1>1. u \in Rel!Word
  BY DEF Rel!Word, Rel!ShiftLeft
<1>2. \A k \in 0 .. 15 : k \in u <=> k >= 8 /\ 15 - k \in w
  <2>. SUFFICES ASSUME NEW k \in 0 .. 15 PROVE k \in u <=> k >= 8 /\ 15 - k \in w
    OBVIOUS
  <2>1. k \in Rel!Bit
    BY RelConstants DEF Rel!Bit
  <2>2. ASSUME k >= 8, 15 - k \in w PROVE k \in u
    <3>1. PICK i \in w : i = 15 - k
      BY <2>2
    <3>2. i < 8 /\ 8 - 1 - i \in Rel!reflect(w, 8)
      BY <2>2, <3>1 DEF Rel!reflect
    <3>3. k = (8 - 1 - i) + 8
      BY <3>1
    <3>. QED
      BY <2>1, <3>2, <3>3 DEF Rel!ShiftLeft
  <2>3. ASSUME k \in u PROVE k >= 8 /\ 15 - k \in w
    <3>1. PICK j \in Rel!reflect(w, 8) : k = j + 8
      BY <2>3 DEF Rel!ShiftLeft
    <3>2. PICK i \in w : j = IF i < 8 THEN 8 - 1 - i ELSE i
      BY DEF Rel!reflect
    <3>3. i \in 0 .. Ulong - 1
      BY WordBits
    <3>4. i \in Nat
      BY <3>3, RelConstants
    <3>5. i < 8
      BY <3>1, <3>2, <3>4
    <3>6. k >= 8 /\ i = 15 - k
      BY <3>1, <3>2, <3>4, <3>5
    <3>. QED
      BY <3>6
  <2>. QED
    BY <2>2, <2>3
<1>3. r \in Rel!Word
  BY WordBits
<1>. HIDE DEF u
<1>4. Rel!Xor(r, u) \in Rel!Word
  BY <1>1, <1>3 DEF Rel!Xor, Rel!Word
<1>5. \A k \in 0 .. 15 : k \in Rel!Xor(r, u) <=> ~(k \in r <=> k >= 8 /\ 15 - k \in w)
  BY <1>2, Zenon DEF Rel!Xor
<1>. QED
  BY <1>4, <1>5, Zenon DEF Begin, u

(* A loop whose steps are functions on a set S.                            *)
LoopSteps(H, m, S) == \A k \in 1 .. m : H[k] \in [S -> S]
Iterates(g, b, H, m) == g[0] = b /\ \A k \in 1 .. m : g[k] = H[k][g[k - 1]]

LEMMA Loop ==
  ASSUME NEW S, NEW b \in S, NEW m \in Nat, NEW H, LoopSteps(H, m, S)
  PROVE  \E g \in [0 .. m -> S] : Iterates(g, b, H, m)
<1>. USE DEF LoopSteps, Iterates
<1>. DEFINE Up(n) == \E g \in [0 .. n -> S] : Iterates(g, b, H, n)
            G == {n \in Nat : n <= m => Up(n)}
<1>1. 0 \in G
  <2>. DEFINE f == [k \in 0 .. 0 |-> b]
  <2>1. f \in [0 .. 0 -> S] /\ f[0] = b /\ \A k \in 1 .. 0 : FALSE
    OBVIOUS
  <2>. QED
    BY <2>1
<1>2. ASSUME NEW n \in G PROVE n + 1 \in G
  <2>1. n \in Nat /\ n + 1 \in Nat /\ (n <= m => Up(n))
    BY <1>2
  <2>. SUFFICES ASSUME n + 1 <= m PROVE Up(n + 1)
    BY <2>1
  <2>2. PICK g \in [0 .. n -> S] : g[0] = b /\ \A k \in 1 .. n : g[k] = H[k][g[k - 1]]
    BY <2>1
  <2>3. H[n + 1][g[n]] \in S
    <3>1. g[n] \in S /\ n + 1 \in 1 .. m
      BY <2>1
    <3>2. H[n + 1] \in [S -> S]
      BY <3>1
    <3>. QED
      BY <3>1, <3>2
  <2>. DEFINE h == [k \in 0 .. n + 1 |-> IF k <= n THEN g[k] ELSE H[n + 1][g[n]]]
  <2>4. h \in [0 .. n + 1 -> S]
    <3>1. ASSUME NEW k \in 0 .. n + 1 PROVE (IF k <= n THEN g[k] ELSE H[n + 1][g[n]]) \in S
      <4>1. k <= n => k \in 0 .. n
        BY <2>1
      <4>. QED
        BY <2>3, <4>1
    <3>. QED
      BY <3>1
  <2>5. h[0] = b
    BY <2>1, <2>2
  <2>6. ASSUME NEW k \in 1 .. n + 1 PROVE h[k] = H[k][h[k - 1]]
    <3>1. CASE k <= n
      <4>1. k \in 1 .. n /\ h[k] = g[k] /\ h[k - 1] = g[k - 1]
        BY <2>1, <3>1
      <4>. QED
        BY <2>2, <4>1
    <3>2. CASE k = n + 1
      <4>1. h[k] = H[n + 1][g[n]] /\ h[k - 1] = g[n]
        BY <2>1, <3>2
      <4>. QED
        BY <3>2, <4>1
    <3>. QED
      BY <2>1, <3>1, <3>2
  <2>. HIDE DEF h
  <2>. QED
    BY <2>4, <2>5, <2>6
<1>. HIDE DEF G
<1>3. G \subseteq Nat
  BY DEF G
<1>4. G = Nat
  BY <1>1, <1>2, <1>3, NatSteps
<1>. QED
  BY <1>4 DEF G

Eight(r, w, g) == g = [bit \in 0 .. 8 |-> IF bit = 0 THEN Begin(r, w) ELSE Rel!NextBit[g[bit - 1]]]

LEMMA NxtSteps ==
  ASSUME NEW r \in Register, NEW w \in Rel!Word
  PROVE  \E g : /\ Rel!cm_nxt(r, w) = g[8] /\ g[0] = Begin(r, w)
                /\ \A i \in 1 .. 8 : g[i] = Rel!NextBit[g[i - 1]]
<1>. DEFINE H == [k \in 1 .. 8 |-> Rel!NextBit]
            f == CHOOSE g : Eight(r, w, g)
<1>1. LoopSteps(H, 8, Rel!Word)
  <2>1. Rel!NextBit = [s \in Rel!Word |-> Rel!NextBit[s]]
    BY DEF Rel!NextBit
  <2>2. \A s \in Rel!Word : Rel!NextBit[s] \in Rel!Word
    BY NextBitIs, WordBits
  <2>3. Rel!NextBit \in [Rel!Word -> Rel!Word]
    BY <2>1, <2>2
  <2>. QED
    BY <2>3 DEF LoopSteps
<1>2. Begin(r, w) \in Rel!Word
  BY BeginIs
<1>3. \A k \in 1 .. 8 : H[k] = Rel!NextBit
  OBVIOUS
<1>. HIDE DEF H
<1>4. PICK g \in [0 .. 8 -> Rel!Word] : Iterates(g, Begin(r, w), H, 8)
  BY <1>1, <1>2, Loop
<1>5. Eight(r, w, g)
  <2>1. g = [k \in 0 .. 8 |-> g[k]]
    OBVIOUS
  <2>2. \A k \in 0 .. 8 : g[k] = IF k = 0 THEN Begin(r, w) ELSE Rel!NextBit[g[k - 1]]
    BY <1>3, <1>4 DEF Iterates
  <2>. QED
    BY <2>1, <2>2 DEF Eight
<1>6. Eight(r, w, f)
  BY <1>5
<1>7. Rel!cm_nxt(r, w) = f[8]
  BY RelConstants DEF Rel!cm_nxt, Eight, Begin
<1>. HIDE DEF f
<1>8. \A bit \in 0 .. 8 : f[bit] = IF bit = 0 THEN Begin(r, w) ELSE Rel!NextBit[f[bit - 1]]
  BY <1>6 DEF Eight
<1>9. f[0] = Begin(r, w)
  BY <1>8
<1>10. \A i \in 1 .. 8 : f[i] = Rel!NextBit[f[i - 1]]
  BY <1>8
<1>. QED
  BY <1>7, <1>9, <1>10

LEMMA NextSame ==
  ASSUME NEW r \in Rel!Word, NEW s \in Rel!Word, \A k \in 0 .. 15 : k \in r <=> k \in s
  PROVE  Rel!NextBit[r] = Rel!NextBit[s]
<1>1. \A k \in 0 .. 15 : k \in Rel!NextBit[r] <=> k \in Rel!NextBit[s]
  <2>. SUFFICES ASSUME NEW k \in 0 .. 15 PROVE k \in Rel!NextBit[r] <=> k \in Rel!NextBit[s]
    OBVIOUS
  <2>1. k \in Rel!NextBit[r] <=> ~(k - 1 \in r <=> 15 \in r /\ k \in cm_poly)
    BY NextBitIs
  <2>2. k \in Rel!NextBit[s] <=> ~(k - 1 \in s <=> 15 \in s /\ k \in cm_poly)
    BY NextBitIs
  <2>3. 15 \in r <=> 15 \in s
    OBVIOUS
  <2>4. k - 1 \in r <=> k - 1 \in s
    <3>1. CASE k = 0
      <4>1. -1 \notin r /\ -1 \notin s
        BY WordBits
      <4>. QED
        BY <3>1, <4>1
    <3>2. CASE k # 0
      <4>1. k - 1 \in 0 .. 15
        BY <3>2
      <4>. QED
        BY <4>1
    <3>. QED
      BY <3>1, <3>2
  <2>. QED
    BY <2>1, <2>2, <2>3, <2>4, Zenon
<1>2. Rel!NextBit[r] \subseteq 0 .. 15 /\ Rel!NextBit[s] \subseteq 0 .. 15
  BY NextBitIs DEF Register
<1>. QED
  BY <1>1, <1>2, Zenon

LEMMA NxtIn ==
  ASSUME NEW r \in Register, NEW w \in Rel!Word
  PROVE  Rel!cm_nxt(r, w) \in Register
<1>1. PICK g : /\ Rel!cm_nxt(r, w) = g[8] /\ g[0] = Begin(r, w)
               /\ \A i \in 1 .. 8 : g[i] = Rel!NextBit[g[i - 1]]
  BY NxtSteps
<1>2. g[0] \in Rel!Word
  BY <1>1, BeginIs
<1>3. ASSUME NEW i \in 1 .. 8, g[i - 1] \in Rel!Word PROVE g[i] \in Register /\ g[i] \in Rel!Word
  <2>1. Rel!NextBit[g[i - 1]] \in Register
    BY <1>3, NextBitIs
  <2>. QED
    BY <1>1, <2>1, WordBits
<1>4. g[4] \in Rel!Word
  BY <1>2, <1>3
<1>. QED
  BY <1>1, <1>3, <1>4

(* What stands above the eight bits of a byte does not matter.             *)
LEMMA NxtSame ==
  ASSUME NEW r \in Register, NEW w \in Rel!Word, NEW v \in Rel!Word,
         \A k \in 0 .. 7 : k \in w <=> k \in v
  PROVE  Rel!cm_nxt(r, w) = Rel!cm_nxt(r, v)
<1>1. PICK g : /\ Rel!cm_nxt(r, w) = g[8] /\ g[0] = Begin(r, w)
               /\ \A i \in 1 .. 8 : g[i] = Rel!NextBit[g[i - 1]]
  BY NxtSteps
<1>2. PICK h : /\ Rel!cm_nxt(r, v) = h[8] /\ h[0] = Begin(r, v)
               /\ \A i \in 1 .. 8 : h[i] = Rel!NextBit[h[i - 1]]
  BY NxtSteps
<1>3. Begin(r, w) \in Rel!Word /\ Begin(r, v) \in Rel!Word
  BY BeginIs
<1>4. \A k \in 0 .. 15 : k \in Begin(r, w) <=> k \in Begin(r, v)
  <2>. SUFFICES ASSUME NEW k \in 0 .. 15 PROVE k \in Begin(r, w) <=> k \in Begin(r, v)
    OBVIOUS
  <2>1. k \in Begin(r, w) <=> ~(k \in r <=> k >= 8 /\ 15 - k \in w)
    BY BeginIs
  <2>2. k \in Begin(r, v) <=> ~(k \in r <=> k >= 8 /\ 15 - k \in v)
    BY BeginIs
  <2>3. k >= 8 /\ 15 - k \in w <=> k >= 8 /\ 15 - k \in v
    <3>1. k >= 8 => 15 - k \in 0 .. 7
      OBVIOUS
    <3>. QED
      BY <3>1
  <2>. QED
    BY <2>1, <2>2, <2>3, Zenon
<1>5. Rel!NextBit[Begin(r, w)] = Rel!NextBit[Begin(r, v)]
  BY <1>3, <1>4, NextSame
<1>6. g[1] = h[1]
  BY <1>1, <1>2, <1>5
<1>7. \A i \in 1 .. 8 : g[i - 1] = h[i - 1] => g[i] = h[i]
  BY <1>1, <1>2
<1>8. g[4] = h[4]
  BY <1>6, <1>7
<1>. QED
  BY <1>1, <1>2, <1>7, <1>8

(* A byte that cancels the upper half of the register shifts its lower     *)
(* half up: no bit comes out on top, and the polynomial is never added.    *)
LEMMA NxtShifts ==
  ASSUME NEW r \in Register, NEW w \in Rel!Word,
         \A k \in 8 .. 15 : k \in r <=> 15 - k \in w
  PROVE  \A k \in 0 .. 15 : k \in Rel!cm_nxt(r, w) <=> k - 8 \in r
<1>1. PICK g : /\ Rel!cm_nxt(r, w) = g[8] /\ g[0] = Begin(r, w)
               /\ \A i \in 1 .. 8 : g[i] = Rel!NextBit[g[i - 1]]
  BY NxtSteps
<1>. DEFINE Up(i) == g[i] \in Rel!Word /\ \A k \in 0 .. 15 : k \in g[i] <=> k - i \in r /\ k - i < 8
<1>2. Up(0)
  <2>1. Begin(r, w) \in Rel!Word
    BY BeginIs
  <2>2. ASSUME NEW k \in 0 .. 15 PROVE k \in Begin(r, w) <=> k - 0 \in r /\ k - 0 < 8
    <3>1. k \in Begin(r, w) <=> ~(k \in r <=> k >= 8 /\ 15 - k \in w)
      BY BeginIs
    <3>2. k - 0 = k
      OBVIOUS
    <3>3. CASE k < 8
      <4>1. ~(k >= 8)
        BY <3>3
      <4>. QED
        BY <3>1, <3>2, <3>3, <4>1, Zenon
    <3>4. CASE k >= 8
      <4>1. k \in 8 .. 15 /\ ~(k < 8)
        BY <3>4
      <4>2. k \in r <=> 15 - k \in w
        BY <4>1
      <4>. QED
        BY <3>1, <3>2, <3>4, <4>1, <4>2, Zenon
    <3>. QED
      BY <3>3, <3>4
  <2>. QED
    BY <1>1, <2>1, <2>2
<1>3. ASSUME NEW i \in 1 .. 8, Up(i - 1) PROVE Up(i)
  <2>1. g[i - 1] \in Rel!Word /\ g[i] = Rel!NextBit[g[i - 1]]
    BY <1>1, <1>3
  <2>2. g[i] \in Rel!Word
    BY <2>1, NextBitIs, WordBits
  <2>3. 15 \notin g[i - 1]
    <3>1. ~(15 - (i - 1) < 8)
      OBVIOUS
    <3>. QED
      BY <1>3, <3>1
  <2>4. ASSUME NEW k \in 0 .. 15 PROVE k \in g[i] <=> k - i \in r /\ k - i < 8
    <3>1. k \in g[i] <=> k - 1 \in g[i - 1]
      <4>1. k \in Rel!NextBit[g[i - 1]] <=> ~(k - 1 \in g[i - 1] <=> 15 \in g[i - 1] /\ k \in cm_poly)
        BY <2>1, NextBitIs
      <4>. QED
        BY <2>1, <2>3, <4>1, Zenon
    <3>2. CASE k = 0
      <4>1. -1 \notin g[i - 1]
        BY <2>1, WordBits
      <4>2. k - i \notin 0 .. 15
        BY <3>2
      <4>3. k - i \notin r
        BY <4>2 DEF Register
      <4>. QED
        BY <3>1, <3>2, <4>1, <4>3
    <3>3. CASE k # 0
      <4>1. k - 1 \in 0 .. 15 /\ (k - 1) - (i - 1) = k - i
        BY <3>3
      <4>. QED
        BY <1>3, <3>1, <4>1
    <3>. QED
      BY <3>2, <3>3
  <2>. QED
    BY <2>2, <2>4
<1>. HIDE DEF Up
<1>4. Up(4)
  BY <1>2, <1>3
<1>5. Up(8)
  BY <1>3, <1>4
<1>6. ASSUME NEW k \in 0 .. 15 PROVE k \in g[8] <=> k - 8 \in r
  <2>1. k - 8 < 8
    OBVIOUS
  <2>. QED
    BY <1>5, <2>1, Zenon DEF Up
<1>. QED
  BY <1>1, <1>6

(* The two bytes of a CRC in memory, and a byte as it passes through char. *)
Summed(w, j, g) ==
  g = [k \in 0 .. 8 |-> IF k = 0 THEN 0
                        ELSE g[k - 1] + (IF 8 * (j - 1) + k - 1 \in w THEN 2^(k - 1) ELSE 0)]

LEMMA Powers ==
  ASSUME NEW k \in 0 .. 7
  PROVE  /\ k = 0 => 2^k = 1
         /\ k = 1 => 2^k = 2
         /\ k = 2 => 2^k = 4
         /\ k = 3 => 2^k = 8
         /\ k = 4 => 2^k = 16
         /\ k = 5 => 2^k = 32
         /\ k = 6 => 2^k = 64
         /\ k = 7 => 2^k = 128
         /\ 2^k \in Nat
<1>1. k = 0 => 2^k = 1
  OBVIOUS
<1>2. k = 1 => 2^k = 2
  OBVIOUS
<1>3. k = 2 => 2^k = 4
  OBVIOUS
<1>4. k = 3 => 2^k = 8
  OBVIOUS
<1>5. k = 4 => 2^k = 16
  OBVIOUS
<1>6. k = 5 => 2^k = 32
  OBVIOUS
<1>7. k = 6 => 2^k = 64
  OBVIOUS
<1>8. k = 7 => 2^k = 128
  OBVIOUS
<1>9. k \in {0, 1, 2, 3, 4, 5, 6, 7}
  OBVIOUS
<1>10. 2^k \in Nat
  BY <1>1, <1>2, <1>3, <1>4, <1>5, <1>6, <1>7, <1>8, <1>9
<1>. QED
  BY <1>1, <1>2, <1>3, <1>4, <1>5, <1>6, <1>7, <1>8, <1>10, Zenon

LEMMA SummedExists ==
  ASSUME NEW w, NEW j \in 1 .. 2
  PROVE  \E g : Summed(w, j, g)
<1>. DEFINE H == [k \in 1 .. 8 |-> [x \in Nat |-> x + (IF 8 * (j - 1) + k - 1 \in w THEN 2^(k - 1) ELSE 0)]]
<1>1. LoopSteps(H, 8, Nat)
  <2>1. ASSUME NEW k \in 1 .. 8 PROVE 2^(k - 1) \in Nat
    <3>1. PICK i \in 0 .. 7 : i = k - 1
      OBVIOUS
    <3>2. 2^i \in Nat
      BY Powers
    <3>. QED
      BY <3>1, <3>2, Zenon
  <2>2. ASSUME NEW k \in 1 .. 8 PROVE H[k] \in [Nat -> Nat]
    <3>1. PICK p \in Nat : p = IF 8 * (j - 1) + k - 1 \in w THEN 2^(k - 1) ELSE 0
      BY <2>1
    <3>2. H[k] = [x \in Nat |-> x + p]
      BY <3>1
    <3>. QED
      BY <3>2
  <2>. QED
    BY <2>2 DEF LoopSteps
<1>2. \A k \in 1 .. 8 : \A x \in Nat :
         H[k][x] = x + (IF 8 * (j - 1) + k - 1 \in w THEN 2^(k - 1) ELSE 0)
  OBVIOUS
<1>. HIDE DEF H
<1>3. PICK g \in [0 .. 8 -> Nat] : Iterates(g, 0, H, 8)
  BY <1>1, Loop
<1>4. g = [k \in 0 .. 8 |-> g[k]]
  OBVIOUS
<1>5. ASSUME NEW k \in 0 .. 8
      PROVE  g[k] = IF k = 0 THEN 0
                    ELSE g[k - 1] + (IF 8 * (j - 1) + k - 1 \in w THEN 2^(k - 1) ELSE 0)
  <2>1. CASE k = 0
    BY <1>3, <2>1 DEF Iterates
  <2>2. CASE k # 0
    <3>1. k \in 1 .. 8 /\ g[k - 1] \in Nat
      BY <2>2
    <3>2. g[k] = H[k][g[k - 1]]
      BY <1>3, <3>1 DEF Iterates
    <3>. QED
      BY <1>2, <2>2, <3>1, <3>2, Zenon
  <2>. QED
    BY <2>1, <2>2
<1>6. g = [k \in 0 .. 8 |-> IF k = 0 THEN 0
                           ELSE g[k - 1] + (IF 8 * (j - 1) + k - 1 \in w THEN 2^(k - 1) ELSE 0)]
  BY <1>4, <1>5
<1>. QED
  BY <1>6 DEF Summed

LEMMA ByteIs ==
  ASSUME NEW w, NEW j \in 1 .. 2, NEW x, x = Rel!BytesOf(w, 2)[j]
  PROVE  /\ x \in 0 .. 255
         /\ \A k \in 0 .. 7 : k \in Rel!Unsigned(x) <=> 8 * (j - 1) + k \in w
<1>. DEFINE s == CHOOSE g : Summed(w, j, g)
<1>1. Summed(w, j, s)
  BY SummedExists
<1>2. x = s[8]
  BY DEF Rel!BytesOf, Summed
<1>. HIDE DEF s
<1>. DEFINE p == [k \in 0 .. 7 |-> IF 8 * (j - 1) + k \in w THEN 1 ELSE 0]
<1>3. p \in [0 .. 7 -> 0 .. 1] /\ \A k \in 0 .. 7 : p[k] = 1 <=> 8 * (j - 1) + k \in w
  OBVIOUS
<1>. HIDE DEF p
<1>4. \A k \in 0 .. 8 : s[k] = IF k = 0 THEN 0
                               ELSE s[k - 1] + (IF 8 * (j - 1) + k - 1 \in w THEN 2^(k - 1) ELSE 0)
  BY <1>1 DEF Summed
<1>5. /\ s[0] = 0 /\ s[1] = s[0] + p[0] /\ s[2] = s[1] + 2 * p[1]
      /\ s[3] = s[2] + 4 * p[2] /\ s[4] = s[3] + 8 * p[3] /\ s[5] = s[4] + 16 * p[4]
      /\ s[6] = s[5] + 32 * p[5] /\ s[7] = s[6] + 64 * p[6] /\ s[8] = s[7] + 128 * p[7]
  <2>1. s[1] = s[0] + p[0]
    BY <1>3, <1>4
  <2>. QED
    BY <1>3, <1>4
<1>6. PICK a, b, c, d, e, f, g, h \in 0 .. 1 :
        /\ a = p[0] /\ b = p[1] /\ c = p[2] /\ d = p[3] /\ e = p[4] /\ f = p[5] /\ g = p[6] /\ h = p[7]
  BY <1>3
<1>7. x = a + 2 * b + 4 * c + 8 * d + 16 * e + 32 * f + 64 * g + 128 * h
  <2>1. s[1] = a
    BY <1>5, <1>6
  <2>2. s[2] = a + 2 * b
    BY <1>5, <1>6, <2>1
  <2>3. s[3] = a + 2 * b + 4 * c
    BY <1>5, <1>6, <2>2
  <2>4. s[4] = a + 2 * b + 4 * c + 8 * d
    BY <1>5, <1>6, <2>3
  <2>5. s[5] = a + 2 * b + 4 * c + 8 * d + 16 * e
    BY <1>5, <1>6, <2>4
  <2>6. s[6] = a + 2 * b + 4 * c + 8 * d + 16 * e + 32 * f
    BY <1>5, <1>6, <2>5
  <2>7. s[7] = a + 2 * b + 4 * c + 8 * d + 16 * e + 32 * f + 64 * g
    BY <1>5, <1>6, <2>6
  <2>. QED
    BY <1>2, <1>5, <1>6, <2>7
<1>8. /\ (x \div 1) % 2 = p[0] /\ (x \div 2) % 2 = p[1] /\ (x \div 4) % 2 = p[2] /\ (x \div 8) % 2 = p[3]
      /\ (x \div 16) % 2 = p[4] /\ (x \div 32) % 2 = p[5] /\ (x \div 64) % 2 = p[6]
      /\ (x \div 128) % 2 = p[7]
      /\ x \in 0 .. 255
  <2>1. /\ (x \div 1) % 2 = a /\ (x \div 2) % 2 = b /\ (x \div 4) % 2 = c /\ (x \div 8) % 2 = d
        /\ (x \div 16) % 2 = e /\ (x \div 32) % 2 = f /\ (x \div 64) % 2 = g /\ (x \div 128) % 2 = h
        /\ x \in 0 .. 255
    BY <1>7
  <2>. QED
    BY <1>6, <2>1, Zenon
<1>9. ASSUME NEW k \in 0 .. 7 PROVE (x \div 2^k) % 2 = p[k]
  <2>1. ASSUME k = 0 PROVE (x \div 2^k) % 2 = p[k]
    <3>1. 2^k = 1
      BY <2>1, Powers
    <3>. QED
      BY <1>8, <2>1, <3>1, Zenon
  <2>2. ASSUME k = 1 PROVE (x \div 2^k) % 2 = p[k]
    <3>1. 2^k = 2
      BY <2>2, Powers
    <3>. QED
      BY <1>8, <2>2, <3>1, Zenon
  <2>3. ASSUME k = 2 PROVE (x \div 2^k) % 2 = p[k]
    <3>1. 2^k = 4
      BY <2>3, Powers
    <3>. QED
      BY <1>8, <2>3, <3>1, Zenon
  <2>4. ASSUME k = 3 PROVE (x \div 2^k) % 2 = p[k]
    <3>1. 2^k = 8
      BY <2>4, Powers
    <3>. QED
      BY <1>8, <2>4, <3>1, Zenon
  <2>5. ASSUME k = 4 PROVE (x \div 2^k) % 2 = p[k]
    <3>1. 2^k = 16
      BY <2>5, Powers
    <3>. QED
      BY <1>8, <2>5, <3>1, Zenon
  <2>6. ASSUME k = 5 PROVE (x \div 2^k) % 2 = p[k]
    <3>1. 2^k = 32
      BY <2>6, Powers
    <3>. QED
      BY <1>8, <2>6, <3>1, Zenon
  <2>7. ASSUME k = 6 PROVE (x \div 2^k) % 2 = p[k]
    <3>1. 2^k = 64
      BY <2>7, Powers
    <3>. QED
      BY <1>8, <2>7, <3>1, Zenon
  <2>8. ASSUME k = 7 PROVE (x \div 2^k) % 2 = p[k]
    <3>1. 2^k = 128
      BY <2>8, Powers
    <3>. QED
      BY <1>8, <2>8, <3>1, Zenon
  <2>. QED
    BY <2>1, <2>2, <2>3, <2>4, <2>5, <2>6, <2>7, <2>8
<1>10. \A k \in 0 .. 7 : k \in Rel!Unsigned(x) <=> p[k] = 1
  BY <1>9, Zenon DEF Rel!Unsigned
<1>. QED
  BY <1>3, <1>8, <1>10, Zenon

LEMMA CharIs ==
  ASSUME NEW c
  PROVE  /\ Rel!Unsigned(c) \in Rel!Word /\ Rel!Char(c) \in Rel!Word
         /\ \A k \in 0 .. 7 : k \in Rel!Char(c) <=> k \in Rel!Unsigned(c)
<1>1. Rel!Unsigned(c) \subseteq 0 .. 7
  BY DEF Rel!Unsigned
<1>2. Rel!Unsigned(c) \in Rel!Word
  BY <1>1, RelConstants DEF Rel!Word, Rel!Bit
<1>3. Rel!Char(c) \in Rel!Word
  BY <1>2 DEF Rel!Char, Rel!Word
<1>4. \A k \in 0 .. 7 : k \in Rel!Char(c) <=> k \in Rel!Unsigned(c)
  BY DEF Rel!Char
<1>. QED
  BY <1>2, <1>3, <1>4

(* The register after each of a sequence of bytes.                         *)
AllWords(bytes, n) == \A i \in 1 .. n : bytes[i] \in Rel!Word

Fed(bytes, n, g) ==
  g[0] = {} /\ \A i \in 1 .. n : g[i] = Rel!cm_nxt(g[i - 1], bytes[i])

Feeding(bytes, n, g) ==
  g = [i \in 0 .. n |-> IF i = 0 THEN {} ELSE Rel!cm_nxt(g[i - 1], bytes[i])]

LEMMA CrcSteps ==
  ASSUME NEW bytes, NEW n \in Nat, n = Len(bytes), AllWords(bytes, n)
  PROVE  \E g : Rel!CrcOf(bytes) = Rel!reflect(g[n], 16) /\ Fed(bytes, n, g)
<1>. DEFINE H == [k \in 1 .. n |-> [r \in Register |-> Rel!cm_nxt(r, bytes[k])]]
            f == CHOOSE g : Feeding(bytes, n, g)
<1>1. LoopSteps(H, n, Register)
  <2>1. ASSUME NEW k \in 1 .. n PROVE H[k] \in [Register -> Register]
    <3>1. \A r \in Register : Rel!cm_nxt(r, bytes[k]) \in Register
      BY NxtIn DEF AllWords
    <3>. QED
      BY <3>1
  <2>. QED
    BY <2>1 DEF LoopSteps
<1>2. {} \in Register
  BY DEF Register
<1>3. \A k \in 1 .. n : \A r \in Register : H[k][r] = Rel!cm_nxt(r, bytes[k])
  OBVIOUS
<1>. HIDE DEF H
<1>4. PICK g \in [0 .. n -> Register] : Iterates(g, {}, H, n)
  BY <1>1, <1>2, Loop
<1>5. \A i \in 0 .. n : g[i] = IF i = 0 THEN {} ELSE Rel!cm_nxt(g[i - 1], bytes[i])
  <2>. SUFFICES ASSUME NEW i \in 0 .. n
                PROVE  g[i] = IF i = 0 THEN {} ELSE Rel!cm_nxt(g[i - 1], bytes[i])
    OBVIOUS
  <2>1. CASE i = 0
    BY <1>4, <2>1 DEF Iterates
  <2>2. CASE i # 0
    <3>1. i \in 1 .. n /\ g[i - 1] \in Register
      BY <2>2
    <3>2. g[i] = H[i][g[i - 1]]
      BY <1>4, <3>1 DEF Iterates
    <3>. QED
      BY <1>3, <2>2, <3>1, <3>2, Zenon
  <2>. QED
    BY <2>1, <2>2
<1>6. Feeding(bytes, n, g)
  <2>1. g = [i \in 0 .. n |-> g[i]]
    OBVIOUS
  <2>. QED
    BY <1>5, <2>1 DEF Feeding
<1>7. Feeding(bytes, n, f)
  BY <1>6
<1>8. Rel!CrcOf(bytes) = Rel!reflect(f[n], 16)
  BY RelConstants DEF Rel!CrcOf, Rel!cm_crc, Feeding
<1>. HIDE DEF f
<1>9. \A i \in 0 .. n : f[i] = IF i = 0 THEN {} ELSE Rel!cm_nxt(f[i - 1], bytes[i])
  BY <1>7 DEF Feeding
<1>10. f[0] = {}
  BY <1>9
<1>11. \A i \in 1 .. n : f[i] = Rel!cm_nxt(f[i - 1], bytes[i])
  BY <1>9
<1>. QED
  BY <1>8, <1>10, <1>11 DEF Fed

LEMMA FedIn ==
  ASSUME NEW bytes, NEW n \in Nat, AllWords(bytes, n), NEW g, Fed(bytes, n, g)
  PROVE  \A i \in 0 .. n : g[i] \in Register
<1>. DEFINE G == {i \in Nat : i <= n => g[i] \in Register}
<1>1. 0 \in G
  BY DEF Fed, Register
<1>2. ASSUME NEW i \in G PROVE i + 1 \in G
  <2>. SUFFICES ASSUME i + 1 <= n PROVE g[i + 1] \in Register
    BY <1>2
  <2>1. i + 1 \in 1 .. n /\ (i + 1) - 1 = i /\ g[i] \in Register
    BY <1>2
  <2>2. g[i + 1] = Rel!cm_nxt(g[i], bytes[i + 1]) /\ bytes[i + 1] \in Rel!Word
    BY <2>1 DEF Fed, AllWords
  <2>3. Rel!cm_nxt(g[i], bytes[i + 1]) \in Register
    BY <2>1, <2>2, NxtIn
  <2>. QED
    BY <2>2, <2>3
<1>. HIDE DEF G
<1>3. G \subseteq Nat
  BY DEF G
<1>4. G = Nat
  BY <1>1, <1>2, <1>3, NatSteps
<1>. QED
  BY <1>4 DEF G

(* Bytes with the same eight bits leave the same registers.                *)
SameBytes(bytes, others, j) ==
  \A i \in 1 .. j : \A k \in 0 .. 7 : k \in bytes[i] <=> k \in others[i]

LEMMA FedSame ==
  ASSUME NEW bytes, NEW n \in Nat, AllWords(bytes, n), NEW g, Fed(bytes, n, g),
         NEW others, NEW m \in Nat, AllWords(others, m), NEW h, Fed(others, m, h),
         NEW j \in Nat, j <= n, j <= m, SameBytes(bytes, others, j)
  PROVE  h[j] = g[j]
<1>. DEFINE G == {i \in Nat : i <= j => h[i] = g[i]}
<1>1. 0 \in G
  BY DEF Fed
<1>2. ASSUME NEW i \in G PROVE i + 1 \in G
  <2>. SUFFICES ASSUME i + 1 <= j PROVE h[i + 1] = g[i + 1]
    BY <1>2
  <2>1. PICK l \in Nat : l = i + 1 /\ l \in 1 .. j /\ l \in 1 .. n /\ l \in 1 .. m /\ l - 1 = i
    BY <1>2
  <2>2. h[i] = g[i] /\ i \in 0 .. n
    BY <1>2, <2>1
  <2>3. g[l] = Rel!cm_nxt(g[i], bytes[l]) /\ h[l] = Rel!cm_nxt(h[i], others[l])
    BY <2>1 DEF Fed
  <2>4. bytes[l] \in Rel!Word /\ others[l] \in Rel!Word
    BY <2>1 DEF AllWords
  <2>5. g[i] \in Register
    BY <2>2, FedIn
  <2>6. \A k \in 0 .. 7 : k \in bytes[l] <=> k \in others[l]
    BY <2>1 DEF SameBytes
  <2>7. Rel!cm_nxt(g[i], bytes[l]) = Rel!cm_nxt(g[i], others[l])
    BY <2>4, <2>5, <2>6, NxtSame
  <2>. QED
    BY <2>1, <2>2, <2>3, <2>7
<1>. HIDE DEF G
<1>3. G \subseteq Nat
  BY DEF G
<1>4. G = Nat
  BY <1>1, <1>2, <1>3, NatSteps
<1>. QED
  BY <1>4 DEF G

LEMMA ReflectIs ==
  ASSUME NEW v \in Register
  PROVE  /\ Rel!reflect(v, 16) \in Register
         /\ \A k \in 0 .. 15 : k \in Rel!reflect(v, 16) <=> 15 - k \in v
<1>1. \A i \in v : i \in 0 .. 15
  BY DEF Register
<1>2. Rel!reflect(v, 16) = {15 - i : i \in v}
  BY <1>1 DEF Rel!reflect
<1>3. \A i \in v : 15 - i \in 0 .. 15
  BY <1>1
<1>4. ASSUME NEW k \in 0 .. 15 PROVE k \in {15 - i : i \in v} <=> 15 - k \in v
  <2>1. ASSUME 15 - k \in v PROVE k \in {15 - i : i \in v}
    <3>1. k = 15 - (15 - k)
      OBVIOUS
    <3>. QED
      BY <2>1, <3>1
  <2>2. ASSUME k \in {15 - i : i \in v} PROVE 15 - k \in v
    <3>1. PICK i \in v : k = 15 - i
      BY <2>2
    <3>2. i = 15 - k
      BY <1>1, <3>1
    <3>. QED
      BY <3>2
  <2>. QED
    BY <2>1, <2>2
<1>. QED
  BY <1>2, <1>3, <1>4 DEF Register

Chars(f) == [k \in DOMAIN f |-> Rel!Char(f[k])]

LEMMA CharsAre ==
  ASSUME NEW f \in Seq(Rel!Byte), NEW n \in Nat, n = Len(f)
  PROVE  /\ Rel!generate_crc(f) = Rel!CrcOf(Chars(f)) /\ Len(Chars(f)) = n /\ AllWords(Chars(f), n)
         /\ \A i \in 1 .. n : Chars(f)[i] = Rel!Char(f[i])
<1>1. DOMAIN f = 1 .. n
  OBVIOUS
<1>2. Rel!generate_crc(f) = Rel!CrcOf(Chars(f))
  BY DEF Rel!generate_crc, Chars
<1>3. Chars(f) = [k \in 1 .. n |-> Rel!Char(f[k])]
  BY <1>1 DEF Chars
<1>4. Len(Chars(f)) = n
  BY <1>3
<1>5. \A i \in 1 .. n : Chars(f)[i] = Rel!Char(f[i])
  BY <1>3
<1>6. AllWords(Chars(f), n)
  BY <1>5, CharIs DEF AllWords
<1>. QED
  BY <1>2, <1>4, <1>5, <1>6

(* The CRC stays within its width, and chars that are negative leave it as *)
(* it is.                                                                  *)
LEMMA CrcOfFile ==
  ASSUME NEW f \in Seq(Rel!Byte)
  PROVE  /\ Rel!generate_crc(f) \in Register
         /\ Rel!generate_crc(f) = Rel!CrcOf([k \in DOMAIN f |-> Rel!Unsigned(f[k])])
<1>1. PICK n \in Nat : n = Len(f)
  OBVIOUS
<1>. DEFINE plain == [k \in DOMAIN f |-> Rel!Unsigned(f[k])]
<1>2. plain = [k \in 1 .. n |-> Rel!Unsigned(f[k])]
  BY <1>1
<1>3. Len(plain) = n /\ \A i \in 1 .. n : plain[i] = Rel!Unsigned(f[i])
  BY <1>2
<1>. HIDE DEF plain
<1>4. AllWords(plain, n)
  BY <1>3, CharIs DEF AllWords
<1>5. PICK g : Rel!CrcOf(plain) = Rel!reflect(g[n], 16) /\ Fed(plain, n, g)
  BY <1>3, <1>4, CrcSteps
<1>6. PICK chars : chars = Chars(f)
  OBVIOUS
<1>7. /\ Rel!generate_crc(f) = Rel!CrcOf(chars) /\ Len(chars) = n /\ AllWords(chars, n)
      /\ \A i \in 1 .. n : chars[i] = Rel!Char(f[i])
  BY <1>1, <1>6, CharsAre
<1>8. PICK h : Rel!CrcOf(chars) = Rel!reflect(h[n], 16) /\ Fed(chars, n, h)
  BY <1>7, CrcSteps
<1>9. SameBytes(plain, chars, n)
  BY <1>3, <1>7, CharIs DEF SameBytes
<1>10. h[n] = g[n]
  BY <1>4, <1>5, <1>7, <1>8, <1>9, FedSame
<1>11. h[n] \in Register
  <2>1. \A i \in 0 .. n : h[i] \in Register
    BY <1>7, <1>8, FedIn
  <2>. QED
    BY <2>1
<1>12. Rel!generate_crc(f) \in Register
  BY <1>7, <1>8, <1>11, ReflectIs
<1>. QED
  BY <1>5, <1>7, <1>8, <1>10, <1>12 DEF plain

LEMMA BytesAre ==
  ASSUME NEW w
  PROVE  /\ Rel!BytesOf(w, 2) \in Seq(Rel!Byte) /\ Len(Rel!BytesOf(w, 2)) = 2
<1>1. Rel!BytesOf(w, 2) = [j \in 1 .. 2 |-> Rel!BytesOf(w, 2)[j]]
  BY DEF Rel!BytesOf
<1>2. \A j \in 1 .. 2 : Rel!BytesOf(w, 2)[j] \in 0 .. 255
  BY ByteIs
<1>3. Rel!BytesOf(w, 2) \in [1 .. 2 -> Rel!Byte]
  BY <1>1, <1>2 DEF Rel!Byte
<1>4. PICK b : b = Rel!BytesOf(w, 2) /\ b \in [1 .. 2 -> Rel!Byte]
  BY <1>3
<1>5. b \in Seq(Rel!Byte)
  BY <1>4
<1>6. Len(b) = 2
  <2>1. PICK l \in Nat : l = Len(b) /\ DOMAIN b = 1 .. l
    BY <1>5
  <2>2. 1 .. l = 1 .. 2
    BY <1>4, <2>1
  <2>3. l \in 1 .. 2 /\ 2 \in 1 .. l
    <3>1. 1 \in 1 .. l
      BY <2>2
    <3>. QED
      BY <2>2, <3>1
  <2>. QED
    BY <2>1, <2>3
<1>. QED
  BY <1>4, <1>5, <1>6

LEMMA DatagramIs ==
  ASSUME NEW f \in Seq(Rel!Byte), NEW n \in Nat, n = Len(f), NEW m, m = Rel!Datagram(f)
  PROVE  /\ m \in Seq(Rel!Byte) /\ Len(m) = n + 2
         /\ \A i \in 1 .. n : m[i] = f[i]
         /\ m[n + 1] = Rel!BytesOf(Rel!generate_crc(f), 2)[1]
         /\ m[n + 2] = Rel!BytesOf(Rel!generate_crc(f), 2)[2]
<1>1. PICK b : b = Rel!BytesOf(Rel!generate_crc(f), 2)
  OBVIOUS
<1>2. b \in Seq(Rel!Byte) /\ Len(b) = 2
  BY <1>1, BytesAre
<1>3. m = f \o b
  BY <1>1 DEF Rel!Datagram
<1>4. m \in Seq(Rel!Byte) /\ Len(m) = n + 2
  <2>1. f \o b \in Seq(Rel!Byte) /\ Len(f \o b) = Len(f) + Len(b)
    BY <1>2, ConcatProperties
  <2>. QED
    BY <1>2, <1>3, <2>1
<1>5. \A i \in 1 .. n : m[i] = f[i]
  BY <1>2, <1>3
<1>6. m[n + 1] = b[1] /\ m[n + 2] = b[2]
  <2>1. \A i \in 1 .. Len(f) + Len(b) : (f \o b)[i] = IF i <= Len(f) THEN f[i] ELSE b[i - Len(f)]
    BY <1>2, ConcatProperties
  <2>2. \A i \in 1 .. n + 2 : m[i] = IF i <= n THEN f[i] ELSE b[i - n]
    BY <1>2, <1>3, <2>1
  <2>3. n + 1 \in 1 .. n + 2 /\ n + 2 \in 1 .. n + 2 /\ (n + 1) - n = 1 /\ (n + 2) - n = 2
    OBVIOUS
  <2>. QED
    BY <2>2, <2>3
<1>. QED
  BY <1>1, <1>4, <1>5, <1>6

(* Two more bytes with the CRC itself bring the register to 0.             *)
LEMMA CrcCancels ==
  ASSUME NEW f \in Seq(Rel!Byte), NEW m, m = Rel!Datagram(f)
  PROVE  Rel!generate_crc(m) = {}
<1>1. PICK n \in Nat : n = Len(f)
  OBVIOUS
<1>2. PICK w : w = Rel!generate_crc(f)
  OBVIOUS
<1>3. /\ m \in Seq(Rel!Byte) /\ Len(m) = n + 2
      /\ \A i \in 1 .. n : m[i] = f[i]
      /\ m[n + 1] = Rel!BytesOf(w, 2)[1] /\ m[n + 2] = Rel!BytesOf(w, 2)[2]
  BY <1>1, <1>2, DatagramIs
<1>4. PICK p : p = Chars(f)
  OBVIOUS
<1>5. w = Rel!CrcOf(p) /\ Len(p) = n /\ AllWords(p, n) /\ \A i \in 1 .. n : p[i] = Rel!Char(f[i])
  BY <1>1, <1>2, <1>4, CharsAre
<1>6. PICK q : q = Chars(m)
  OBVIOUS
<1>7. PICK e \in Nat : e = n + 2
  OBVIOUS
<1>8. /\ Rel!generate_crc(m) = Rel!CrcOf(q) /\ Len(q) = e /\ AllWords(q, e)
      /\ \A i \in 1 .. e : q[i] = Rel!Char(m[i])
  BY <1>3, <1>6, <1>7, CharsAre
<1>9. PICK g : Rel!CrcOf(p) = Rel!reflect(g[n], 16) /\ Fed(p, n, g)
  BY <1>5, CrcSteps
<1>10. PICK h : Rel!CrcOf(q) = Rel!reflect(h[e], 16) /\ Fed(q, e, h)
  BY <1>8, CrcSteps
<1>11. SameBytes(p, q, n)
  <2>1. \A i \in 1 .. n : p[i] = q[i]
    BY <1>3, <1>5, <1>7, <1>8
  <2>. QED
    BY <2>1 DEF SameBytes
<1>12. h[n] = g[n]
  BY <1>5, <1>7, <1>8, <1>9, <1>10, <1>11, FedSame
<1>13. \A i \in 0 .. e : h[i] \in Register
  BY <1>8, <1>10, FedIn
<1>14. PICK r \in Register : r = h[n] /\ w = Rel!reflect(r, 16)
  <2>1. h[n] \in Register
    BY <1>7, <1>13
  <2>. QED
    BY <1>5, <1>9, <1>12, <2>1
<1>15. \A k \in 0 .. 15 : k \in w <=> 15 - k \in r
  BY <1>14, ReflectIs
<1>16. PICK a, b : a = h[n + 1] /\ b = h[n + 2]
  OBVIOUS
<1>17. PICK u, v \in Rel!Word :
         /\ a = Rel!cm_nxt(r, u) /\ b = Rel!cm_nxt(a, v)
         /\ u = Rel!Char(m[n + 1]) /\ v = Rel!Char(m[n + 2])
  <2>1. n + 1 \in 1 .. e /\ n + 2 \in 1 .. e /\ (n + 1) - 1 = n /\ (n + 2) - 1 = n + 1
    BY <1>7
  <2>2. q[n + 1] \in Rel!Word /\ q[n + 2] \in Rel!Word
    BY <1>8, <2>1 DEF AllWords
  <2>3. h[n + 1] = Rel!cm_nxt(h[n], q[n + 1]) /\ h[n + 2] = Rel!cm_nxt(h[n + 1], q[n + 2])
    BY <1>10, <2>1 DEF Fed
  <2>. QED
    BY <1>8, <1>14, <1>16, <2>1, <2>2, <2>3
<1>18. a \in Register /\ b \in Register /\ b = h[e]
  BY <1>7, <1>13, <1>16
<1>19. \A k \in 8 .. 15 : k \in r <=> 15 - k \in u
  <2>. SUFFICES ASSUME NEW k \in 8 .. 15 PROVE k \in r <=> 15 - k \in u
    OBVIOUS
  <2>1. PICK i \in 0 .. 7 : i = 15 - k /\ 15 - i = k /\ i \in 0 .. 15
    OBVIOUS
  <2>2. i \in u <=> i \in Rel!Unsigned(m[n + 1])
    BY <1>17, CharIs
  <2>3. i \in Rel!Unsigned(m[n + 1]) <=> 8 * (1 - 1) + i \in w
    <3>1. PICK x : x = m[n + 1]
      OBVIOUS
    <3>2. 1 \in 1 .. 2 /\ x = Rel!BytesOf(w, 2)[1]
      BY <1>3, <3>1
    <3>3. \A c \in 0 .. 7 : c \in Rel!Unsigned(x) <=> 8 * (1 - 1) + c \in w
      BY <3>2, ByteIs
    <3>. QED
      BY <3>1, <3>3
  <2>4. 8 * (1 - 1) + i = i
    OBVIOUS
  <2>5. i \in w <=> k \in r
    BY <1>15, <2>1
  <2>. QED
    BY <2>1, <2>2, <2>3, <2>4, <2>5
<1>20. \A k \in 0 .. 15 : k \in a <=> k - 8 \in r
  BY <1>17, <1>19, NxtShifts
<1>21. \A k \in 8 .. 15 : k \in a <=> 15 - k \in v
  <2>. SUFFICES ASSUME NEW k \in 8 .. 15 PROVE k \in a <=> 15 - k \in v
    OBVIOUS
  <2>1. PICK i \in 0 .. 7 : i = 15 - k
    OBVIOUS
  <2>2. i \in v <=> i \in Rel!Unsigned(m[n + 2])
    BY <1>17, CharIs
  <2>3. i \in Rel!Unsigned(m[n + 2]) <=> 8 * (2 - 1) + i \in w
    <3>1. PICK x : x = m[n + 2]
      OBVIOUS
    <3>2. 2 \in 1 .. 2 /\ x = Rel!BytesOf(w, 2)[2]
      BY <1>3, <3>1
    <3>3. \A c \in 0 .. 7 : c \in Rel!Unsigned(x) <=> 8 * (2 - 1) + c \in w
      BY <3>2, ByteIs
    <3>. QED
      BY <3>1, <3>3
  <2>4. PICK l \in 0 .. 15 : l = 8 * (2 - 1) + i /\ 15 - l = k - 8
    BY <2>1
  <2>5. l \in w <=> k - 8 \in r
    BY <1>15, <2>4
  <2>6. k \in a <=> k - 8 \in r
    <3>1. k \in 0 .. 15
      OBVIOUS
    <3>. QED
      BY <1>20, <3>1
  <2>. QED
    BY <2>1, <2>2, <2>3, <2>4, <2>5, <2>6
<1>22. \A k \in 0 .. 15 : k \in b <=> k - 8 \in a
  BY <1>17, <1>18, <1>21, NxtShifts
<1>23. \A k \in 0 .. 15 : k - 8 \notin a
  <2>. SUFFICES ASSUME NEW k \in 0 .. 15, k - 8 \in a PROVE FALSE
    OBVIOUS
  <2>1. k - 8 \in 0 .. 15
    BY <1>18 DEF Register
  <2>2. (k - 8) - 8 \in r
    BY <1>20, <2>1
  <2>3. (k - 8) - 8 \in 0 .. 15
    BY <2>2 DEF Register
  <2>. QED
    BY <2>3
<1>24. b = {}
  BY <1>18, <1>22, <1>23 DEF Register
<1>25. Rel!reflect({}, 16) = {}
  BY DEF Rel!reflect
<1>. QED
  BY <1>8, <1>10, <1>18, <1>24, <1>25

(* Two registers that differ in a bit still differ in one after a step, if *)
(* the polynomial has its lowest bit: what leaves on top comes in below.   *)
Differ(r, s, k) == ~(k \in r <=> k \in s)

Lowest == 0 \in cm_poly

LEMMA DifferNext ==
  ASSUME Lowest, NEW r \in Rel!Word, NEW s \in Rel!Word
  PROVE  /\ Differ(r, s, 15) => Differ(Rel!NextBit[r], Rel!NextBit[s], 0)
         /\ ~ Differ(r, s, 15) =>
              \A k \in 1 .. 15 : Differ(Rel!NextBit[r], Rel!NextBit[s], k) <=> Differ(r, s, k - 1)
         /\ ~ Differ(r, s, 15) => ~ Differ(Rel!NextBit[r], Rel!NextBit[s], 0)
<1>1. ASSUME NEW k \in 0 .. 15
      PROVE  /\ k \in Rel!NextBit[r] <=> ~(k - 1 \in r <=> 15 \in r /\ k \in cm_poly)
             /\ k \in Rel!NextBit[s] <=> ~(k - 1 \in s <=> 15 \in s /\ k \in cm_poly)
  BY NextBitIs
<1>2. -1 \notin r /\ -1 \notin s
  BY WordBits
<1>3. /\ 0 \in Rel!NextBit[r] <=> 15 \in r
      /\ 0 \in Rel!NextBit[s] <=> 15 \in s
  <2>1. 0 \in 0 .. 15 /\ 0 - 1 = -1
    OBVIOUS
  <2>2. /\ 0 \in Rel!NextBit[r] <=> ~(-1 \in r <=> 15 \in r /\ 0 \in cm_poly)
        /\ 0 \in Rel!NextBit[s] <=> ~(-1 \in s <=> 15 \in s /\ 0 \in cm_poly)
    BY <1>1, <2>1
  <2>. QED
    BY <1>2, <2>2, Zenon DEF Lowest
<1>4. ASSUME NEW k \in 1 .. 15, ~ Differ(r, s, 15)
      PROVE  Differ(Rel!NextBit[r], Rel!NextBit[s], k) <=> Differ(r, s, k - 1)
  <2>1. k \in 0 .. 15
    OBVIOUS
  <2>2. /\ k \in Rel!NextBit[r] <=> ~(k - 1 \in r <=> 15 \in r /\ k \in cm_poly)
        /\ k \in Rel!NextBit[s] <=> ~(k - 1 \in s <=> 15 \in s /\ k \in cm_poly)
    BY <1>1, <2>1
  <2>. QED
    BY <1>4, <2>2, Zenon DEF Differ
<1>. QED
  BY <1>3, <1>4, Zenon DEF Differ

(* The registers of the eight steps of cm_nxt().                           *)
Stepped(g) ==
  g[0] \in Rel!Word /\ \A i \in 1 .. 8 : g[i] \in Rel!Word /\ g[i] = Rel!NextBit[g[i - 1]]

LEMMA NxtStepped ==
  ASSUME NEW r \in Register, NEW w \in Rel!Word
  PROVE  \E g : Rel!cm_nxt(r, w) = g[8] /\ g[0] = Begin(r, w) /\ Stepped(g)
<1>1. PICK g : /\ Rel!cm_nxt(r, w) = g[8] /\ g[0] = Begin(r, w)
               /\ \A i \in 1 .. 8 : g[i] = Rel!NextBit[g[i - 1]]
  BY NxtSteps
<1>2. g[0] \in Rel!Word
  BY <1>1, BeginIs
<1>3. ASSUME NEW i \in 1 .. 8, g[i - 1] \in Rel!Word PROVE g[i] \in Rel!Word
  <2>1. Rel!NextBit[g[i - 1]] \in Register
    BY <1>3, NextBitIs
  <2>. QED
    BY <1>1, <2>1, WordBits
<1>4. g[1] \in Rel!Word /\ g[2] \in Rel!Word /\ g[3] \in Rel!Word /\ g[4] \in Rel!Word
  BY <1>2, <1>3
<1>5. g[5] \in Rel!Word /\ g[6] \in Rel!Word /\ g[7] \in Rel!Word /\ g[8] \in Rel!Word
  BY <1>3, <1>4
<1>6. \A i \in 1 .. 8 : g[i] \in Rel!Word
  BY <1>4, <1>5
<1>. QED
  BY <1>1, <1>2, <1>6 DEF Stepped

Apart(r, s) == \E k \in 0 .. 15 : Differ(r, s, k)

LEMMA StepsKeep ==
  ASSUME Lowest, NEW g, Stepped(g), NEW h, Stepped(h), Apart(g[0], h[0])
  PROVE  Apart(g[8], h[8])
<1>1. ASSUME NEW i \in 1 .. 8, Apart(g[i - 1], h[i - 1]) PROVE Apart(g[i], h[i])
  <2>1. /\ g[i - 1] \in Rel!Word /\ g[i] = Rel!NextBit[g[i - 1]]
        /\ h[i - 1] \in Rel!Word /\ h[i] = Rel!NextBit[h[i - 1]]
    BY DEF Stepped
  <2>2. PICK r, s \in Rel!Word : r = g[i - 1] /\ s = h[i - 1]
    BY <2>1
  <2>3. PICK k \in 0 .. 15 : Differ(r, s, k)
    BY <1>1, <2>2 DEF Apart
  <2>4. \E m \in 0 .. 15 : Differ(Rel!NextBit[r], Rel!NextBit[s], m)
    <3>1. CASE Differ(r, s, 15)
      <4>1. Differ(Rel!NextBit[r], Rel!NextBit[s], 0)
        BY <3>1, DifferNext
      <4>2. 0 \in 0 .. 15
        OBVIOUS
      <4>. QED
        BY <4>1, <4>2
    <3>2. CASE ~ Differ(r, s, 15)
      <4>1. k # 15
        BY <2>3, <3>2
      <4>2. PICK m \in 1 .. 15 : m = k + 1 /\ m - 1 = k /\ m \in 0 .. 15
        BY <4>1
      <4>3. Differ(Rel!NextBit[r], Rel!NextBit[s], m) <=> Differ(r, s, m - 1)
        BY <3>2, DifferNext
      <4>. QED
        BY <2>3, <4>2, <4>3
    <3>. QED
      BY <3>1, <3>2
  <2>. QED
    BY <2>1, <2>2, <2>4 DEF Apart
<1>2. Apart(g[4], h[4])
  BY <1>1
<1>. QED
  BY <1>1, <1>2

LEMMA NxtKeeps ==
  ASSUME Lowest, NEW r \in Register, NEW s \in Register, NEW w \in Rel!Word, NEW v \in Rel!Word,
         NEW k \in 0 .. 15, Differ(r, s, k), k >= 8 => w = v
  PROVE  Apart(Rel!cm_nxt(r, w), Rel!cm_nxt(s, v))
<1>1. PICK g : Rel!cm_nxt(r, w) = g[8] /\ g[0] = Begin(r, w) /\ Stepped(g)
  BY NxtStepped
<1>2. PICK h : Rel!cm_nxt(s, v) = h[8] /\ h[0] = Begin(s, v) /\ Stepped(h)
  BY NxtStepped
<1>3. Differ(Begin(r, w), Begin(s, v), k)
  <2>1. k \in Begin(r, w) <=> ~(k \in r <=> k >= 8 /\ 15 - k \in w)
    BY BeginIs
  <2>2. k \in Begin(s, v) <=> ~(k \in s <=> k >= 8 /\ 15 - k \in v)
    BY BeginIs
  <2>3. k >= 8 /\ 15 - k \in w <=> k >= 8 /\ 15 - k \in v
    OBVIOUS
  <2>. QED
    BY <2>1, <2>2, <2>3, Zenon DEF Differ
<1>4. Apart(g[0], h[0])
  BY <1>1, <1>2, <1>3 DEF Apart
<1>. QED
  BY <1>1, <1>2, <1>4, StepsKeep

(* Two bytes that differ leave registers that differ in the lower half:    *)
(* the lowest bit in which they differ moves up until it leaves on top.    *)
LowestDiffers(r, s, i) ==
  \/ Apart(r, s) /\ \A k \in 0 .. 15 : Differ(r, s, k) => k >= 8 + i
  \/ \E k \in 0 .. 15 : k < i /\ Differ(r, s, k)

LEMMA RisingNext ==
  ASSUME Lowest, NEW r \in Rel!Word, NEW s \in Rel!Word, NEW i \in 0 .. 7, LowestDiffers(r, s, i)
  PROVE  LowestDiffers(Rel!NextBit[r], Rel!NextBit[s], i + 1)
<1>1. PICK x, y : x = Rel!NextBit[r] /\ y = Rel!NextBit[s]
  OBVIOUS
<1>2. /\ Differ(r, s, 15) => Differ(x, y, 0)
      /\ ~ Differ(r, s, 15) => \A k \in 1 .. 15 : Differ(x, y, k) <=> Differ(r, s, k - 1)
      /\ ~ Differ(r, s, 15) => ~ Differ(x, y, 0)
  BY <1>1, DifferNext
<1>3. CASE Differ(r, s, 15)
  <2>1. Differ(x, y, 0) /\ 0 \in 0 .. 15 /\ 0 < i + 1
    BY <1>2, <1>3
  <2>2. \E k \in 0 .. 15 : k < i + 1 /\ Differ(x, y, k)
    BY <2>1
  <2>. QED
    BY <1>1, <2>2 DEF LowestDiffers
<1>4. CASE ~ Differ(r, s, 15) /\ \E k \in 0 .. 15 : k < i /\ Differ(r, s, k)
  <2>1. PICK k \in 0 .. 15 : k < i /\ Differ(r, s, k)
    BY <1>4
  <2>2. PICK m \in 1 .. 15 : m = k + 1 /\ m - 1 = k /\ m \in 0 .. 15 /\ m < i + 1
    <3>1. k + 1 \in 1 .. 15 /\ (k + 1) - 1 = k /\ k + 1 \in 0 .. 15 /\ k + 1 < i + 1
      BY <2>1
    <3>. QED
      BY <3>1
  <2>3. Differ(x, y, m)
    BY <1>2, <1>4, <2>1, <2>2
  <2>4. \E l \in 0 .. 15 : l < i + 1 /\ Differ(x, y, l)
    BY <2>2, <2>3
  <2>. QED
    BY <1>1, <2>4 DEF LowestDiffers
<1>5. CASE /\ ~ Differ(r, s, 15)
           /\ Apart(r, s) /\ \A k \in 0 .. 15 : Differ(r, s, k) => k >= 8 + i
  <2>1. PICK k \in 0 .. 15 : Differ(r, s, k)
    BY <1>5 DEF Apart
  <2>2. k # 15
    BY <1>5, <2>1
  <2>3. PICK m \in 1 .. 15 : m = k + 1 /\ m - 1 = k /\ m \in 0 .. 15
    BY <2>2
  <2>4. Differ(x, y, m)
    BY <1>2, <1>5, <2>1, <2>3
  <2>5. Apart(x, y)
    BY <2>3, <2>4 DEF Apart
  <2>6. ASSUME NEW l \in 0 .. 15, Differ(x, y, l) PROVE l >= 8 + (i + 1)
    <3>1. l # 0
      BY <1>2, <1>5, <2>6
    <3>2. PICK n \in 0 .. 15 : n = l - 1 /\ l \in 1 .. 15
      BY <3>1
    <3>3. Differ(r, s, n)
      BY <1>2, <1>5, <2>6, <3>2
    <3>4. n >= 8 + i
      BY <1>5, <3>3
    <3>. QED
      BY <3>2, <3>4
  <2>. QED
    BY <1>1, <2>5, <2>6 DEF LowestDiffers
<1>. QED
  BY <1>3, <1>4, <1>5 DEF LowestDiffers

LEMMA BytesDiffer ==
  ASSUME Lowest, NEW r \in Register, NEW w \in Rel!Word, NEW v \in Rel!Word,
         NEW j \in 0 .. 7, Differ(w, v, j)
  PROVE  \E k \in 0 .. 7 : Differ(Rel!cm_nxt(r, w), Rel!cm_nxt(r, v), k)
<1>1. PICK g : Rel!cm_nxt(r, w) = g[8] /\ g[0] = Begin(r, w) /\ Stepped(g)
  BY NxtStepped
<1>2. PICK h : Rel!cm_nxt(r, v) = h[8] /\ h[0] = Begin(r, v) /\ Stepped(h)
  BY NxtStepped
<1>3. LowestDiffers(g[0], h[0], 0)
  <2>1. ASSUME NEW k \in 0 .. 15
        PROVE  Differ(g[0], h[0], k) <=> k >= 8 /\ Differ(w, v, 15 - k)
    <3>1. k \in Begin(r, w) <=> ~(k \in r <=> k >= 8 /\ 15 - k \in w)
      BY BeginIs
    <3>2. k \in Begin(r, v) <=> ~(k \in r <=> k >= 8 /\ 15 - k \in v)
      BY BeginIs
    <3>. QED
      BY <1>1, <1>2, <3>1, <3>2, Zenon DEF Differ
  <2>2. Apart(g[0], h[0])
    <3>1. PICK k \in 0 .. 15 : k >= 8 /\ 15 - k = j
      <4>1. 15 - j \in 0 .. 15 /\ 15 - j >= 8 /\ 15 - (15 - j) = j
        OBVIOUS
      <4>. QED
        BY <4>1
    <3>2. Differ(g[0], h[0], k)
      BY <2>1, <3>1
    <3>. QED
      BY <3>1, <3>2 DEF Apart
  <2>3. \A k \in 0 .. 15 : Differ(g[0], h[0], k) => k >= 8 + 0
    BY <2>1
  <2>. QED
    BY <2>2, <2>3 DEF LowestDiffers
<1>4. ASSUME NEW i \in 0 .. 7, LowestDiffers(g[i], h[i], i) PROVE LowestDiffers(g[i + 1], h[i + 1], i + 1)
  <2>1. i + 1 \in 1 .. 8 /\ (i + 1) - 1 = i
    OBVIOUS
  <2>2. g[i + 1] = Rel!NextBit[g[i]] /\ h[i + 1] = Rel!NextBit[h[i]]
    BY <1>1, <1>2, <2>1 DEF Stepped
  <2>3. g[i] \in Rel!Word /\ h[i] \in Rel!Word
    BY <1>1, <1>2 DEF Stepped
  <2>. QED
    BY <1>4, <2>2, <2>3, RisingNext
<1>5. LowestDiffers(g[8], h[8], 8)
  <2>1. LowestDiffers(g[4], h[4], 4)
    BY <1>3, <1>4
  <2>. QED
    BY <1>4, <2>1
<1>6. PICK k \in 0 .. 15 : k < 8 /\ Differ(g[8], h[8], k)
  <2>1. \A k \in 0 .. 15 : ~(k >= 8 + 8)
    OBVIOUS
  <2>. QED
    BY <1>5, <2>1 DEF LowestDiffers, Apart
<1>7. k \in 0 .. 7
  BY <1>6
<1>. QED
  BY <1>1, <1>2, <1>6, <1>7

(* A datagram in which a 0 has become 33 and at most the byte behind it    *)
(* something else has another CRC: the two registers differ after the      *)
(* first of these bytes in the lower half, which the next byte does not    *)
(* reach, and no byte after them brings them together again.               *)
Changed(m, e, n, k) ==
  /\ e \in Seq(Rel!Byte) /\ Len(e) = n /\ k \in 1 .. n
  /\ m[k] = 0 /\ e[k] = 33
  /\ \A i \in 1 .. n : i < k \/ i > k + 1 => e[i] = m[i]

LEMMA ChangeSeen ==
  ASSUME Lowest, NEW m \in Seq(Rel!Byte), NEW n \in Nat, n = Len(m),
         NEW e, NEW k, Changed(m, e, n, k)
  PROVE  Rel!generate_crc(e) # Rel!generate_crc(m)
<1>1. PICK p, q : p = Chars(m) /\ q = Chars(e)
  OBVIOUS
<1>2. /\ e \in Seq(Rel!Byte) /\ Len(e) = n /\ k \in 1 .. n /\ k \in Nat /\ k <= n
      /\ m[k] = 0 /\ e[k] = 33
      /\ \A i \in 1 .. n : i < k \/ i > k + 1 => e[i] = m[i]
  BY DEF Changed
<1>3. /\ Rel!generate_crc(m) = Rel!CrcOf(p) /\ Len(p) = n /\ AllWords(p, n)
      /\ \A i \in 1 .. n : p[i] = Rel!Char(m[i])
  BY <1>1, CharsAre
<1>4. /\ Rel!generate_crc(e) = Rel!CrcOf(q) /\ Len(q) = n /\ AllWords(q, n)
      /\ \A i \in 1 .. n : q[i] = Rel!Char(e[i])
  BY <1>1, <1>2, CharsAre
<1>5. PICK g : Rel!CrcOf(p) = Rel!reflect(g[n], 16) /\ Fed(p, n, g)
  BY <1>3, CrcSteps
<1>6. PICK h : Rel!CrcOf(q) = Rel!reflect(h[n], 16) /\ Fed(q, n, h)
  BY <1>4, CrcSteps
<1>7. \A i \in 0 .. n : g[i] \in Register /\ h[i] \in Register
  BY <1>3, <1>4, <1>5, <1>6, FedIn
<1>8. ASSUME NEW i \in 1 .. n
      PROVE  /\ g[i] = Rel!cm_nxt(g[i - 1], p[i]) /\ h[i] = Rel!cm_nxt(h[i - 1], q[i])
             /\ p[i] \in Rel!Word /\ q[i] \in Rel!Word
             /\ g[i - 1] \in Register /\ h[i - 1] \in Register
  <2>1. g[i] = Rel!cm_nxt(g[i - 1], p[i]) /\ h[i] = Rel!cm_nxt(h[i - 1], q[i])
    BY <1>5, <1>6 DEF Fed
  <2>2. p[i] \in Rel!Word /\ q[i] \in Rel!Word
    BY <1>3, <1>4 DEF AllWords
  <2>3. i - 1 \in 0 .. n
    OBVIOUS
  <2>. QED
    BY <1>7, <2>1, <2>2, <2>3
<1>9. h[k - 1] = g[k - 1]
  <2>1. PICK j \in Nat : j = k - 1 /\ j <= n
    <3>1. k - 1 \in Nat /\ k - 1 <= n
      BY <1>2
    <3>. QED
      BY <3>1
  <2>2. \A i \in 1 .. j : p[i] = q[i]
    <3>1. \A i \in 1 .. j : i \in 1 .. n /\ i < k
      BY <1>2, <2>1
    <3>. QED
      BY <1>2, <1>3, <1>4, <3>1
  <2>3. SameBytes(p, q, j)
    BY <2>2 DEF SameBytes
  <2>. QED
    BY <1>3, <1>4, <1>5, <1>6, <2>1, <2>3, FedSame
<1>10. PICK b \in 0 .. 7 : Differ(g[k], h[k], b)
  <2>1. 0 \notin Rel!Unsigned(0) /\ 0 \in Rel!Unsigned(33)
    <3>1. 2^0 = 1 /\ (0 \div 1) % 2 # 1 /\ (33 \div 1) % 2 = 1 /\ 0 \in 0 .. 7
      OBVIOUS
    <3>. QED
      BY <3>1, Zenon DEF Rel!Unsigned
  <2>2. Differ(p[k], q[k], 0) /\ 0 \in 0 .. 7
    <3>1. p[k] = Rel!Char(0) /\ q[k] = Rel!Char(33) /\ 0 \in 0 .. 7
      BY <1>2, <1>3, <1>4
    <3>2. 0 \notin Rel!Char(0) /\ 0 \in Rel!Char(33)
      BY <2>1, <3>1, CharIs
    <3>. QED
      BY <3>1, <3>2 DEF Differ
  <2>3. /\ g[k] = Rel!cm_nxt(g[k - 1], p[k]) /\ h[k] = Rel!cm_nxt(h[k - 1], q[k])
        /\ p[k] \in Rel!Word /\ q[k] \in Rel!Word /\ g[k - 1] \in Register
    BY <1>2, <1>8
  <2>4. PICK r \in Register, w \in Rel!Word, v \in Rel!Word :
          r = g[k - 1] /\ w = p[k] /\ v = q[k]
    BY <2>3
  <2>5. \E c \in 0 .. 7 : Differ(Rel!cm_nxt(r, w), Rel!cm_nxt(r, v), c)
    BY <2>2, <2>4, BytesDiffer
  <2>. QED
    BY <1>9, <2>3, <2>4, <2>5
<1>11. ASSUME NEW i \in 1 .. n, NEW c \in 0 .. 15, Differ(g[i - 1], h[i - 1], c),
              c >= 8 => p[i] = q[i]
       PROVE  Apart(g[i], h[i])
  <2>1. PICK r, s \in Register, w, v \in Rel!Word :
          r = g[i - 1] /\ s = h[i - 1] /\ w = p[i] /\ v = q[i]
    BY <1>8
  <2>2. g[i] = Rel!cm_nxt(r, w) /\ h[i] = Rel!cm_nxt(s, v)
    BY <1>8, <2>1
  <2>3. Differ(r, s, c) /\ (c >= 8 => w = v)
    BY <1>11, <2>1
  <2>. QED
    BY <2>2, <2>3, NxtKeeps
<1>. DEFINE G == {i \in Nat : i > k /\ i <= n => Apart(g[i], h[i])}
<1>12. 0 \in G
  BY <1>2
<1>13. ASSUME NEW i \in G PROVE i + 1 \in G
  <2>. SUFFICES ASSUME i + 1 > k, i + 1 <= n PROVE Apart(g[i + 1], h[i + 1])
    BY <1>13
  <2>1. i \in Nat /\ i + 1 \in 1 .. n /\ (i + 1) - 1 = i
    BY <1>13
  <2>2. CASE i = k
    <3>1. b \in 0 .. 15 /\ ~(b >= 8) /\ Differ(g[i], h[i], b)
      BY <1>10, <2>2
    <3>. QED
      BY <1>11, <2>1, <3>1
  <2>3. CASE i # k
    <3>1. i > k /\ i <= n /\ i + 1 > k + 1
      BY <1>2, <2>1, <2>3
    <3>2. PICK c \in 0 .. 15 : Differ(g[i], h[i], c)
      BY <1>13, <3>1 DEF Apart
    <3>3. p[i + 1] = q[i + 1]
      BY <1>2, <1>3, <1>4, <2>1, <3>1
    <3>. QED
      BY <1>11, <2>1, <3>2, <3>3
  <2>. QED
    BY <2>2, <2>3
<1>. HIDE DEF G
<1>14. G \subseteq Nat
  BY DEF G
<1>15. G = Nat
  BY <1>12, <1>13, <1>14, NatSteps
<1>16. PICK c \in 0 .. 15 : Differ(g[n], h[n], c)
  <2>1. CASE k = n
    <3>1. b \in 0 .. 15 /\ Differ(g[n], h[n], b)
      BY <1>10, <2>1
    <3>. QED
      BY <3>1
  <2>2. CASE k # n
    <3>1. n > k
      BY <1>2, <2>2
    <3>2. Apart(g[n], h[n])
      BY <1>15, <3>1 DEF G
    <3>. QED
      BY <3>2 DEF Apart
  <2>. QED
    BY <2>1, <2>2
<1>17. PICK d \in 0 .. 15 : 15 - d = c
  <2>1. 15 - c \in 0 .. 15 /\ 15 - (15 - c) = c
    OBVIOUS
  <2>. QED
    BY <2>1
<1>18. g[n] \in Register /\ h[n] \in Register
  BY <1>7
<1>19. /\ d \in Rel!reflect(g[n], 16) <=> c \in g[n]
       /\ d \in Rel!reflect(h[n], 16) <=> c \in h[n]
  BY <1>17, <1>18, ReflectIs
<1>. QED
  BY <1>3, <1>4, <1>5, <1>6, <1>16, <1>19 DEF Differ

(* What the programs hold are bytes, and a sink that has rejected a        *)
(* datagram has computed a CRC that is not 0.                              *)
RelInv ==
  /\ Rel!TypeOK
  /\ kpc = "rejected" => Rel!generate_crc(msg) # {}

LEMMA FileBytes ==
  ASSUME Rel!TypeOK
  PROVE  file \in Seq(Rel!Byte)
<1>1. Message \subseteq Seq(Rel!Byte)
  BY RelConstants
<1>2. <<>> \in Seq(Rel!Byte)
  OBVIOUS
<1>. QED
  BY <1>1, <1>2 DEF Rel!TypeOK

LEMMA RelInit == Rel!Init => RelInv
<1>. SUFFICES ASSUME Rel!Init PROVE RelInv
  OBVIOUS
<1>1. <<>> \in Seq(Rel!Byte) /\ <<>> \in Seq(Seq(Rel!Byte))
  OBVIOUS
<1>. QED
  BY <1>1 DEF Rel!Init, RelInv, Rel!TypeOK

LEMMA RelSource ==
  ASSUME RelInv, Rel!Source
  PROVE  RelInv'
<1>1. PICK f \in Message : file' = f /\ toGateway' = IF gpc = "recv" THEN <<Rel!Datagram(f)>> ELSE <<>>
  BY DEF Rel!Source
<1>2. f \in Seq(Rel!Byte)
  BY RelConstants
<1>3. PICK n \in Nat : n = Len(f)
  BY <1>2
<1>4. Rel!Datagram(f) \in Seq(Rel!Byte)
  BY <1>2, <1>3, DatagramIs
<1>5. PICK d : d = Rel!Datagram(f) /\ d \in Seq(Rel!Byte)
  BY <1>4
<1>6. <<d>> \in Seq(Seq(Rel!Byte)) /\ <<>> \in Seq(Seq(Rel!Byte))
  BY <1>5
<1>7. toGateway' \in Seq(Seq(Rel!Byte))
  BY <1>1, <1>5, <1>6
<1>8. spc' = "done" /\ UNCHANGED <<gpc, kpc, toSink, msg, shown>>
  BY DEF Rel!Source
<1>. QED
  BY <1>1, <1>7, <1>8 DEF RelInv, Rel!TypeOK

(* strcat() leaves bytes.                                                  *)
LEMMA StrcatIs ==
  ASSUME NEW m \in Seq(Rel!Byte)
  PROVE  Rel!Strcat(m) \in Seq(Rel!Byte)
<1>1. PICK n \in Nat : n = Len(m)
  OBVIOUS
<1>2. DOMAIN m = 1 .. n /\ \A k \in 1 .. n : m[k] \in Rel!Byte
  BY <1>1
<1>3. 33 \in Rel!Byte /\ 0 \in Rel!Byte
  BY DEF Rel!Byte
<1>4. PICK i : i = Rel!FirstNul(m)
  OBVIOUS
<1>5. [k \in 1 .. n |-> IF k = i THEN 33 ELSE IF k = i + 1 THEN 0 ELSE m[k]] \in Seq(Rel!Byte)
  BY <1>2, <1>3
<1>. QED
  BY <1>2, <1>4, <1>5 DEF Rel!Strcat

LEMMA RelGateway ==
  ASSUME RelInv, NEW i \in 0 .. 9, Rel!Gateway(i)
  PROVE  RelInv'
<1>1. PICK m : m = Head(toGateway)
  OBVIOUS
<1>2. m \in Seq(Rel!Byte)
  <2>1. toGateway \in Seq(Seq(Rel!Byte)) /\ toGateway # <<>>
    BY DEF RelInv, Rel!TypeOK, Rel!Gateway
  <2>. QED
    BY <1>1, <2>1
<1>3. PICK d : d = IF i \in {1, 2} THEN Rel!Strcat(m) ELSE m
  OBVIOUS
<1>4. d \in Seq(Rel!Byte)
  BY <1>2, <1>3, StrcatIs
<1>5. toSink' = IF kpc = "recv" THEN <<d>> ELSE <<>>
  BY <1>1, <1>3 DEF Rel!Gateway
<1>6. <<d>> \in Seq(Seq(Rel!Byte)) /\ <<>> \in Seq(Seq(Rel!Byte))
  BY <1>4
<1>7. toSink' \in Seq(Seq(Rel!Byte))
  BY <1>5, <1>6
<1>8. gpc' = "done" /\ toGateway' = <<>> /\ UNCHANGED <<file, spc, kpc, msg, shown>>
  BY DEF Rel!Gateway
<1>. QED
  BY <1>6, <1>7, <1>8 DEF RelInv, Rel!TypeOK

LEMMA PrintedIs ==
  ASSUME NEW m \in Seq(Rel!Byte)
  PROVE  Rel!Printed(m) \in Seq(Rel!Byte)
<1>1. PICK n \in Nat : n = Len(m)
  OBVIOUS
<1>. DEFINE I == {i \in 1 .. n : m[i] = 0}
<1>2. CASE I = {}
  <2>1. \A k \in DOMAIN m : m[k] # 0
    BY <1>1, <1>2
  <2>. QED
    BY <2>1 DEF Rel!Printed
<1>3. CASE I # {}
  <2>1. Rel!FirstNul(m) = Rel!Min(I)
    <3>1. I = {k \in DOMAIN m : m[k] = 0}
      BY <1>1
    <3>. QED
      BY <3>1, Zenon DEF Rel!FirstNul
  <2>2. PICK t \in I : \A k \in I : t <= k
    <3>1. I \in SUBSET Nat
      OBVIOUS
    <3>. HIDE DEF I
    <3>. QED
      BY <1>3, <3>1, LeastNat
  <2>3. Rel!Min(I) \in I
    <3>. HIDE DEF I
    <3>. QED
      BY <2>2 DEF Rel!Min
  <2>4. PICK l \in Nat : Rel!FirstNul(m) = l + 1 /\ l + 1 <= n /\ m[l + 1] = 0
    <3>1. PICK i \in I : i = Rel!Min(I)
      BY <2>3
    <3>2. i - 1 \in Nat /\ i = (i - 1) + 1 /\ i <= n /\ m[i] = 0
      OBVIOUS
    <3>. QED
      BY <2>1, <3>1, <3>2
  <2>5. Rel!Printed(m) = SubSeq(m, 1, l)
    <3>1. (l + 1) - 1 = l /\ ~ (\A k \in DOMAIN m : m[k] # 0)
      BY <1>1, <2>4
    <3>. QED
      BY <2>4, <3>1 DEF Rel!Printed
  <2>6. \A i \in 1 .. l : i \in 1 .. Len(m)
    BY <1>1, <2>4
  <2>7. SubSeq(m, 1, l) \in Seq(Rel!Byte)
    BY <1>1, <2>4
  <2>. QED
    BY <2>5, <2>7
<1>. QED
  BY <1>2, <1>3

LEMMA RelSink ==
  ASSUME RelInv, Rel!Sink
  PROVE  RelInv'
<1>1. PICK m : m = Head(toSink)
  OBVIOUS
<1>2. m \in Seq(Rel!Byte)
  <2>1. toSink \in Seq(Seq(Rel!Byte)) /\ toSink # <<>>
    BY DEF RelInv, Rel!TypeOK, Rel!Sink
  <2>. QED
    BY <1>1, <2>1
<1>3. /\ msg' = m /\ toSink' = <<>> /\ UNCHANGED <<file, spc, gpc, toGateway>>
      /\ IF Rel!generate_crc(m) = {}
         THEN kpc' = "accepted" /\ shown' = Rel!Printed(SubSeq(m, 1, Len(m) - 2))
         ELSE kpc' = "rejected" /\ UNCHANGED shown
  BY <1>1 DEF Rel!Sink
<1>4. <<>> \in Seq(Seq(Rel!Byte))
  OBVIOUS
<1>5. CASE Rel!generate_crc(m) = {}
  <2>1. SubSeq(m, 1, Len(m) - 2) \in Seq(Rel!Byte)
    <3>1. PICK n \in Nat : n = Len(m)
      BY <1>2
    <3>2. \A i \in 1 .. n - 2 : m[i] \in Rel!Byte
      BY <1>2, <3>1
    <3>. QED
      BY <1>2, <3>1, <3>2, SubSeqProperties
  <2>2. shown' \in Seq(Rel!Byte)
    BY <1>3, <1>5, <2>1, PrintedIs
  <2>3. kpc' = "accepted"
    BY <1>3, <1>5
  <2>. QED
    BY <1>2, <1>3, <1>4, <2>2, <2>3 DEF RelInv, Rel!TypeOK
<1>6. CASE Rel!generate_crc(m) # {}
  <2>1. kpc' = "rejected" /\ UNCHANGED shown
    BY <1>3, <1>6
  <2>. QED
    BY <1>2, <1>3, <1>4, <1>6, <2>1 DEF RelInv, Rel!TypeOK
<1>. QED
  BY <1>5, <1>6

LEMMA RelNext == RelInv /\ [Rel!Next]_relVars => RelInv'
<1>1. ASSUME RelInv, UNCHANGED relVars PROVE RelInv'
  BY <1>1 DEF relVars, RelInv, Rel!TypeOK
<1>2. ASSUME RelInv, Rel!OpenGateway PROVE RelInv'
  BY <1>2 DEF Rel!OpenGateway, RelInv, Rel!TypeOK
<1>3. ASSUME RelInv, Rel!OpenSink PROVE RelInv'
  BY <1>3 DEF Rel!OpenSink, RelInv, Rel!TypeOK
<1>. QED
  BY <1>1, <1>2, <1>3, RelSource, RelGateway, RelSink DEF Rel!Next

LEMMA RelGood == RelInv => Rel!CrcRight
<1>. SUFFICES ASSUME RelInv PROVE Rel!CrcRight
  OBVIOUS
<1>1. file \in Seq(Rel!Byte) /\ Rel!TypeOK
  BY FileBytes DEF RelInv
<1>2. /\ Rel!generate_crc(file) \in Register
      /\ Rel!generate_crc(file) = Rel!CrcOf([k \in DOMAIN file |-> Rel!Unsigned(file[k])])
  BY <1>1, CrcOfFile
<1>3. Rel!generate_crc(Rel!Datagram(file)) = {}
  BY <1>1, CrcCancels
<1>4. kpc = "rejected" => msg # Rel!Datagram(file)
  BY <1>3 DEF RelInv
<1>5. Rel!generate_crc(file) \subseteq 0 .. cm_width - 1
  BY <1>2, RelConstants DEF Register
<1>. QED
  BY <1>1, <1>2, <1>4, <1>5 DEF Rel!CrcRight

(* strcat() changes a datagram with a NUL so, and no other.                *)
LEMMA StrcatChanges ==
  ASSUME NEW m \in Seq(Rel!Byte), NEW n \in Nat, n = Len(m), NEW e, e = Rel!Strcat(m), e # m
  PROVE  \E k : Changed(m, e, n, k)
<1>1. DOMAIN m = 1 .. n /\ \A i \in 1 .. n : m[i] \in Rel!Byte
  OBVIOUS
<1>. DEFINE I == {i \in DOMAIN m : m[i] = 0}
<1>2. I # {}
  <2>1. CASE \A i \in DOMAIN m : m[i] # 0
    BY <2>1 DEF Rel!Strcat
  <2>. QED
    BY <2>1
<1>3. PICK k : k = Rel!FirstNul(m)
  OBVIOUS
<1>4. k \in 1 .. n /\ m[k] = 0
  <2>1. k = Rel!Min(I)
    BY <1>3, Zenon DEF Rel!FirstNul
  <2>2. I \in SUBSET Nat
    BY <1>1
  <2>3. \A i \in I : i \in 1 .. n /\ m[i] = 0
    BY <1>1
  <2>. HIDE DEF I
  <2>4. PICK t \in I : \A i \in I : t <= i
    BY <1>2, <2>2, LeastNat
  <2>5. Rel!Min(I) \in I
    BY <2>4 DEF Rel!Min
  <2>. QED
    BY <2>1, <2>3, <2>5
<1>5. e = [i \in 1 .. n |-> IF i = k THEN 33 ELSE IF i = k + 1 THEN 0 ELSE m[i]]
  <2>1. ~ (\A i \in DOMAIN m : m[i] # 0)
    BY <1>2
  <2>. QED
    BY <1>1, <1>3, <2>1 DEF Rel!Strcat
<1>6. e \in Seq(Rel!Byte)
  BY StrcatIs
<1>7. Len(e) = n
  BY <1>5
<1>8. e[k] = 33
  BY <1>4, <1>5
<1>9. ASSUME NEW i \in 1 .. n, i < k \/ i > k + 1 PROVE e[i] = m[i]
  <2>1. i # k /\ i # k + 1
    BY <1>4, <1>9
  <2>. QED
    BY <1>5, <2>1
<1>. QED
  BY <1>4, <1>6, <1>7, <1>8, <1>9 DEF Changed

(* What is on the way to the sink, and what the sink has accepted.         *)
Way ==
  /\ spc = "start" => toGateway = <<>> /\ toSink = <<>> /\ kpc # "accepted"
  /\ toGateway # <<>> => Head(toGateway) = Rel!Datagram(file)
  /\ toSink # <<>> => Head(toSink) \in {Rel!Datagram(file), Rel!Strcat(Rel!Datagram(file))}
  /\ kpc = "accepted" => msg = Rel!Datagram(file) /\ shown = Rel!Printed(file)

LEMMA WayInit == Rel!Init => Way
BY DEF Rel!Init, Way

LEMMA WaySource ==
  ASSUME Way, Rel!Source
  PROVE  Way'
<1>1. PICK d : d = Rel!Datagram(file')
  OBVIOUS
<1>2. /\ toGateway' = IF gpc = "recv" THEN <<d>> ELSE <<>>
      /\ spc = "start" /\ spc' = "done" /\ UNCHANGED <<gpc, kpc, toSink, msg, shown>>
  BY <1>1 DEF Rel!Source
<1>3. toGateway' # <<>> => Head(toGateway') = d
  BY <1>2
<1>4. toSink' = <<>> /\ kpc' # "accepted"
  BY <1>2 DEF Way
<1>. QED
  BY <1>1, <1>2, <1>3, <1>4 DEF Way

LEMMA WayGateway ==
  ASSUME Way, NEW i \in 0 .. 9, Rel!Gateway(i)
  PROVE  Way'
<1>1. PICK d, e : d = Rel!Datagram(file) /\ e = Rel!Strcat(d)
  OBVIOUS
<1>2. toGateway # <<>> /\ Head(toGateway) = d /\ spc # "start"
  BY <1>1 DEF Way, Rel!Gateway
<1>3. PICK s \in {d, e} : toSink' = IF kpc = "recv" THEN <<s>> ELSE <<>>
  BY <1>1, <1>2 DEF Rel!Gateway
<1>4. toSink' # <<>> => Head(toSink') \in {d, e}
  BY <1>3
<1>5. toGateway' = <<>> /\ UNCHANGED <<file, spc, kpc, msg, shown>>
  BY DEF Rel!Gateway
<1>. QED
  BY <1>1, <1>2, <1>4, <1>5 DEF Way

LEMMA WaySink ==
  ASSUME Lowest, RelInv, Way, Rel!Sink
  PROVE  Way'
<1>1. PICK d, m : d = Rel!Datagram(file) /\ m = Head(toSink)
  OBVIOUS
<1>2. file \in Seq(Rel!Byte)
  BY FileBytes DEF RelInv
<1>3. PICK n \in Nat : n = Len(file)
  BY <1>2
<1>4. d \in Seq(Rel!Byte) /\ Len(d) = n + 2 /\ \A i \in 1 .. n : d[i] = file[i]
  BY <1>1, <1>2, <1>3, DatagramIs
<1>5. spc # "start" /\ m \in {d, Rel!Strcat(d)}
  BY <1>1 DEF Way, Rel!Sink
<1>6. /\ msg' = m /\ toSink' = <<>> /\ UNCHANGED <<file, spc, gpc, toGateway>>
      /\ IF Rel!generate_crc(m) = {}
         THEN kpc' = "accepted" /\ shown' = Rel!Printed(SubSeq(m, 1, Len(m) - 2))
         ELSE kpc' = "rejected" /\ UNCHANGED shown
  BY <1>1 DEF Rel!Sink
<1>7. CASE m # d
  <2>1. PICK l \in Nat : l = n + 2
    OBVIOUS
  <2>2. m = Rel!Strcat(d)
    BY <1>5, <1>7
  <2>3. \E k : Changed(d, m, l, k)
    BY <1>4, <1>7, <2>1, <2>2, StrcatChanges
  <2>4. Rel!generate_crc(m) # Rel!generate_crc(d)
    BY <1>4, <2>1, <2>3, ChangeSeen
  <2>5. Rel!generate_crc(d) = {}
    BY <1>1, <1>2, CrcCancels
  <2>6. kpc' = "rejected"
    BY <1>6, <2>4, <2>5
  <2>. QED
    BY <1>5, <1>6, <2>6 DEF Way
<1>8. CASE m = d
  <2>1. SubSeq(m, 1, Len(m) - 2) = file
    <3>1. Len(m) - 2 = n
      BY <1>4, <1>8
    <3>2. \A i \in 1 .. n : m[i] \in Rel!Byte
      BY <1>4, <1>8
    <3>3. PICK c : c = SubSeq(m, 1, n)
      OBVIOUS
    <3>4. c \in Seq(Rel!Byte) /\ Len(c) = n /\ \A i \in 1 .. n : c[i] = m[i]
      <4>1. 1 \in Int /\ n \in Int /\ (IF 1 <= n THEN n - 1 + 1 ELSE 0) = n /\ n - 1 + 1 = n
        OBVIOUS
      <4>2. /\ c \in Seq(Rel!Byte) /\ Len(c) = IF 1 <= n THEN n - 1 + 1 ELSE 0
            /\ \A i \in 1 .. n - 1 + 1 : c[i] = m[1 + i - 1]
        BY <3>2, <3>3, <4>1, SubSeqProperties
      <4>3. \A i \in 1 .. n : 1 + i - 1 = i
        OBVIOUS
      <4>. QED
        BY <4>1, <4>2, <4>3
    <3>5. Len(c) = Len(file) /\ \A i \in 1 .. Len(c) : c[i] = file[i]
      BY <1>3, <1>4, <1>8, <3>4
    <3>6. c = file
      BY <1>2, <3>4, <3>5, SeqEqual
    <3>. QED
      BY <3>1, <3>3, <3>6
  <2>2. kpc' = "accepted" => shown' = Rel!Printed(file)
    BY <1>6, <2>1
  <2>. QED
    BY <1>1, <1>5, <1>6, <1>8, <2>2 DEF Way
<1>. QED
  BY <1>7, <1>8

LEMMA WayNext == Lowest /\ RelInv /\ Way /\ [Rel!Next]_relVars => Way'
<1>1. ASSUME Way, UNCHANGED relVars PROVE Way'
  BY <1>1 DEF relVars, Way
<1>2. ASSUME Way, Rel!OpenGateway PROVE Way'
  BY <1>2 DEF Rel!OpenGateway, Way
<1>3. ASSUME Way, Rel!OpenSink PROVE Way'
  BY <1>3 DEF Rel!OpenSink, Way
<1>. QED
  BY <1>1, <1>2, <1>3, WaySource, WayGateway, WaySink DEF Rel!Next

-----------------------------------------------------------------------------
(***************************************************************************)
(* The theorems.  Only the program that was chosen moves.                  *)
(***************************************************************************)

(* rshd: no process is lost and none is counted twice, whatever the users  *)
(* type and whenever they give up.  The processes in accept() are the      *)
(* first and one more for each refusal; the others serve, or have been     *)
(* turned into a shell, or have died, each on a connection of its own; and *)
(* nobody stays unserved while another process could still be forked.      *)
THEOREM ProcessesCounted == Spec => []Processes
<1>1. Init => RshInv
  BY RshInit DEF Init
<1>2. RshInv /\ [Next]_vars => RshInv'
  <2>1. RshInv /\ [Rsh!Next]_rshVars => RshInv'
    BY RshNext
  <2>. QED
    BY <2>1 DEF Next, vars, rshVars
<1>3. RshInv => Processes
  BY RshCardinality DEF RshInv, Counts, Processes, Rsh!Processes
<1>. QED
  BY <1>1, <1>2, <1>3, PTL DEF Spec

(* traceroute: however the answers are delayed, lost or mixed with those   *)
(* for other programs, a line never names a router that is farther than    *)
(* its hop, no answer is printed twice, and the lines are right up to the  *)
(* first message that was for somebody else.                               *)
THEOREM LinesTrue == Spec => []RouteTrue
<1>1. Init => RouteInv
  BY RouteInit DEF Init
<1>2. RouteInv /\ [Next]_vars => RouteInv'
  <2>1. RouteInv /\ [Route!Next]_routeVars => RouteInv'
    BY RouteNext
  <2>. QED
    BY <2>1 DEF Next, vars, routeVars
<1>3. RouteInv => RouteTrue
  BY RouteGood DEF RouteTrue
<1>. QED
  BY <1>1, <1>2, <1>3, PTL DEF Spec

(* list: however the bytes are cut, no node is printed twice or before an  *)
(* earlier one, and the receiver prints the list that was made if its      *)
(* length is right and each read() took exactly one part, and only if, but *)
(* for the end of the last node, which may be left unread.                 *)
THEOREM NodesPrintedOnce == Spec => []PrintedOnce
<1>1. Init => ListInv
  BY ListInit DEF Init
<1>2. ListInv /\ [Next]_vars => ListInv'
  <2>1. ListInv /\ [List!Next]_listVars => ListInv'
    BY ListNext
  <2>. QED
    BY <2>1 DEF Next, vars, listVars
<1>3. ListInv => PrintedOnce
  BY ListGood DEF PrintedOnce
<1>. QED
  BY <1>1, <1>2, <1>3, PTL DEF Spec

(* RSA echo: however the bytes are cut and whichever clients come, send a  *)
(* long message, give up or find the server dead, a client gets its own    *)
(* text back if its message is short and each read() of its conversation   *)
(* took one block, and never otherwise; it goes without only for one of    *)
(* these reasons or because the server died.                               *)
THEOREM EchoIsRight == Spec => []EchoRight
<1>1. Init => EchoInv
  BY EchoInit DEF Init
<1>2. EchoInv /\ [Next]_vars => EchoInv'
  <2>1. EchoInv /\ [Echo!Next]_echoVars => EchoInv'
    BY EchoNext
  <2>. QED
    BY <2>1 DEF Next, vars, echoVars
<1>3. EchoInv => EchoRight
  BY EchoGood DEF EchoRight
<1>. QED
  BY <1>1, <1>2, <1>3, PTL DEF Spec

(* mypasswd: however many invocations interleave, and whatever has become  *)
(* of the file, a write costs nobody a record but users whose lines begin  *)
(* where it goes (and not even these if it goes over the record of its own *)
(* user, which had a password), and its own user if it goes neither over   *)
(* that record nor to the end of the file.  Every other user has exactly   *)
(* one password in the file shadow, the one set last.                      *)
THEOREM PasswordsKept == Spec => []ShadowIntact
<1>1. Init => PassInv
  BY PassInit DEF Init
<1>2. PassInv /\ [Next]_vars => PassInv'
  <2>1. PassInv /\ [Pass!Next]_passVars => PassInv'
    BY PassNext
  <2>. QED
    BY <2>1 DEF Next, vars, passVars
<1>3. PassInv => ShadowIntact
  BY PassGood DEF ShadowIntact
<1>. QED
  BY <1>1, <1>2, <1>3, PTL DEF Spec

(* login: whoever is let in knows the password that was set last for the  *)
(* user of the first line that begins with what was typed, or that user    *)
(* has none, or may have lost the record by a write of mypasswd.           *)
THEOREM OnlyLetIn == Spec => LetIn
<1>. DEFINE Step == console'[1] = "in" /\ console[1] = "asking" => \E n \in Name : LetInBy(n)
<1>1. Init => PassInv
  BY PassInit DEF Init
<1>2. PassInv /\ [Next]_vars => PassInv'
  <2>1. PassInv /\ [Pass!Next]_passVars => PassInv'
    BY PassNext
  <2>. QED
    BY <2>1 DEF Next, vars, passVars
<1>3. PassInv /\ [Next]_vars => [Step]_(Pass!vars)
  <2>. SUFFICES ASSUME PassInv, [Pass!Next]_passVars, ~UNCHANGED Pass!vars
                PROVE  Step
    BY DEF Next, vars, passVars, Pass!vars
  <2>1. Pass!Next
    BY DEF passVars, Pass!vars
  <2>2. ASSUME NEW k \in Tool, NEW u \in Name, Pass!Locate(k, u)
        PROVE  Step
    <3>1. console' = console
      BY <2>2, Zenon DEF Pass!Locate
    <3>. QED
      BY <3>1
  <2>3. ASSUME NEW k \in Tool, NEW p \in Password, Pass!WriteBack(k, p)
        PROVE  Step
    <3>1. console' = console
      BY <2>3, Zenon DEF Pass!WriteBack
    <3>. QED
      BY <3>1
  <2>4. ASSUME NEW u \in Name, NEW p \in Password, Pass!Login(u, p)
        PROVE  Step
    BY <2>4, LoginKnows
  <2>. QED
    BY <2>1, <2>2, <2>3, <2>4 DEF Pass!Next
<1>4. LetIn <=> [][Step]_(Pass!vars)
  BY DEF LetIn, Pass!LetIn, LetInBy
<1>. QED
  BY <1>1, <1>2, <1>3, <1>4, PTL DEF Spec

(* test_dlist: whatever the words are and however many, a driver that      *)
(* comes to its end has printed the words less those it removed, and has   *)
(* freed every node; and with words that all differ it comes to its end    *)
(* unless r is the first, the last or the last but one.                    *)
THEOREM WordsLeft == Spec => []ListRight
<1>1. Init => DllInv
  BY DllInit DEF Init
<1>2. DllInv /\ [Next]_vars => DllInv'
  <2>1. DllInv /\ [Dll!Next]_dllVars => DllInv'
    BY DllNext
  <2>. QED
    BY <2>1 DEF Next, vars, dllVars
<1>3. DllInv => ListRight
  BY DllGood DEF ListRight
<1>. QED
  BY <1>1, <1>2, <1>3, PTL DEF Spec

(* cookies: for a file of any length, the cookies are its pieces: none     *)
(* holds a separator, put together with separators they are the file, and  *)
(* get_cookie() gives out the piece of its index, counted round.           *)
THEOREM CookiesFound == Spec => []CookieRight
<1>1. Init => CookInv
  BY CookInit DEF Init
<1>2. CookInv /\ [Next]_vars => CookInv'
  <2>1. CookInv /\ [Cook!Next]_cookVars => CookInv'
    BY CookNext
  <2>. QED
    BY <2>1 DEF Next, vars, cookVars
<1>3. CookInv => CookieRight
  BY CookGood DEF CookieRight
<1>. QED
  BY <1>1, <1>2, <1>3, PTL DEF Spec

(* reflectord: whatever the texts, the size of a packet and what was in    *)
(* memory before, the checksum gives what test-checksum.c expects, and if  *)
(* both packets are read whole, the sender sees the dot that was added if  *)
(* and only if the text has an odd number of bytes.                        *)
THEOREM DotSeenIfOdd == Spec => []DotNoticed
<1>1. Init => ReflInv
  BY ReflInit DEF Init
<1>2. ReflInv /\ [Next]_vars => ReflInv'
  <2>1. ReflInv /\ [Refl!Next]_reflVars => ReflInv'
    BY ReflNext
  <2>. QED
    BY <2>1 DEF Next, vars, reflVars
<1>3. ReflInv => DotNoticed
  BY ReflGood DEF DotNoticed
<1>. QED
  BY <1>1, <1>2, <1>3, PTL DEF Spec

(* relay: for any polynomial and any width of an unsigned long, the sink   *)
(* takes no datagram for a damaged one that was not changed, whatever is   *)
(* in the file; the bytes above 127, negative as chars, do not change the  *)
(* CRC, and it stays within its 16 bits.                                   *)
THEOREM SoundIsAccepted == Spec => []CrcRight
<1>1. Init => RelInv
  BY RelInit DEF Init
<1>2. RelInv /\ [Next]_vars => RelInv'
  <2>1. RelInv /\ [Rel!Next]_relVars => RelInv'
    BY RelNext
  <2>. QED
    BY <2>1 DEF Next, vars, relVars
<1>3. RelInv => CrcRight
  BY RelGood DEF CrcRight
<1>. QED
  BY <1>1, <1>2, <1>3, PTL DEF Spec

(* relay: for any polynomial that has its lowest bit, any file and any     *)
(* width of an unsigned long the sink accepts a datagram only if the       *)
(* gateway has not changed it, and prints the file as far as a C string    *)
(* reaches.  What crctest.c says of one text is taken as a fact about the  *)
(* polynomial.                                                             *)
THEOREM DamageIsSeen ==
  ASSUME 0 \in cm_poly, Rel!TestVector
  PROVE  Spec => []DamageSeen
<1>1. Init => RelInv /\ Way
  BY RelInit, WayInit DEF Init
<1>2. RelInv /\ Way /\ [Next]_vars => (RelInv /\ Way)'
  <2>1. RelInv /\ Way /\ [Rel!Next]_relVars => RelInv' /\ Way'
    BY RelNext, WayNext DEF Lowest
  <2>. QED
    BY <2>1 DEF Next, vars, relVars
<1>3. RelInv /\ Way => DamageSeen
  BY DEF DamageSeen, Rel!DamageSeen, Way
<1>. QED
  BY <1>1, <1>2, <1>3, PTL DEF Spec
=============================================================================
