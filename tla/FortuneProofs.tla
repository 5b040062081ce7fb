---------------------------- MODULE FortuneProofs ---------------------------
(* FortuneServer for any number of cookies, clients and requests. *)
EXTENDS FortuneServer, FiniteSetTheorems, WellFoundedInduction, TLAPS

TableType == [index : [Slot -> Cookie], freq : [Slot -> Nat], count : Nat]

(***************************************************************************)
(* The inductive invariant of a table t and the true counts g.  Entries in *)
(* use hold different cookies, none of them cookie 0; behind them there is *)
(* at least one entry, all of them hold 0, and only the first of them may  *)
(* have been counted up, for cookie 0.                                     *)
(***************************************************************************)
InUse(t) == 0 .. t.count - 1

Different(t) ==
  /\ \A j, k \in InUse(t) : t.index[j] = t.index[k] => j = k
  /\ \A k \in InUse(t) : t.index[k] # 0 /\ t.freq[k] > 0

Behind(t) ==
  /\ t.count < NumCookies
  /\ \A k \in Slot : k >= t.count => t.index[k] = 0
  /\ \A k \in Slot : k > t.count => t.freq[k] = 0

Counted(t, g) ==
  g[0] = 0 =>
    /\ t.freq[t.count] = 0
    /\ \A k \in InUse(t) : t.freq[k] = g[t.index[k]]
    /\ \A c \in Cookie : g[c] > 0 => \E k \in InUse(t) : t.index[k] = c

TableInv(t, g) ==
  /\ t \in TableType /\ g \in [Cookie -> Nat]
  /\ Different(t) /\ Behind(t) /\ Counted(t, g)

-----------------------------------------------------------------------------
(* What the assumption says of the constants, element by element. *)
LEMMA Constants ==
  /\ NumCookies \in Nat /\ NumCookies >= 1 /\ Slots \in Nat /\ NumCookies <= Slots
  /\ 0 \in Cookie /\ 0 \in Slot
BY TableAssumption DEF Cookie, Slot

(* A set of naturals has a least element: what the library says of < on    *)
(* Nat, and the form in which it replaces an induction here.               *)
LEMMA LeastNat ==
  ASSUME NEW S \in SUBSET Nat, S # {}
  PROVE  \E n \in S : \A m \in S : n <= m
<1>1. IsWellFoundedOn(OpToRel(<, Nat), Nat)
  BY NatLessThanWellFounded
<1>2. \E n \in S : \A m \in S : ~ (<<m, n>> \in OpToRel(<, Nat))
  BY <1>1, WFMin
<1>3. \A m, n \in S : m < n => <<m, n>> \in OpToRel(<, Nat)
  BY DEF OpToRel
<1>4. PICK n \in S : \A m \in S : ~ (<<m, n>> \in OpToRel(<, Nat))
  BY <1>2
<1>5. \A m \in S : ~ (m < n)
  BY <1>3, <1>4
<1> QED
  BY <1>5

(* What Min returns. *)
LEMMA MinIsLeast ==
  ASSUME NEW S \in SUBSET Nat, S # {}
  PROVE  Min(S) \in S /\ \A j \in S : Min(S) <= j
<1>1. \E n \in S : \A m \in S : n <= m
  BY LeastNat
<1> QED
  BY <1>1 DEF Min

(* The table a server starts with is right about no cookie given out. *)
LEMMA EmptyTableInv == TableInv(EmptyTable, [c \in Cookie |-> 0])
BY Constants DEF TableInv, EmptyTable, TableType, Different, Behind, Counted, InUse,
   Slot, Cookie

(* Two of more letters than boxes share a box. *)
LEMMA TwoInOne ==
  ASSUME NEW S, NEW T, IsFiniteSet(S), IsFiniteSet(T), Cardinality(T) < Cardinality(S),
         NEW f \in [S -> T]
  PROVE  \E x, y \in S : x # y /\ f[x] = f[y]
BY FS_PigeonHole

(* Different cookies, none of them 0, are fewer than NumCookies. *)
LEMMA RoomLeft ==
  ASSUME NEW t \in TableType, Different(t), t.count <= Slots
  PROVE  t.count < NumCookies
<1>1. SUFFICES ASSUME t.count >= NumCookies PROVE FALSE
  BY Constants DEF TableType
<1> DEFINE used == 0 .. t.count - 1
           f == [k \in used |-> t.index[k]]
<1>2. t.count \in Nat /\ NumCookies \in Nat /\ NumCookies >= 1
  BY Constants DEF TableType
<1>3. IsFiniteSet(used) /\ Cardinality(used) = t.count
  <2>1. t.count - 1 \in Int /\ 0 \in Int /\ ~(0 > t.count - 1)
    BY <1>1, <1>2
  <2>2. IsFiniteSet(used) /\ Cardinality(used) = (t.count - 1) - 0 + 1
    BY <2>1, FS_Interval
  <2> QED
    BY <1>2, <2>2
<1>4. IsFiniteSet(1 .. NumCookies - 1) /\ Cardinality(1 .. NumCookies - 1) = NumCookies - 1
  <2>1. NumCookies - 1 \in Int /\ 1 \in Int
    BY <1>2
  <2>2. /\ IsFiniteSet(1 .. NumCookies - 1)
        /\ Cardinality(1 .. NumCookies - 1) =
             IF 1 > NumCookies - 1 THEN 0 ELSE (NumCookies - 1) - 1 + 1
    BY <2>1, FS_Interval
  <2> QED
    BY <1>2, <2>2
<1>5. f \in [used -> 1 .. NumCookies - 1]
  <2> SUFFICES ASSUME NEW k \in used PROVE t.index[k] \in 1 .. NumCookies - 1
    OBVIOUS
  <2>1. k \in Slot /\ t.index[k] # 0
    BY <1>2, Constants DEF Slot, Different, InUse
  <2>2. t.index[k] \in Cookie
    BY <2>1 DEF TableType
  <2> QED
    BY <2>1, <2>2, <1>2 DEF Cookie
<1>6. Cardinality(1 .. NumCookies - 1) < Cardinality(used)
  BY <1>1, <1>2, <1>3, <1>4
<1>7. \E x, y \in used : x # y /\ f[x] = f[y]
  <2> DEFINE boxes == 1 .. NumCookies - 1
  <2>1. IsFiniteSet(used) /\ IsFiniteSet(boxes) /\ Cardinality(boxes) < Cardinality(used)
    BY <1>3, <1>4, <1>6
  <2>2. f \in [used -> boxes]
    BY <1>5
  <2> HIDE DEF used, f, boxes
  <2> QED
    BY <2>1, <2>2, TwoInOne
<1> QED
  BY <1>7 DEF Different, InUse

-----------------------------------------------------------------------------
(* Counting a cookie that has an entry, or that the spare entry stands for. *)
LEMMA CountAgain ==
  ASSUME NEW t, NEW g, TableInv(t, g), NEW c \in Cookie, NEW m \in Slot,
         m <= t.count, t.index[m] = c
  PROVE  TableInv([t EXCEPT !.freq[m] = @ + 1], [g EXCEPT ![c] = @ + 1])
<1> DEFINE u == [t EXCEPT !.freq[m] = @ + 1]
           h == [g EXCEPT ![c] = @ + 1]
<1>1. t \in TableType /\ g \in [Cookie -> Nat] /\ t.count \in Nat /\ m \in Nat
  BY DEF TableInv, TableType, Slot
<1>2. u \in TableType /\ u.index = t.index /\ u.count = t.count
      /\ u.freq = [t.freq EXCEPT ![m] = @ + 1]
  BY <1>1 DEF TableType
<1>3. h \in [Cookie -> Nat]
  BY <1>1
<1>4. InUse(t) \subseteq Slot
  BY <1>1, Constants DEF InUse, Slot, TableInv, Behind
<1>5. \A k \in Slot : u.freq[k] \in Nat /\ t.freq[k] \in Nat /\ u.freq[k] >= t.freq[k]
                      /\ (k # m => u.freq[k] = t.freq[k])
  BY <1>1, <1>2 DEF TableType
<1>6. Different(u)
  BY <1>2, <1>4, <1>5 DEF Different, InUse, TableInv
<1>7. Behind(u)
  BY <1>1, <1>2, <1>5 DEF Behind, TableInv, Slot
<1>8. Counted(u, h)
  <2> SUFFICES ASSUME h[0] = 0
               PROVE  /\ u.freq[u.count] = 0
                      /\ \A k \in InUse(u) : u.freq[k] = h[u.index[k]]
                      /\ \A d \in Cookie : h[d] > 0 => \E k \in InUse(u) : u.index[k] = d
    BY DEF Counted
  <2>1. c # 0 /\ g[0] = 0
    BY <1>1, Constants
  <2>2. t.count \in Slot
    BY <1>1, Constants DEF TableInv, Behind, Slot
  <2>3. m < t.count /\ m \in InUse(t)
    BY <1>1, <2>1, <2>2 DEF TableInv, Behind, InUse, Slot
  <2>4. /\ t.freq[t.count] = 0
        /\ \A k \in InUse(t) : t.freq[k] = g[t.index[k]]
        /\ \A d \in Cookie : g[d] > 0 => \E k \in InUse(t) : t.index[k] = d
    BY <2>1 DEF TableInv, Counted
  <2>5. u.freq[u.count] = 0
    BY <1>1, <1>2, <1>5, <2>2, <2>3, <2>4
  <2>6. ASSUME NEW k \in InUse(u) PROVE u.freq[k] = h[u.index[k]]
    <3>1. k \in InUse(t) /\ k \in Slot /\ t.index[k] \in Cookie
      BY <1>2, <1>4, <1>1 DEF InUse, TableType
    <3>2. CASE k = m
      BY <1>1, <1>2, <2>4, <3>1, <3>2 DEF TableType
    <3>3. CASE k # m
      <4>1. t.index[k] # c
        BY <2>3, <3>1, <3>3 DEF TableInv, Different
      <4> QED
        BY <1>1, <1>2, <1>5, <2>4, <3>1, <3>3, <4>1
    <3> QED
      BY <3>2, <3>3
  <2>7. ASSUME NEW d \in Cookie, h[d] > 0 PROVE \E k \in InUse(u) : u.index[k] = d
    <3>1. CASE d = c
      BY <1>2, <2>3, <3>1 DEF InUse
    <3>2. CASE d # c
      BY <1>1, <1>2, <2>4, <2>7, <3>2 DEF InUse
    <3> QED
      BY <3>1, <3>2
  <2> QED
    BY <2>5, <2>6, <2>7
<1> QED
  BY <1>2, <1>3, <1>6, <1>7, <1>8 DEF TableInv

(* A cookie without an entry takes the next one. *)
LEMMA CountNew ==
  ASSUME NEW t, NEW g, TableInv(t, g), NEW c \in Cookie, Found(t, c) = {}
  PROVE  TableInv([index |-> [t.index EXCEPT ![t.count] = c],
                   freq  |-> [t.freq EXCEPT ![t.count] = @ + 1],
                   count |-> t.count + 1],
                  [g EXCEPT ![c] = @ + 1])
<1> DEFINE n == t.count
           u == [index |-> [t.index EXCEPT ![n] = c], freq |-> [t.freq EXCEPT ![n] = @ + 1],
                 count |-> n + 1]
           h == [g EXCEPT ![c] = @ + 1]
<1>1. t \in TableType /\ g \in [Cookie -> Nat] /\ n \in Nat /\ n \in Slot /\ n + 1 <= Slots
  BY Constants DEF TableInv, TableType, Slot, Behind
<1>2. \A k \in Slot : k <= n => t.index[k] # c
  BY DEF Found
<1>3. c # 0
  BY <1>1, <1>2 DEF TableInv, Behind
<1>4. /\ u \in TableType /\ u.count = n + 1
      /\ u.index = [t.index EXCEPT ![n] = c] /\ u.freq = [t.freq EXCEPT ![n] = @ + 1]
  <2>1. [t.index EXCEPT ![n] = c] \in [Slot -> Cookie]
    BY <1>1 DEF TableType
  <2>2. [t.freq EXCEPT ![n] = @ + 1] \in [Slot -> Nat] /\ n + 1 \in Nat
    BY <1>1 DEF TableType
  <2> QED
    BY <2>1, <2>2 DEF TableType
<1>5. h \in [Cookie -> Nat]
  BY <1>1
<1> HIDE DEF u
<1>6. InUse(u) = InUse(t) \cup {n} /\ InUse(t) \subseteq Slot /\ n \notin InUse(t)
  <2>1. InUse(u) = 0 .. u.count - 1 /\ InUse(t) = 0 .. n - 1
    BY DEF InUse
  <2>2. \A k : k \in 0 .. (n + 1) - 1 <=> k \in 0 .. n - 1 \/ k = n
    BY <1>1
  <2>3. \A k \in 0 .. n - 1 : k \in Slot /\ k # n
    BY <1>1, Constants DEF Slot
  <2>4. InUse(u) = 0 .. (n + 1) - 1
    BY <1>4, <2>1
  <2> QED
    BY <2>1, <2>2, <2>3, <2>4
<1>7. /\ \A k \in InUse(t) : u.index[k] = t.index[k] /\ u.freq[k] = t.freq[k] /\ t.index[k] # c
      /\ u.index[n] = c /\ u.freq[n] = t.freq[n] + 1 /\ t.freq[n] \in Nat
  <2>1. \A k \in InUse(t) : k \in Slot /\ k # n /\ k <= n
    BY <1>1, <1>6 DEF InUse
  <2> QED
    BY <1>1, <1>2, <1>4, <2>1 DEF TableType
<1>8. Different(u)
  BY <1>3, <1>6, <1>7 DEF TableInv, Different
<1>9. u.count < NumCookies
  BY <1>1, <1>4, <1>8, RoomLeft
<1>10. Behind(u)
  BY <1>1, <1>4, <1>9 DEF Behind, TableInv, TableType, Slot
<1>11. Counted(u, h)
  <2> SUFFICES ASSUME h[0] = 0
               PROVE  /\ u.freq[u.count] = 0
                      /\ \A k \in InUse(u) : u.freq[k] = h[u.index[k]]
                      /\ \A d \in Cookie : h[d] > 0 => \E k \in InUse(u) : u.index[k] = d
    BY DEF Counted
  <2>1. g[0] = 0
    BY <1>1, <1>3, Constants
  <2>2. /\ t.freq[n] = 0
        /\ \A k \in InUse(t) : t.freq[k] = g[t.index[k]]
        /\ \A d \in Cookie : g[d] > 0 => \E k \in InUse(t) : t.index[k] = d
    BY <2>1 DEF TableInv, Counted
  <2>3. u.freq[u.count] = 0
    <3>1. n + 1 \in Slot /\ n + 1 > n
      BY <1>1, <1>4, <1>9, Constants DEF Slot
    <3> QED
      BY <1>1, <1>4, <3>1 DEF TableInv, Behind, TableType
  <2>4. g[c] = 0
    BY <1>1, <1>7, <2>2
  <2>5. \A k \in InUse(u) : u.freq[k] = h[u.index[k]]
    <3>1. \A k \in InUse(t) : h[t.index[k]] = g[t.index[k]]
      BY <1>1, <1>6, <1>7 DEF TableType
    <3>2. u.freq[n] = 1 /\ h[c] = 1
      BY <1>1, <1>7, <2>2, <2>4
    <3> QED
      BY <1>6, <1>7, <2>2, <3>1, <3>2
  <2>6. \A d \in Cookie : h[d] > 0 => \E k \in InUse(u) : u.index[k] = d
    BY <1>1, <1>6, <1>7, <2>2
  <2> QED
    BY <2>3, <2>5, <2>6
<1> QED
  BY <1>4, <1>5, <1>8, <1>10, <1>11 DEF TableInv, u

(* Giving out a cookie keeps the table right, whether searchArray() finds  *)
(* an entry for it or not.                                                 *)
LEMMA CountCookieKeeps ==
  ASSUME NEW t, NEW g, TableInv(t, g), NEW c \in Cookie
  PROVE  TableInv(CountCookie(t, c), [g EXCEPT ![c] = @ + 1])
<1>1. CASE Found(t, c) = {}
  BY <1>1, CountNew DEF CountCookie
<1>2. CASE Found(t, c) # {}
  <2> DEFINE m == Min(Found(t, c))
  <2>1. Found(t, c) \subseteq Nat
    BY DEF Found, Slot
  <2>2. m \in Found(t, c)
    BY <1>2, <2>1, MinIsLeast
  <2>3. m \in Slot /\ m <= t.count /\ t.index[m] = c
    BY <2>2 DEF Found
  <2>4. CountCookie(t, c) = [t EXCEPT !.freq[m] = @ + 1]
    BY <1>2 DEF CountCookie
  <2> HIDE DEF m
  <2> QED
    BY <2>3, <2>4, CountAgain
<1> QED
  BY <1>1, <1>2

-----------------------------------------------------------------------------
(* The highest of the first frequencies exists: no least n is without one. *)
LEMMA HighestExists ==
  ASSUME NEW n \in Nat, NEW f, \A k \in 0 .. n : f[k] \in Nat
  PROVE  \E k \in 0 .. n : \A j \in 0 .. n : f[j] <= f[k]
<1> DEFINE High(i) == \E k \in 0 .. i : \A j \in 0 .. i : f[j] <= f[k]
           None == {i \in 0 .. n : ~ High(i)}
<1>1. SUFFICES ASSUME None # {} PROVE FALSE
  <2>1. n \in 0 .. n
    OBVIOUS
  <2> QED
    BY <1>1, <2>1
<1>2. PICK i \in None : \A m \in None : i <= m
  <2>1. None \in SUBSET Nat
    OBVIOUS
  <2> HIDE DEF None
  <2> QED
    BY <1>1, <2>1, LeastNat
<1>3. i \in 0 .. n /\ ~ High(i)
  BY <1>2
<1>4. High(0)
  <2>1. f[0] \in Nat
    OBVIOUS
  <2> QED
    BY <2>1
<1>5. i # 0 /\ i - 1 \in 0 .. n
  BY <1>3, <1>4
<1>6. High(i - 1)
  <2>1. i - 1 \notin None
    <3>1. i \in Nat /\ ~ (i <= i - 1)
      BY <1>3
    <3> HIDE DEF None
    <3> QED
      BY <1>2, <3>1
  <2> QED
    BY <1>5, <2>1
<1>7. PICK k \in 0 .. i - 1 : \A j \in 0 .. i - 1 : f[j] <= f[k]
  BY <1>6
<1>8. f[k] \in Nat /\ f[i] \in Nat /\ k \in 0 .. i /\ i \in 0 .. i
  BY <1>3, <1>7
<1>9. \A j \in 0 .. i : f[j] \in Nat /\ (j = i \/ j \in 0 .. i - 1)
  BY <1>3
<1>10. CASE f[i] <= f[k]
  BY <1>3, <1>7, <1>8, <1>9, <1>10
<1>11. CASE f[i] > f[k]
  BY <1>3, <1>7, <1>8, <1>9, <1>11
<1> QED
  BY <1>8, <1>10, <1>11

(* What the answer to "stat" is. *)
LEMMA StatReads ==
  ASSUME NEW t \in TableType, InUse(t) \subseteq Slot, t.count > 0
  PROVE  \E k \in InUse(t) : /\ Stat(t) = [cookie |-> t.index[k], freq |-> t.freq[k]]
                              /\ \A j \in InUse(t) : t.freq[j] <= t.freq[k]
<1> DEFINE high == {k \in InUse(t) : \A j \in InUse(t) : t.freq[j] <= t.freq[k]}
<1>1. t.count - 1 \in Nat /\ \A k \in 0 .. t.count - 1 : t.freq[k] \in Nat
  <2>1. t.count \in Nat /\ t.freq \in [Slot -> Nat]
    BY DEF TableType
  <2> QED
    BY <2>1 DEF InUse
<1>2. high # {} /\ high \in SUBSET Nat
  <2> DEFINE n == t.count - 1
             f == t.freq
  <2>1. n \in Nat /\ \A k \in 0 .. n : f[k] \in Nat
    BY <1>1
  <2> HIDE DEF n, f
  <2>2. \E k \in 0 .. n : \A j \in 0 .. n : f[j] <= f[k]
    BY <2>1, HighestExists
  <2> QED
    BY <2>2 DEF InUse, n, f
<1>3. Min(high) \in high
  <2> HIDE DEF high
  <2> QED
    BY <1>2, MinIsLeast
<1>4. Stat(t) = [cookie |-> t.index[Min(high)], freq |-> t.freq[Min(high)]]
  BY <1>1 DEF Stat, InUse
<1> QED
  BY <1>3, <1>4

(* The truth of an answer a about the true counts g. *)
TruthOf(a, g) ==
  IF a.cookie = -1 THEN \A k \in Cookie : g[k] = 0
  ELSE a.freq = g[a.cookie] /\ \A k \in Cookie : g[k] <= a.freq

(* The answer to "stat" from a right table is true unless cookie 0 was     *)
(* given out.                                                              *)
LEMMA StatIsTrue ==
  ASSUME NEW t, NEW g, TableInv(t, g)
  PROVE  /\ Stat(t) \in [cookie : Cookie \cup {-1}, freq : Nat]
         /\ g[0] = 0 => TruthOf(Stat(t), g)
<1>1. t \in TableType /\ g \in [Cookie -> Nat] /\ t.count \in Nat /\ InUse(t) \subseteq Slot
  BY Constants DEF TableInv, TableType, Behind, InUse, Slot
<1>2. CASE t.count = 0
  <2>1. Stat(t) = [cookie |-> -1, freq |-> 0]
    BY <1>2 DEF Stat, NoCookie
  <2>2. ASSUME g[0] = 0, NEW k \in Cookie PROVE g[k] = 0
    <3>1. InUse(t) = {}
      BY <1>2 DEF InUse
    <3>2. ~ (g[k] > 0)
      BY <2>2, <3>1 DEF TableInv, Counted
    <3> QED
      BY <1>1, <3>2
  <2> QED
    BY <2>1, <2>2 DEF TruthOf
<1>3. CASE t.count > 0
  <2>1. PICK k \in InUse(t) : /\ Stat(t) = [cookie |-> t.index[k], freq |-> t.freq[k]]
                              /\ \A j \in InUse(t) : t.freq[j] <= t.freq[k]
    BY <1>1, <1>3, StatReads
  <2>2. /\ t.index[k] \in Cookie /\ t.index[k] # -1
        /\ \A j \in InUse(t) : t.freq[j] \in Nat /\ t.index[j] \in Cookie
    BY <1>1 DEF TableType, Cookie
  <2>3. ASSUME g[0] = 0 PROVE TruthOf(Stat(t), g)
    <3>1. /\ \A j \in InUse(t) : t.freq[j] = g[t.index[j]]
          /\ \A c \in Cookie : g[c] > 0 => \E j \in InUse(t) : t.index[j] = c
      BY <2>3 DEF TableInv, Counted
    <3>2. ASSUME NEW c \in Cookie PROVE g[c] <= t.freq[k]
      <4>1. g[c] \in Nat /\ t.freq[k] \in Nat
        BY <1>1, <2>2
      <4>2. CASE g[c] > 0
        <5>1. PICK j \in InUse(t) : t.index[j] = c
          BY <3>1, <4>2
        <5> QED
          BY <2>1, <3>1, <5>1
      <4> QED
        BY <4>1, <4>2
    <3> QED
      BY <2>1, <2>2, <3>1, <3>2 DEF TruthOf
  <2> QED
    BY <2>1, <2>2, <2>3
<1> QED
  BY <1>1, <1>2, <1>3

-----------------------------------------------------------------------------
(* The inductive invariant of the server. *)

Typed ==
  /\ cst \in [Client -> {"idle", "connected", "sent", "gotLen", "gone"}]
  /\ asks \in [Client -> Request \cup {"none"}]
  /\ queue \in Seq(Client)
  /\ spc \in {"accept", "read", "len", "text", "dead"}
  /\ conn \in Client /\ reset \in BOOLEAN
  /\ answer \in [cookie : Cookie \cup {-1}, freq : Nat]
  /\ kills \in 0 .. MaxKills

(* What is being sent is the answer to "stat", or a cookie. *)
Answered ==
  spc \in {"len", "text"} =>
    answer = Stat(table) \/ (answer.freq = 0 /\ answer.cookie \in Cookie)

IInv == Typed /\ TableInv(table, given) /\ Answered

(* "No cookie was accessed" is an answer. *)
LEMMA NoCookieTyped == NoCookie \in [cookie : Cookie \cup {-1}, freq : Nat]
BY DEF NoCookie

(* The server starts with a right table and no answer. *)
LEMMA InitInv == Init => IInv
<1> SUFFICES ASSUME Init PROVE IInv
  OBVIOUS
<1>1. Typed
  <2>1. 0 \in 0 .. MaxKills /\ <<>> \in Seq(Client)
    BY ServerAssumption
  <2>2. /\ cst \in [Client -> {"idle", "connected", "sent", "gotLen", "gone"}]
        /\ asks \in [Client -> Request \cup {"none"}]
    BY DEF Init
  <2> QED
    BY NoCookieTyped, <2>1, <2>2 DEF Init, Typed
<1>2. TableInv(table, given)
  BY EmptyTableInv DEF Init
<1>3. Answered
  BY DEF Init, Answered
<1> QED
  BY <1>1, <1>2, <1>3 DEF IInv

(* No step of the server or of a client spoils it: only Cook changes the   *)
(* table, and only Cook and Stats the answer.                              *)
LEMMA StepInv == IInv /\ [Next]_vars => IInv'
<1> SUFFICES ASSUME IInv, [Next]_vars PROVE IInv'
  OBVIOUS
<1> USE DEF IInv
<1>1. ASSUME NEW c \in Client, Connect(c) PROVE IInv'
  BY <1>1 DEF Connect, Typed, Answered, tableVars
<1>2. ASSUME NEW c \in Client, GiveUp(c) PROVE IInv'
  BY <1>2 DEF GiveUp, Typed, Answered, tableVars
<1>3. ASSUME NEW c \in Client, Kill(c) PROVE IInv'
  BY <1>3, ServerAssumption DEF Kill, Typed, Answered, tableVars
<1>4. ASSUME NEW c \in Client, NEW r \in Request, SendRequest(c, r) PROVE IInv'
  BY <1>4 DEF SendRequest, Typed, Answered, tableVars
<1>5. CASE Accept
  <2>1. Head(queue) \in Client /\ Tail(queue) \in Seq(Client)
    BY <1>5 DEF Accept, Typed
  <2> QED
    BY <1>5, <2>1 DEF Accept, Typed, Answered, clientVars, tableVars
<1>6. CASE Cook
  <2>1. PICK k \in Cookie : /\ answer' = [cookie |-> k, freq |-> 0]
                            /\ table' = CountCookie(table, k)
                            /\ given' = [given EXCEPT ![k] = @ + 1]
    BY <1>6 DEF Cook
  <2>2. TableInv(table, given)'
    BY <2>1, CountCookieKeeps
  <2>3. Typed'
    BY <1>6, <2>1 DEF Cook, Typed, clientVars
  <2>4. Answered'
    BY <2>1 DEF Answered
  <2> QED
    BY <2>2, <2>3, <2>4
<1>7. CASE Stats
  <2>1. TableInv(table, given)' /\ table' = table
    BY <1>7 DEF Stats, tableVars
  <2>2. Typed'
    BY <1>7, StatIsTrue DEF Stats, Typed, clientVars
  <2>3. Answered'
    BY <1>7, <2>1 DEF Stats, Answered
  <2> QED
    BY <2>1, <2>2, <2>3
<1>8. CASE NeitherRequest
  BY <1>8, NoCookieTyped DEF NeitherRequest, Hangup, Typed, Answered, tableVars
<1>9. CASE WriteLen
  BY <1>9 DEF WriteLen, Typed, Answered, tableVars
<1>10. CASE WriteText
  BY <1>10, NoCookieTyped DEF WriteText, Hangup, Typed, Answered, tableVars
<1>11. CASE BrokenPipe
  BY <1>11 DEF BrokenPipe, Typed, Answered, clientVars, tableVars
<1>12. CASE UNCHANGED vars
  BY <1>12 DEF vars, Typed, Answered
<1> QED
  BY <1>1, <1>2, <1>3, <1>4, <1>5, <1>6, <1>7, <1>8, <1>9, <1>10, <1>11, <1>12
     DEF Next, Serve

(* The table of fortune-server.c is right whatever requests came in. *)
THEOREM Invariance == Spec => []IInv
BY InitInv, StepInv, PTL DEF Spec

(* The variables of fortune-server.c and of the clients keep their types,  *)
(* whatever the number of cookies, slots, clients and kills.               *)
THEOREM TypeCorrect == Spec => []TypeOK
<1>1. IInv => TypeOK
  BY DEF IInv, Typed, TableInv, TableType, TypeOK
<1> QED
  BY <1>1, Invariance, PTL

(* searchArray() of fortune-server.c stays inside the arrays although it   *)
(* looks at an entry too many, and no cookie has two entries.              *)
THEOREM EntriesStayDifferent == Spec => []EntriesDiffer
<1>1. ASSUME IInv PROVE EntriesDiffer
  <2>1. table.count \in Slot
    BY <1>1, Constants DEF IInv, TableInv, TableType, Behind, Slot
  <2> QED
    BY <1>1, <2>1 DEF IInv, TableInv, Different, InUse, EntriesDiffer, Used
<1> QED
  BY <1>1, Invariance, PTL

(* As long as cookie 0 was not given out, what process_request() of        *)
(* fortune-server.c answers to "stat" is the truth.                        *)
THEOREM StatisticsAreTrue == Spec => []StatsTrue
<1>1. ASSUME IInv PROVE StatsTrue
  <2> SUFFICES ASSUME SendsStats, given[0] = 0 PROVE Truth(answer)
    BY DEF StatsTrue
  <2>1. answer = Stat(table)
    BY <1>1 DEF IInv, Answered, SendsStats, Cookie
  <2>2. TruthOf(answer, given)
    BY <1>1, <2>1, StatIsTrue DEF IInv
  <2> QED
    BY <2>2 DEF TruthOf, Truth
<1> QED
  BY <1>1, Invariance, PTL

-----------------------------------------------------------------------------
(* Induction, for a set of naturals and for a set of subsets. *)
LEMMA NatSteps ==
  ASSUME NEW F \in SUBSET Nat, 0 \in F, \A n \in F : n + 1 \in F
  PROVE  F = Nat
<1> SUFFICES ASSUME Nat \ F # {} PROVE FALSE
  OBVIOUS
<1>1. PICK n \in Nat \ F : \A m \in Nat \ F : n <= m
  BY LeastNat
<1>2. n # 0 /\ n - 1 \in Nat /\ ~ (n <= n - 1)
  BY <1>1
<1>3. n - 1 \in F
  BY <1>1, <1>2
<1>4. (n - 1) + 1 \in F
  BY <1>3
<1> QED
  BY <1>1, <1>4

LEMMA SetSteps ==
  ASSUME NEW S, IsFiniteSet(S), NEW F,
         \A s \in SUBSET S : (\A x \in s : s \ {x} \in F) => s \in F
  PROVE  \A s \in SUBSET S : s \in F
<1> DEFINE G == {n \in Nat : \A s \in SUBSET S : Cardinality(s) = n => s \in F}
<1>1. \A s \in SUBSET S : IsFiniteSet(s) /\ Cardinality(s) \in Nat
  BY FS_Subset, FS_CardinalityType
<1>2. 0 \in G
  <2> SUFFICES ASSUME NEW s \in SUBSET S, Cardinality(s) = 0 PROVE s \in F
    OBVIOUS
  <2>1. s = {}
    BY <1>1, FS_EmptySet
  <2> QED
    BY <2>1
<1>3. ASSUME NEW n \in G PROVE n + 1 \in G
  <2> SUFFICES ASSUME NEW s \in SUBSET S, Cardinality(s) = n + 1 PROVE s \in F
    OBVIOUS
  <2>1. ASSUME NEW x \in s PROVE s \ {x} \in F
    <3>1. Cardinality(s \ {x}) = n
      BY <1>1, FS_RemoveElement
    <3> QED
      BY <3>1
  <2> QED
    BY <2>1
<1>4. G = Nat
  <2> HIDE DEF G
  <2>1. G \subseteq Nat
    BY DEF G
  <2> QED
    BY <1>2, <1>3, <2>1, NatSteps
<1> QED
  BY <1>1, <1>4

-----------------------------------------------------------------------------
(* The recursive function behind Sum: what it adds first is left to CHOOSE. *)
First(s) == CHOOSE x \in s : TRUE

Adds(f, S, g) ==
  g = [s \in SUBSET S |-> IF s = {} THEN 0 ELSE f[First(s)] + g[s \ {First(s)}]]

LEMMA SumIs ==
  ASSUME NEW f, NEW S
  PROVE  Sum(f, S) = (CHOOSE g : Adds(f, S, g))[S]
BY DEF Sum, MapThenSumSet, MapThenFoldSet, Adds, First

LEMMA FirstIn ==
  ASSUME NEW s, s # {}
  PROVE  First(s) \in s
BY DEF First

LEMMA AddsExists ==
  ASSUME NEW S, IsFiniteSet(S), NEW f, \A x \in S : f[x] \in Nat
  PROVE  \E g \in [SUBSET S -> Nat] : Adds(f, S, g)
<1> DEFINE Small(n) == {s \in SUBSET S : Cardinality(s) <= n}
           Next1(g, n) == [s \in Small(n) |-> IF s = {} THEN 0 ELSE f[First(s)] + g[s \ {First(s)}]]
           F == {n \in Nat : \E g \in [Small(n) -> Nat] : g = Next1(g, n)}
<1>1. \A s \in SUBSET S : IsFiniteSet(s) /\ Cardinality(s) \in Nat
  BY FS_Subset, FS_CardinalityType
<1>2. 0 \in F
  <2>1. \A s \in Small(0) : s = {}
    BY <1>1, FS_EmptySet
  <2> DEFINE z == [s \in Small(0) |-> 0]
  <2>2. z \in [Small(0) -> Nat] /\ z = Next1(z, 0)
    BY <2>1
  <2> QED
    BY <2>2
<1>3. ASSUME NEW n \in F PROVE n + 1 \in F
  <2>1. PICK g \in [Small(n) -> Nat] : g = Next1(g, n)
    BY <1>3
  <2>2. \A s \in Small(n) : s \in Small(n + 1)
    BY <1>1
  <2>3. ASSUME NEW s \in Small(n + 1), s # {}
        PROVE  First(s) \in S /\ s \ {First(s)} \in Small(n)
    <3>1. First(s) \in s /\ s \in SUBSET S /\ Cardinality(s) <= n + 1
      BY <2>3, FirstIn
    <3>2. Cardinality(s \ {First(s)}) = Cardinality(s) - 1
      BY <1>1, <3>1, FS_RemoveElement
    <3>3. Cardinality(s \ {First(s)}) <= n
      BY <1>1, <1>3, <3>1, <3>2
    <3> QED
      BY <3>1, <3>3
  <2> DEFINE h == Next1(g, n + 1)
  <2>4. h \in [Small(n + 1) -> Nat]
    <3> HIDE DEF Small
    <3>1. ASSUME NEW s \in Small(n + 1), s # {} PROVE f[First(s)] + g[s \ {First(s)}] \in Nat
      <4>1. f[First(s)] \in Nat
        BY <2>3, <3>1
      <4>2. g[s \ {First(s)}] \in Nat
        BY <2>1, <2>3, <3>1
      <4> QED
        BY <4>1, <4>2
    <3> QED
      BY <3>1
  <2>5. \A s \in Small(n) : h[s] = g[s]
    <3> HIDE DEF Small
    <3> QED
      BY <2>1, <2>2
  <2>6. h = Next1(h, n + 1)
    <3>1. \A s \in Small(n + 1) : s # {} => h[s \ {First(s)}] = g[s \ {First(s)}]
      <4> HIDE DEF Small, h
      <4> QED
        BY <2>3, <2>5
    <3> HIDE DEF Small
    <3> QED
      BY <3>1
  <2>7. n + 1 \in Nat
    OBVIOUS
  <2> HIDE DEF h, Next1, Small
  <2> QED
    BY <2>4, <2>6, <2>7
<1>4. F = Nat
  <2> HIDE DEF F
  <2>1. F \subseteq Nat
    BY DEF F
  <2> QED
    BY <1>2, <1>3, <2>1, NatSteps
<1>5. Cardinality(S) \in F /\ Small(Cardinality(S)) = SUBSET S
  <2>1. Cardinality(S) \in Nat /\ \A s \in SUBSET S : Cardinality(s) <= Cardinality(S)
    <3>1. Cardinality(S) \in Nat
      BY <1>1
    <3>2. \A s \in SUBSET S : Cardinality(s) <= Cardinality(S)
      BY FS_Subset
    <3> QED
      BY <3>1, <3>2
  <2>2. Cardinality(S) \in F
    <3> HIDE DEF F
    <3> QED
      BY <1>4, <2>1
  <2> QED
    BY <2>1, <2>2
<1>6. PICK g \in [Small(Cardinality(S)) -> Nat] : g = Next1(g, Cardinality(S))
  BY <1>5
<1> QED
  BY <1>5, <1>6 DEF Adds

(* What the function of Sum does, whichever element is added first. *)
LEMMA AddsPlus ==
  ASSUME NEW S, IsFiniteSet(S), NEW f, \A x \in S : f[x] \in Nat,
         NEW g \in [SUBSET S -> Nat], Adds(f, S, g)
  PROVE  \A s \in SUBSET S : \A x \in s : g[s] = f[x] + g[s \ {x}]
<1> DEFINE F == {s \in SUBSET S : \A x \in s : g[s] = f[x] + g[s \ {x}]}
<1>1. ASSUME NEW s \in SUBSET S, \A x \in s : s \ {x} \in F PROVE s \in F
  <2> SUFFICES ASSUME NEW x \in s PROVE g[s] = f[x] + g[s \ {x}]
    OBVIOUS
  <2>1. PICK y \in s : y = First(s)
    BY FirstIn
  <2>2. g[s] = f[y] + g[s \ {y}]
    BY <2>1 DEF Adds
  <2>3. CASE x = y
    BY <2>2, <2>3
  <2>4. CASE x # y
    <3>1. x \in s \ {y} /\ y \in s \ {x} /\ (s \ {y}) \ {x} = (s \ {x}) \ {y}
      BY <2>4
    <3>2. g[s \ {y}] = f[x] + g[(s \ {y}) \ {x}]
      BY <1>1, <3>1
    <3>3. g[s \ {x}] = f[y] + g[(s \ {x}) \ {y}]
      BY <1>1, <3>1
    <3>4. f[x] \in Nat /\ f[y] \in Nat /\ g[(s \ {x}) \ {y}] \in Nat
      OBVIOUS
    <3>5. PICK a \in Nat, b \in Nat, c \in Nat :
            a = f[x] /\ b = f[y] /\ c = g[(s \ {x}) \ {y}]
      BY <3>4
    <3>6. g[s] = b + (a + c) /\ g[s \ {x}] = b + c
      BY <2>2, <3>1, <3>2, <3>3, <3>5
    <3> QED
      BY <3>5, <3>6
  <2> QED
    BY <2>3, <2>4
<1>2. \A s \in SUBSET S : s \in F
  <2> HIDE DEF F
  <2> QED
    BY <1>1, SetSteps
<1> QED
  BY <1>2

(* It does not matter in which set the subsets are summed up, nor what the *)
(* function is elsewhere.                                                  *)
LEMMA AddsSame ==
  ASSUME NEW S, IsFiniteSet(S), NEW T, NEW f, NEW g, NEW h, NEW i,
         S \subseteq T, \A x \in S : f[x] = g[x],
         Adds(f, S, h), Adds(g, T, i)
  PROVE  h[S] = i[S]
<1> DEFINE F == {s \in SUBSET S : h[s] = i[s]}
<1>1. ASSUME NEW s \in SUBSET S, \A x \in s : s \ {x} \in F PROVE s \in F
  <2>1. s \in SUBSET T
    OBVIOUS
  <2>2. CASE s = {}
    <3>1. h[s] = 0
      BY <2>2 DEF Adds
    <3>2. i[s] = 0
      BY <2>1, <2>2 DEF Adds
    <3> QED
      BY <3>1, <3>2
  <2>3. CASE s # {}
    <3>1. PICK y \in s : y = First(s)
      BY <2>3, FirstIn
    <3>2. h[s] = f[y] + h[s \ {y}]
      BY <3>1 DEF Adds
    <3>3. i[s] = g[y] + i[s \ {y}]
      BY <2>1, <3>1 DEF Adds
    <3> QED
      BY <1>1, <3>1, <3>2, <3>3
  <2> QED
    BY <2>2, <2>3
<1>2. \A s \in SUBSET S : s \in F
  <2> HIDE DEF F
  <2> QED
    BY <1>1, SetSteps
<1> QED
  BY <1>2

-----------------------------------------------------------------------------
(* So Sum is what its name says: it is 0 of nothing, one more element adds *)
(* its number, and only what is added counts.                              *)
LEMMA SumType ==
  ASSUME NEW S, IsFiniteSet(S), NEW f, \A x \in S : f[x] \in Nat
  PROVE  Sum(f, S) \in Nat
<1> DEFINE g == CHOOSE g : Adds(f, S, g)
<1>1. PICK e \in [SUBSET S -> Nat] : Adds(f, S, e)
  BY AddsExists
<1>2. Adds(f, S, g)
  BY <1>1
<1> HIDE DEF g
<1>3. g[S] = e[S]
  BY <1>1, <1>2, AddsSame
<1> QED
  BY <1>1, <1>3, SumIs DEF g

LEMMA SumBy ==
  ASSUME NEW S, IsFiniteSet(S), NEW f, NEW h, Adds(f, S, h)
  PROVE  Sum(f, S) = h[S]
<1> DEFINE g == CHOOSE g : Adds(f, S, g)
<1>1. Adds(f, S, g)
  OBVIOUS
<1> HIDE DEF g
<1>2. g[S] = h[S]
  BY <1>1, AddsSame
<1> QED
  BY <1>2, SumIs DEF g

LEMMA SumSame ==
  ASSUME NEW S, IsFiniteSet(S), NEW f, NEW g,
         \A x \in S : f[x] \in Nat /\ g[x] = f[x]
  PROVE  Sum(g, S) = Sum(f, S)
<1>1. PICK h : Adds(f, S, h)
  BY AddsExists
<1>2. PICK i : Adds(g, S, i)
  BY AddsExists
<1>3. h[S] = i[S]
  BY <1>1, <1>2, AddsSame
<1> QED
  BY <1>1, <1>2, <1>3, SumBy

LEMMA SumPlus ==
  ASSUME NEW S, IsFiniteSet(S), NEW f, \A x \in S : f[x] \in Nat, NEW x \in S
  PROVE  Sum(f, S) = f[x] + Sum(f, S \ {x})
<1>1. PICK h \in [SUBSET S -> Nat] : Adds(f, S, h)
  BY AddsExists
<1>2. PICK i : Adds(f, S \ {x}, i)
  <2>1. IsFiniteSet(S \ {x}) /\ \A y \in S \ {x} : f[y] \in Nat
    BY FS_RemoveElement
  <2> QED
    BY <2>1, AddsExists
<1>3. h[S] = f[x] + h[S \ {x}]
  BY <1>1, AddsPlus
<1>4. IsFiniteSet(S \ {x})
  BY FS_RemoveElement
<1>5. i[S \ {x}] = h[S \ {x}]
  <2>1. S \ {x} \subseteq S
    OBVIOUS
  <2> QED
    BY <1>1, <1>2, <1>4, <2>1, AddsSame
<1> QED
  BY <1>1, <1>2, <1>3, <1>4, <1>5, SumBy

LEMMA SumZero ==
  ASSUME NEW S, IsFiniteSet(S), NEW f, \A x \in S : f[x] = 0
  PROVE  Sum(f, S) = 0
<1> DEFINE z == [s \in SUBSET S |-> 0]
<1>1. Adds(f, S, z)
  <2>1. ASSUME NEW s \in SUBSET S, s # {} PROVE f[First(s)] + z[s \ {First(s)}] = 0
    <3>1. First(s) \in S
      BY <2>1, FirstIn
    <3> QED
      BY <3>1
  <2> QED
    BY <2>1 DEF Adds
<1> QED
  BY <1>1, SumBy

(* One of the numbers goes up by one.                                      *)
LEMMA SumBump ==
  ASSUME NEW S, IsFiniteSet(S), NEW f, NEW g, NEW x \in S, \A y \in S : f[y] \in Nat,
         g[x] = f[x] + 1, \A y \in S \ {x} : g[y] = f[y]
  PROVE  Sum(g, S) = Sum(f, S) + 1
<1>1. IsFiniteSet(S \ {x})
  BY FS_RemoveElement
<1>2. Sum(g, S \ {x}) = Sum(f, S \ {x}) /\ Sum(f, S \ {x}) \in Nat
  BY <1>1, SumSame, SumType
<1>3. Sum(f, S) = f[x] + Sum(f, S \ {x})
  BY SumPlus
<1>4. \A y \in S : g[y] \in Nat
  OBVIOUS
<1>5. Sum(g, S) = g[x] + Sum(g, S \ {x})
  BY <1>4, SumPlus
<1> QED
  BY <1>2, <1>3, <1>5

-----------------------------------------------------------------------------
LEMMA UpToFinite == (\A n \in Nat : IsFiniteSet(0 .. n) /\ IsFiniteSet(0 .. n + 1)) /\ IsFiniteSet(Cookie)
<1>1. ASSUME NEW n \in Int PROVE IsFiniteSet(0 .. n)
  BY FS_Interval
<1>2. NumCookies - 1 \in Int
  BY Constants
<1> QED
  BY <1>1, <1>2 DEF Cookie

(* Giving out a cookie adds one to the counts of the table, as to the true *)
(* ones, in its entry or in a new one.                                     *)
LEMMA CountCookieAdds ==
  ASSUME NEW t, NEW g, TableInv(t, g), NEW c \in Cookie
  PROVE  /\ Sum(CountCookie(t, c).freq, 0 .. CountCookie(t, c).count) = Sum(t.freq, 0 .. t.count) + 1
         /\ Sum([g EXCEPT ![c] = @ + 1], Cookie) = Sum(g, Cookie) + 1
<1>1. t \in TableType /\ g \in [Cookie -> Nat]
  BY DEF TableInv
<1>2. PICK n \in Nat : n = t.count /\ n < NumCookies
  BY <1>1 DEF TableType, TableInv, Behind
<1>3. 0 .. n \subseteq Slot /\ IsFiniteSet(0 .. n) /\ IsFiniteSet(Cookie) /\ n \in 0 .. n
  <2>1. 0 .. n \subseteq Slot /\ n \in 0 .. n
    BY <1>2, Constants DEF Slot
  <2> QED
    BY <2>1, UpToFinite
<1>4. \A k \in Slot : t.freq[k] \in Nat
  BY <1>1 DEF TableType
<1>5. Sum([g EXCEPT ![c] = @ + 1], Cookie) = Sum(g, Cookie) + 1
  <2> DEFINE h == [g EXCEPT ![c] = @ + 1]
  <2>1. h[c] = g[c] + 1 /\ (\A y \in Cookie \ {c} : h[y] = g[y]) /\ \A y \in Cookie : g[y] \in Nat
    BY <1>1
  <2> HIDE DEF h
  <2>2. Sum(h, Cookie) = Sum(g, Cookie) + 1
    BY <1>3, <2>1, SumBump
  <2> QED
    BY <2>2 DEF h
<1>6. CASE Found(t, c) # {}
  <2> DEFINE m == Min(Found(t, c))
  <2>1. Found(t, c) \subseteq Nat
    BY DEF Found, Slot
  <2>2. m \in Found(t, c)
    BY <1>6, <2>1, MinIsLeast
  <2>3. m \in Slot /\ m <= t.count
    BY <2>2 DEF Found
  <2>4. CountCookie(t, c) = [t EXCEPT !.freq[m] = @ + 1]
    BY <1>6 DEF CountCookie
  <2> HIDE DEF m
  <2>5. PICK f : f = [t.freq EXCEPT ![m] = @ + 1]
    OBVIOUS
  <2>6. CountCookie(t, c).freq = f /\ CountCookie(t, c).count = n
    BY <1>1, <1>2, <2>4, <2>5 DEF TableType
  <2>7. f[m] = t.freq[m] + 1 /\ \A y \in Slot \ {m} : f[y] = t.freq[y]
    BY <1>1, <2>3, <2>5 DEF TableType
  <2>8. m \in 0 .. n
    BY <1>2, <2>3 DEF Slot
  <2>9. Sum(f, 0 .. n) = Sum(t.freq, 0 .. n) + 1
    BY <1>3, <1>4, <2>7, <2>8, SumBump
  <2> QED
    BY <1>2, <1>5, <2>6, <2>9
<1>7. CASE Found(t, c) = {}
  <2>1. PICK u : u = [index |-> [t.index EXCEPT ![n] = c], freq |-> [t.freq EXCEPT ![n] = @ + 1],
                      count |-> n + 1]
    OBVIOUS
  <2>2. CountCookie(t, c) = u
    BY <1>2, <1>7, <2>1 DEF CountCookie
  <2>3. PICK f : f = u.freq
    OBVIOUS
  <2>4. u.count = n + 1 /\ f = [t.freq EXCEPT ![n] = @ + 1]
    BY <2>1, <2>3
  <2>5. f[n] = t.freq[n] + 1 /\ \A y \in Slot \ {n} : f[y] = t.freq[y]
    BY <1>1, <1>3, <2>4 DEF TableType
  <2>6. n + 1 \in Slot /\ t.freq[n + 1] = 0
    <3>1. TableInv(u, [g EXCEPT ![c] = @ + 1])
      BY <2>2, CountCookieKeeps
    <3>2. n + 1 < NumCookies
      BY <2>4, <3>1 DEF TableInv, Behind
    <3>3. n + 1 \in Slot /\ n + 1 > t.count
      BY <1>2, <3>2, Constants DEF Slot
    <3> QED
      BY <3>3 DEF TableInv, Behind
  <2>7. Sum(f, 0 .. n) = Sum(t.freq, 0 .. n) + 1
    BY <1>3, <1>4, <2>5, SumBump
  <2>8. Sum(f, 0 .. n + 1) = f[n + 1] + Sum(f, 0 .. n)
    <3>1. IsFiniteSet(0 .. n + 1) /\ n + 1 \in 0 .. n + 1 /\ (0 .. n + 1) \ {n + 1} = 0 .. n
      <4>1. n + 1 \in 0 .. n + 1 /\ (0 .. n + 1) \ {n + 1} = 0 .. n
        OBVIOUS
      <4> QED
        BY <4>1, UpToFinite
    <3>2. \A y \in 0 .. n + 1 : f[y] \in Nat
      <4>1. \A y \in 0 .. n + 1 : y \in Slot
        BY <1>3, <2>6
      <4> QED
        BY <1>3, <1>4, <2>5, <4>1
    <3> QED
      BY <3>1, <3>2, SumPlus
  <2>9. f[n + 1] = 0 /\ Sum(f, 0 .. n) \in Nat
    <3>1. n + 1 # n
      OBVIOUS
    <3>2. \A y \in 0 .. n : f[y] \in Nat
      BY <1>3, <1>4, <2>5
    <3> QED
      BY <1>3, <2>5, <2>6, <3>1, <3>2, SumType
  <2> QED
    BY <1>2, <1>5, <2>2, <2>3, <2>4, <2>7, <2>8, <2>9
<1> QED
  BY <1>6, <1>7

(* No cookie that process_request() of fortune-server.c gives out is lost  *)
(* from the counts of its table, though it may be counted for another one. *)
THEOREM EveryOneCounted == Spec => []EveryCookieCounted
<1>1. Init => EveryCookieCounted
  <2> SUFFICES ASSUME Init PROVE EveryCookieCounted
    OBVIOUS
  <2>1. PICK f : f = table.freq /\ table.count = 0 /\ (\A k \in Slot : f[k] = 0)
    BY DEF Init, EmptyTable
  <2>2. PICK g : g = given /\ \A k \in Cookie : g[k] = 0
    BY DEF Init
  <2>3. IsFiniteSet(0 .. 0) /\ IsFiniteSet(Cookie) /\ 0 .. 0 \subseteq Slot
    <3>1. 0 .. 0 = {0}
      OBVIOUS
    <3> QED
      BY <3>1, Constants, UpToFinite
  <2>4. Sum(f, 0 .. 0) = 0 /\ Sum(g, Cookie) = 0
    BY <2>1, <2>2, <2>3, SumZero
  <2> QED
    BY <2>1, <2>2, <2>4 DEF EveryCookieCounted
<1>2. IInv /\ EveryCookieCounted /\ [Next]_vars => EveryCookieCounted'
  <2> SUFFICES ASSUME IInv, EveryCookieCounted, [Next]_vars PROVE EveryCookieCounted'
    OBVIOUS
  <2>1. CASE Cook
    <3>1. PICK k \in Cookie : /\ table' = CountCookie(table, k)
                              /\ given' = [given EXCEPT ![k] = @ + 1]
      BY <2>1 DEF Cook
    <3>2. TableInv(table, given)
      BY DEF IInv
    <3>3. PICK t, g : t = table /\ g = given
      OBVIOUS
    <3>4. /\ Sum(CountCookie(t, k).freq, 0 .. CountCookie(t, k).count) = Sum(t.freq, 0 .. t.count) + 1
          /\ Sum([g EXCEPT ![k] = @ + 1], Cookie) = Sum(g, Cookie) + 1
      BY <3>2, <3>3, CountCookieAdds
    <3>5. Sum(t.freq, 0 .. t.count) = Sum(g, Cookie)
      BY <3>3 DEF EveryCookieCounted
    <3> QED
      BY <3>1, <3>3, <3>4, <3>5 DEF EveryCookieCounted
  <2>2. CASE ~ Cook
    <3>1. UNCHANGED tableVars
      BY <2>2 DEF Next, Serve, Connect, GiveUp, Kill, SendRequest, Accept, Stats, NeitherRequest,
                  WriteLen, WriteText, BrokenPipe, vars, tableVars
    <3> QED
      BY <3>1 DEF tableVars, EveryCookieCounted
  <2> QED
    BY <2>1, <2>2
<1> QED
  BY <1>1, <1>2, Invariance, PTL DEF Spec
=============================================================================
