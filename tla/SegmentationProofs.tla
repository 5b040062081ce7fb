------------------------- MODULE SegmentationProofs -------------------------
(* Segmentation for every file length that one read() of an int's worth of *)
(* bytes can take.                                                         *)
EXTENDS Segmentation, TLAPS

(* noOfSegments as arithmetic: all segments but the last are full ones,    *)
(* and what is left for the last is no more than a full one, except if n   *)
(* is a multiple of MAX_UDP.                                               *)
LEMMA Segments ==
  ASSUME NEW n \in Nat, n <= READ
  PROVE  /\ NoOfSegments(n) \in Nat /\ NoOfSegments(n) >= 1 /\ NoOfSegments(n) < LAST
         /\ (NoOfSegments(n) - 1) * SEG <= n
         /\ n <= SEG \/ n % MAX_UDP # 0 => n - (NoOfSegments(n) - 1) * SEG <= SEG
         /\ n > SEG /\ n % MAX_UDP = 0 =>
               n - (NoOfSegments(n) - 1) * SEG = SEG + (n % SEG)
<1>1. CASE n <= SEG
  BY <1>1 DEF NoOfSegments, SEG, MAX_UDP, LAST
<1>2. CASE n > SEG
  <2> DEFINE q == n \div SEG
  <2>1. /\ q \in Nat /\ q >= 1 /\ q * SEG <= n /\ n < (q + 1) * SEG
        /\ q < 32794
    BY <1>2, SMT DEF SEG, MAX_UDP, READ
  <2>3. n = q * SEG + (n % SEG) /\ n % SEG \in Nat
    BY DEF SEG, MAX_UDP
  <2>2. NoOfSegments(n) = IF n % MAX_UDP # 0 THEN q + 1 ELSE q
    <3>1. NoOfSegments(n) = q + (IF n % MAX_UDP # 0 THEN 1 ELSE 0)
      BY <1>2 DEF NoOfSegments, SEG, MAX_UDP
    <3> QED BY <3>1, <2>1
  <2> HIDE DEF q
  <2>4. n % MAX_UDP = 0 => n - (NoOfSegments(n) - 1) * SEG = SEG + (n % SEG)
    <3> SUFFICES ASSUME n % MAX_UDP = 0
                 PROVE  n - (NoOfSegments(n) - 1) * SEG = SEG + (n % SEG)
      OBVIOUS
    <3>1. NoOfSegments(n) = q
      BY <2>2
    <3> DEFINE r == n % SEG
    <3>2. n = q * SEG + r /\ r \in Nat
      BY <2>3
    <3> HIDE DEF r
    <3>3. n - (q - 1) * SEG = SEG + r
      BY <2>1, <3>2 DEF SEG, MAX_UDP
    <3> QED
      BY <3>1, <3>3 DEF r
  <2>5. /\ NoOfSegments(n) \in Nat /\ NoOfSegments(n) >= 1 /\ NoOfSegments(n) < LAST
        /\ (NoOfSegments(n) - 1) * SEG <= n
        /\ n % MAX_UDP # 0 => n - (NoOfSegments(n) - 1) * SEG <= SEG
    BY <2>1, <2>2, <1>2 DEF SEG, MAX_UDP, LAST
  <2>6. ~(n <= SEG)
    BY <1>2 DEF SEG, MAX_UDP
  <2> QED BY <2>4, <2>5, <2>6, Zenon
<1> QED BY <1>1, <1>2 DEF SEG, MAX_UDP

(* What is left for segment k, whether k is the last or not. *)
LEMMA TempLenIs ==
  ASSUME NEW n \in Nat, n <= READ,
         NEW k \in Nat, k < NoOfSegments(n)
  PROVE  /\ TempLen(n, k) \in Nat
         /\ k + 1 = NoOfSegments(n) => k * SEG + TempLen(n, k) = n
         /\ k + 1 < NoOfSegments(n) => TempLen(n, k) = SEG /\ n > SEG
         /\ HDR + TempLen(n, k) > PAYLOAD =>
               n > SEG /\ n % MAX_UDP = 0 /\ n % SEG > 5 /\ k + 1 = NoOfSegments(n)
         /\ HDR + TempLen(n, k) <= PAYLOAD => TempLen(n, k) % 65536 = TempLen(n, k)
         /\ HDR + TempLen(n, k) <= PAYLOAD /\ TempLen(n, k) > SEG =>
               /\ LongLast(n) /\ k + 1 = NoOfSegments(n)
               /\ TempLen(n, k) = SEG + (n % SEG)
<1> DEFINE N == NoOfSegments(n)
           t == TempLen(n, k)
<1>1. /\ N \in Nat /\ N >= 1 /\ (N - 1) * SEG <= n
      /\ n <= SEG \/ n % MAX_UDP # 0 => n - (N - 1) * SEG <= SEG
      /\ n > SEG /\ n % MAX_UDP = 0 => n - (N - 1) * SEG = SEG + (n % SEG)
      /\ n % SEG \in Nat
  BY Segments DEF SEG, MAX_UDP
<1>2. n <= SEG => N = 1
  BY DEF NoOfSegments
<1>3. /\ n <= SEG => t = n
      /\ n > SEG /\ k + 1 = N => t = n - k * SEG
      /\ n > SEG /\ k + 1 < N => t = SEG
  BY <1>1 DEF TempLen, SEG, MAX_UDP
<1>4. k < N
  OBVIOUS
<1> HIDE DEF N, t
<1>5. t \in Nat
  BY <1>1, <1>2, <1>3, <1>4 DEF SEG, MAX_UDP
<1>6. k + 1 = N => k * SEG + t = n
  BY <1>1, <1>2, <1>3, <1>4 DEF SEG, MAX_UDP
<1>7. k + 1 < N => t = SEG /\ n > SEG
  BY <1>1, <1>2, <1>3, <1>4 DEF SEG, MAX_UDP
<1>10. k + 1 = N => k = N - 1
  BY <1>1
<1>11. t > SEG => n > SEG /\ n % MAX_UDP = 0 /\ k + 1 = N /\ t = SEG + (n % SEG)
  BY <1>1, <1>2, <1>3, <1>4, <1>10 DEF SEG, MAX_UDP
<1>8. HDR + t > PAYLOAD => n > SEG /\ n % MAX_UDP = 0 /\ n % SEG > 5 /\ k + 1 = N
  BY <1>11, <1>1, <1>2, <1>3, <1>4, <1>5 DEF SEG, MAX_UDP, HDR, PAYLOAD
<1>9. HDR + t <= PAYLOAD => t % 65536 = t
  BY <1>5 DEF HDR, PAYLOAD
<1>12. HDR + t <= PAYLOAD /\ t > SEG => LongLast(n) /\ k + 1 = N /\ t = SEG + (n % SEG)
  <2> SUFFICES ASSUME HDR + t <= PAYLOAD, t > SEG
               PROVE  LongLast(n) /\ k + 1 = N /\ t = SEG + (n % SEG)
    OBVIOUS
  <2>1. n % SEG \in 1 .. 5
    BY <1>1, <1>5, <1>11 DEF HDR, PAYLOAD, SEG, MAX_UDP
  <2> QED
    BY <1>11, <2>1 DEF LongLast
<1> QED
  BY <1>5, <1>6, <1>7, <1>8, <1>9, <1>12 DEF N, t

(* strncpy() fills the segment, unless the file is LongLast and this its   *)
(* last one.                                                               *)
LEMMA CopiedIs ==
  ASSUME NEW n \in Nat, n <= READ,
         NEW k \in Nat, k < NoOfSegments(n), HDR + TempLen(n, k) <= PAYLOAD
  PROVE  /\ Copied(n, k) \in Nat
         /\ \/ Copied(n, k) = TempLen(n, k)
            \/ /\ LongLast(n) /\ k + 1 = NoOfSegments(n)
               /\ k * SEG + Copied(n, k) = n - (n % SEG)
         /\ Smaller(Copied(n, k), TempLen(n, k)) = Copied(n, k)
<1> DEFINE t == TempLen(n, k)
<1>1. /\ t \in Nat
      /\ t > SEG => LongLast(n) /\ k + 1 = NoOfSegments(n) /\ t = SEG + (n % SEG)
      /\ k + 1 = NoOfSegments(n) => k * SEG + t = n
  BY TempLenIs
<1>2. Copied(n, k) = IF t < SEG THEN t ELSE SEG
  BY DEF Copied, Smaller
<1>3. SEG \in Nat /\ k * SEG \in Nat /\ n % SEG \in Nat
  BY DEF SEG, MAX_UDP
<1> HIDE DEF t
<1>4. Smaller(Copied(n, k), t) = Copied(n, k)
  BY <1>1, <1>2, <1>3 DEF Smaller
<1>5. CASE t > SEG
  BY <1>1, <1>2, <1>3, <1>4, <1>5 DEF t
<1>6. CASE ~(t > SEG)
  BY <1>1, <1>2, <1>3, <1>4, <1>6 DEF t
<1> QED
  BY <1>5, <1>6

(* A file that Transfer may be told about: the number of its segments is   *)
(* one that TransferAssumption allows, so the 16-bit seq never wraps and   *)
(* never reaches 65534 before the last segment.                            *)
THEOREM CountFits ==
  \A n \in Nat : n <= READ =>
    NoOfSegments(n) \in Nat /\ 1 <= NoOfSegments(n) /\ NoOfSegments(n) <= LAST - 1
BY Segments DEF LAST

-----------------------------------------------------------------------------
(* The inductive invariant: i full segments are put together while the     *)
(* source runs, and dg is the datagram of this i or of the one before.     *)
IInv ==
  /\ TypeOK
  /\ pc \in {"send", "wait"} => count = i * SEG /\ sound = count
  /\ pc = "wait" => dg = Datagram(len, i) /\ HDR + TempLen(len, i) <= PAYLOAD
  /\ \/ dg = None
     \/ dg = Datagram(len, i)
     \/ i > 0 /\ dg = Datagram(len, i - 1)
  /\ Truthful
  /\ Filled
  /\ WholeFile
  /\ FailsOnlyAt

(* A length is an int. *)
LEMMA LenType ==
  ASSUME len \in Lengths
  PROVE  len \in Nat /\ len <= READ
BY SegmentationAssumption DEF READ

(* The sink of project2 always holds the full segments that were           *)
(* acknowledged to the source.                                             *)
THEOREM Invariance == Spec => []IInv
<1>1. Init => IInv
  <2> SUFFICES ASSUME Init PROVE IInv
    OBVIOUS
  <2>1. len \in Nat /\ len <= READ
    BY LenType DEF Init
  <2>2. NoOfSegments(len) \in Nat /\ NoOfSegments(len) >= 1
    BY <2>1, Segments
  <2> QED
    BY <2>1, <2>2 DEF Init, IInv, TypeOK, None, Truthful, Filled, WholeFile, FailsOnlyAt, SEG, MAX_UDP
<1>2. IInv /\ [Next]_vars => IInv'
  <2> SUFFICES ASSUME IInv, [Next]_vars PROVE IInv'
    OBVIOUS
  <2>1. len \in Nat /\ len <= READ
    BY LenType DEF IInv, TypeOK
  <2>2. NoOfSegments(len) \in Nat /\ NoOfSegments(len) >= 1 /\ NoOfSegments(len) < LAST
    BY <2>1, Segments
  <2>3. CASE SendSegment
    <3>1. /\ i \in Nat /\ i < NoOfSegments(len)
          /\ len' = len /\ i' = i /\ count' = count /\ sound' = sound /\ pc' = "wait"
          /\ dg' = Datagram(len, i) /\ HDR + TempLen(len, i) <= PAYLOAD
      BY <2>3 DEF SendSegment, IInv, TypeOK
    <3>2. TempLen(len, i) \in Nat /\ TempLen(len, i) % 65536 = TempLen(len, i)
      BY <2>1, <3>1, TempLenIs
    <3>3. SeqNo(len, i) \in Nat /\ SeqNo(len, i) < 65536
      BY <2>2, <3>1 DEF SeqNo, LAST
    <3>4. /\ dg'.seq = SeqNo(len, i)
          /\ dg'.data_length = TempLen(len, i)
          /\ dg'.off = i * SEG
          /\ dg'.carried = TempLen(len, i) /\ dg'.copied = Copied(len, i)
          /\ Copied(len, i) \in Nat
      BY <2>1, <3>1, <3>2, CopiedIs DEF Datagram
    <3>5. i * SEG \in Nat /\ TempLen(len, i) < 65536
      BY <3>1, <3>2 DEF SEG, MAX_UDP, HDR, PAYLOAD
    <3>6. TypeOK'
      BY <3>1, <3>2, <3>3, <3>4, <3>5 DEF IInv, TypeOK
    <3>7. dg' = Datagram(len', i') /\ count' = i' * SEG /\ sound' = count'
      BY <2>3, <3>1 DEF IInv, SendSegment
    <3>8. dg'.copied # dg'.carried => dg'.seq = LAST /\ LongLast(len)
      <4>1. Copied(len, i) # TempLen(len, i) => LongLast(len) /\ i + 1 = NoOfSegments(len)
        BY <2>1, <3>1, CopiedIs
      <4>2. i + 1 = NoOfSegments(len) => SeqNo(len, i) = LAST
        BY <2>2, <3>1 DEF SeqNo
      <4> QED
        BY <3>4, <4>1, <4>2
    <3>9. Filled'
      BY <3>1, <3>8 DEF Filled, LongLast
    <3>10. Truthful' /\ WholeFile' /\ FailsOnlyAt'
      BY <3>1, <3>4 DEF Truthful, WholeFile, FailsOnlyAt
    <3> QED
      BY <3>1, <3>6, <3>7, <3>9, <3>10 DEF IInv
  <2>4. CASE Refused
    <3>1. /\ i \in Nat /\ i < NoOfSegments(len)
          /\ len' = len /\ i' = i /\ count' = count /\ dg' = dg /\ pc' = "failed"
          /\ HDR + TempLen(len, i) > PAYLOAD
          /\ count = i * SEG /\ sound = count /\ sound' = sound
      BY <2>4 DEF Refused, IInv, TypeOK
    <3>2. len > SEG /\ len % MAX_UDP = 0 /\ len % SEG > 5 /\ i + 1 = NoOfSegments(len)
      BY <2>1, <3>1, TempLenIs
    <3>3. TypeOK'
      BY <3>1 DEF IInv, TypeOK
    <3>4. FailsOnlyAt'
      BY <3>1, <3>2 DEF FailsOnlyAt
    <3> QED
      BY <3>1, <3>3, <3>4 DEF IInv, Truthful, Filled, LongLast, WholeFile
  <2>5. CASE Acked
    <3>1. /\ i \in Nat /\ i < NoOfSegments(len)
          /\ len' = len /\ i' = i + 1 /\ dg' = dg /\ count' = count + dg.data_length
          /\ pc' = IF i + 1 = NoOfSegments(len) THEN "done" ELSE "send"
          /\ count = i * SEG /\ dg = Datagram(len, i)
          /\ dg.data_length \in Nat /\ dg.data_length = dg.carried
          /\ sound = count /\ HDR + TempLen(len, i) <= PAYLOAD
          /\ sound' = IF sound = count /\ dg.off = count
                      THEN count + Smaller(dg.copied, dg.data_length) ELSE sound
      BY <2>5 DEF Acked, IInv, TypeOK, Truthful
    <3>2. /\ i + 1 = NoOfSegments(len) => i * SEG + TempLen(len, i) = len
          /\ i + 1 < NoOfSegments(len) => TempLen(len, i) = SEG
      BY <2>1, <3>1, TempLenIs
    <3>3. dg.data_length = TempLen(len, i) /\ dg.off = count /\ dg.copied = Copied(len, i)
      BY <3>1 DEF Datagram
    <3>7. sound' = i * SEG + Copied(len, i) /\ Copied(len, i) \in Nat
      BY <2>1, <3>1, <3>3, CopiedIs
    <3>8. \/ Copied(len, i) = TempLen(len, i)
          \/ /\ LongLast(len) /\ i + 1 = NoOfSegments(len)
             /\ i * SEG + Copied(len, i) = len - (len % SEG)
      BY <2>1, <3>1, CopiedIs
    <3>4. /\ i' \in Nat /\ i' > 0 /\ i' - 1 = i /\ i' <= NoOfSegments(len)
          /\ count' \in Nat
          /\ pc' = "done" => count' = len
          /\ pc' = "send" => count' = i' * SEG /\ i' < NoOfSegments(len)
          /\ pc' = "done" \/ pc' = "send"
      BY <2>2, <3>1, <3>2, <3>3 DEF SEG, MAX_UDP
    <3>9. /\ sound' \in Nat
          /\ pc' = "send" => sound' = count'
          /\ pc' = "done" => sound' = len \/ (LongLast(len) /\ sound' = len - (len % SEG))
      BY <2>2, <3>1, <3>2, <3>3, <3>7, <3>8 DEF SEG, MAX_UDP
    <3>5. TypeOK'
      BY <3>1, <3>4, <3>9 DEF IInv, TypeOK
    <3>10. LongLast(len)' <=> LongLast(len)
      BY <3>1 DEF LongLast
    <3>11. WholeFile'
      BY <3>1, <3>4, <3>9, <3>10 DEF WholeFile
    <3>6. dg' = Datagram(len', i' - 1)
      BY <3>1, <3>4
    <3> QED
      BY <3>1, <3>4, <3>5, <3>6, <3>9, <3>11 DEF IInv, Truthful, Filled, FailsOnlyAt
  <2>6. CASE Nacked
    BY <2>6 DEF LongLast, Nacked, IInv, TypeOK, Truthful, Filled, WholeFile, FailsOnlyAt
  <2>7. CASE UNCHANGED vars
    BY <2>7 DEF LongLast, vars, IInv, TypeOK, Truthful, Filled, WholeFile, FailsOnlyAt
  <2> QED
    BY <2>3, <2>4, <2>5, <2>6, <2>7 DEF Next
<1> QED
  BY <1>1, <1>2, PTL DEF Spec

(* For every file length that one read() can take: a source that finishes  *)
(* has had exactly the bytes of the file put together, but for up to 5 at  *)
(* the end if the length is one of LongLast.                               *)
THEOREM WholeFileArrives == Spec => []WholeFile
<1>1. IInv => WholeFile
  BY DEF IInv
<1> QED
  BY <1>1, Invariance, PTL

(* ... data_length never loses a bit of a length. *)
THEOREM NeverTruncated == Spec => []Truthful
<1>1. IInv => Truthful
  BY DEF IInv
<1> QED
  BY <1>1, Invariance, PTL

(* ... and only a multiple of 65536 makes sendto() refuse a datagram. *)
THEOREM FailureExplained == Spec => []FailsOnlyAt
<1>1. IInv => FailsOnlyAt
  BY DEF IInv
<1> QED
  BY <1>1, Invariance, PTL

(* ... a segment is read from the file where the sink will put it. *)
THEOREM PlacedRight == Spec => []Placed
<1>1. IInv => Placed
  BY DEF IInv, Placed, Datagram
<1> QED
  BY <1>1, Invariance, PTL

(* ... and the number 65534 is that of the last segment and of no other. *)
THEOREM FinalMarked == Spec => []FinalIsLast
<1>1. IInv => FinalIsLast
  <2> SUFFICES ASSUME IInv, pc = "wait"
               PROVE  /\ dg.seq = LAST <=> i + 1 = NoOfSegments(len)
                      /\ dg.seq # LAST => dg.carried = SEG
                      /\ dg.carried = 0 => len % SEG = 0
    BY DEF FinalIsLast
  <2>1. /\ len \in Nat /\ len <= READ /\ i \in Nat /\ i < NoOfSegments(len)
    BY LenType DEF IInv, TypeOK
  <2>2. NoOfSegments(len) \in Nat /\ NoOfSegments(len) < LAST
    BY <2>1, Segments
  <2>3. dg.seq = SeqNo(len, i) /\ dg.carried = TempLen(len, i)
    BY DEF IInv, Datagram
  <2>4. dg.seq = LAST <=> i + 1 = NoOfSegments(len)
    BY <2>1, <2>2, <2>3 DEF SeqNo, LAST
  <2>5. /\ i + 1 < NoOfSegments(len) => TempLen(len, i) = SEG
        /\ i + 1 = NoOfSegments(len) => i * SEG + TempLen(len, i) = len
    BY <2>1, TempLenIs
  <2>6. dg.carried = 0 => len = i * SEG
    BY <2>1, <2>2, <2>3, <2>5 DEF SEG, MAX_UDP
  <2>7. len = i * SEG => len % SEG = 0
    BY <2>1 DEF SEG, MAX_UDP
  <2> QED
    BY <2>1, <2>2, <2>3, <2>4, <2>5, <2>6, <2>7
<1> QED
  BY <1>1, Invariance, PTL

(* ... and the bytes it carries are the file's, but for the last segment   *)
(* of a file that is LongLast.                                             *)
THEOREM FilledRight == Spec => []Filled
<1>1. IInv => Filled
  BY DEF IInv
<1> QED
  BY <1>1, Invariance, PTL

(* Everything about the segment under way together.                        *)
THEOREM CarriedRight == Spec => []Carried
BY NeverTruncated, PlacedRight, FilledRight, FinalMarked, PTL DEF Carried

(* Every variable keeps its type; above all the header fields fit 16 bits. *)
THEOREM TypeCorrect == Spec => []TypeOK
<1>1. IInv => TypeOK
  BY DEF IInv
<1> QED
  BY <1>1, Invariance, PTL

(* A datagram that differs from the one before starts where that ended and *)
(* has a higher number: none is left out and none is sent out of order,    *)
(* however often the sink refuses one.                                     *)
THEOREM InSequence == Spec => Consecutive
<1>1. IInv /\ [Next]_vars =>
        [dg # None /\ dg' # dg => dg'.off = dg.off + dg.carried /\ dg'.seq > dg.seq]_vars
  <2> SUFFICES ASSUME IInv, [Next]_vars, dg # None, dg' # dg
               PROVE  dg'.off = dg.off + dg.carried /\ dg'.seq > dg.seq
    OBVIOUS
  <2>1. /\ len \in Nat /\ len <= READ /\ i \in Nat
        /\ NoOfSegments(len) \in Nat /\ NoOfSegments(len) < LAST
    BY LenType, Segments DEF IInv, TypeOK
  <2>2. SendSegment
    BY DEF Next, Refused, Acked, Nacked, vars
  <2>3. dg' = Datagram(len, i) /\ i < NoOfSegments(len)
    BY <2>2 DEF SendSegment, IInv, TypeOK
  <2>4. i > 0 /\ dg = Datagram(len, i - 1)
    BY <2>3 DEF IInv
  <2>5. i - 1 \in Nat /\ (i - 1) + 1 < NoOfSegments(len)
    BY <2>1, <2>3, <2>4
  <2>6. TempLen(len, i - 1) = SEG
    BY <2>1, <2>5, TempLenIs
  <2>7. /\ dg'.off = i * SEG /\ dg.off = (i - 1) * SEG
        /\ dg.carried = SEG
        /\ dg'.seq = SeqNo(len, i) /\ dg.seq = SeqNo(len, i - 1)
    BY <2>3, <2>4, <2>6 DEF Datagram
  <2>8. dg'.off = dg.off + dg.carried
    BY <2>1, <2>7 DEF SEG, MAX_UDP
  <2>9. SeqNo(len, i - 1) = i
    BY <2>1, <2>3, <2>5 DEF SeqNo
  <2>10. SeqNo(len, i) > i
    BY <2>1, <2>3 DEF SeqNo, LAST
  <2> QED
    BY <2>7, <2>8, <2>9, <2>10
<1> QED
  BY <1>1, Invariance, PTL DEF Spec, Consecutive
=============================================================================
