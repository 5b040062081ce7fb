---------------------------- MODULE Segmentation ----------------------------
(***************************************************************************)
(* projects/project2: how source.c cuts a file of len bytes into datagrams *)
(* and how sink.c puts their bytes together again.  Here the numbers are   *)
(* real: the sizes of the code, the 16-bit fields of the header, the       *)
(* longest datagram UDP carries.  The protocol is reduced to the answer a  *)
(* segment gets; module Transfer is about the protocol, about segments     *)
(* with a NUL inside and about the sink's buffer, which a file of more     *)
(* than BUFSIZE bytes overruns: here it is as large as it has to be.       *)
(***************************************************************************)
EXTENDS Integers

CONSTANT Lengths               \* lengths of the files a run looks at

MAX_UDP == 65536
SEG     == MAX_UDP - 50        \* bytes of a file in a full segment
HDR     == 16                  \* sizeof(struct pkthdr) with its pointer
LAST    == 65534
READ    == 2147479552          \* the most that one read() takes
PAYLOAD == 65507               \* the most that sendto() takes over IPv4

(* len is an int, and main() calls read() once. *)
ASSUME SegmentationAssumption == \A n \in Lengths : n \in Nat /\ n <= READ

VARIABLES
  len,      \* the length of the file
  pc,       \* "send", "wait", "done" or "failed"
  i,        \* segments acknowledged
  dg,       \* the datagram sent last: header, and which bytes it carries
  count,    \* how many bytes the sink has put together
  sound     \* so many of them, from the first on, are the file's

vars == <<len, pc, i, dg, count, sound>>

Smaller(m, n) == IF m < n THEN m ELSE n

(* Slips: a file that ends in a part of a segment is forgotten; the last   *)
(* segment is as long as the others.                                       *)
NoOfSegmentsFloor(n) == IF n <= SEG THEN 1 ELSE n \div SEG

NoOfSegments(n) ==
  IF n <= SEG THEN 1
  ELSE n \div SEG + (IF n % MAX_UDP # 0 THEN 1 ELSE 0)

TempLenFull(n, k) == IF n <= SEG THEN n ELSE SEG

TempLen(n, k) ==
  IF n <= SEG THEN n
  ELSE IF k = NoOfSegments(n) - 1 THEN n - k * SEG ELSE SEG

SeqNo(n, k) == IF k = NoOfSegments(n) - 1 THEN LAST ELSE k + 1

(* strncpy() brings SEG bytes into tempBuffer, however long the segment:   *)
(* what is carried beyond them is whatever malloc() had there.             *)
Copied(n, k) == Smaller(TempLen(n, k), SEG)

Datagram(n, k) ==
  [seq |-> SeqNo(n, k), data_length |-> TempLen(n, k) % 65536,
   off |-> k * SEG, carried |-> TempLen(n, k), copied |-> Copied(n, k)]

None == [seq |-> 0, data_length |-> 0, off |-> 0, carried |-> 0, copied |-> 0]

Init == /\ len \in Lengths /\ pc = "send" /\ i = 0 /\ dg = None
        /\ count = 0 /\ sound = 0

-----------------------------------------------------------------------------
SendSegment ==
  /\ pc = "send" /\ HDR + TempLen(len, i) <= PAYLOAD
  /\ dg' = Datagram(len, i)
  /\ pc' = "wait"
  /\ UNCHANGED <<len, i, count, sound>>

(* Sendto() exits when sendto() refuses the datagram. *)
Refused ==
  /\ pc = "send" /\ HDR + TempLen(len, i) > PAYLOAD
  /\ pc' = "failed"
  /\ UNCHANGED <<len, i, dg, count, sound>>

(* The sink appends data_length bytes and the source goes on. *)
Acked ==
  /\ pc = "wait"
  /\ count' = count + dg.data_length
  /\ sound' = IF sound = count /\ dg.off = count
              THEN count + Smaller(dg.copied, dg.data_length) ELSE sound
  /\ i' = i + 1
  /\ pc' = IF i + 1 = NoOfSegments(len) THEN "done" ELSE "send"
  /\ UNCHANGED <<len, dg>>

(* A slip: the loop goes on after a nack. *)
NackedSkips ==
  /\ pc = "wait" /\ i + 1 < NoOfSegments(len)
  /\ i' = i + 1
  /\ pc' = "send"
  /\ UNCHANGED <<len, dg, count, sound>>

(* The sink keeps nothing and the source sends the segment again.  (That   *)
(* the sink may then not answer at all is Transfer's subject.)             *)
Nacked ==
  /\ pc = "wait"
  /\ pc' = "send"
  /\ UNCHANGED <<len, i, dg, count, sound>>

Next == SendSegment \/ Refused \/ Acked \/ Nacked

Spec == Init /\ [][Next]_vars

-----------------------------------------------------------------------------
(* Every header field fits its 16 bits, and the loop's i the segments.     *)
TypeOK ==
  /\ len \in Lengths
  /\ pc \in {"send", "wait", "done", "failed"}
  /\ i \in Nat /\ i <= NoOfSegments(len)
  /\ pc # "done" => i < NoOfSegments(len)
  /\ dg.seq \in Nat /\ dg.seq < 65536
  /\ dg.data_length \in Nat /\ dg.data_length < 65536
  /\ dg.off \in Nat /\ dg.carried \in Nat /\ dg.copied \in Nat
  /\ count \in Nat /\ sound \in Nat

(* The lengths at which the last segment has 1 to 5 bytes more than        *)
(* strncpy() copies and still fits a datagram: 944177152 and 1545011200.   *)
LongLast(n) == n > SEG /\ n % MAX_UDP = 0 /\ n % SEG \in 1 .. 5

(* A source that finishes has had exactly the bytes of its file put        *)
(* together at the sink, in their order; only a file of a length that is   *)
(* LongLast ends in 1 to 5 bytes that are not its own.  (What strncpy()    *)
(* makes of a NUL in the file is the subject of Transfer's FileIntegrity.) *)
WholeFile ==
  pc = "done" =>
    /\ count = len
    /\ sound = len \/ (LongLast(len) /\ sound = len - (len % SEG))

(* A segment under way is read from the file where the sink will put it,   *)
(* and announces as many bytes as it carries: the 16-bit data_length does  *)
(* not lose anything.  All of them are the file's, but for the last        *)
(* segment of a file that is LongLast.                                     *)
Placed == pc = "wait" => dg.off = count /\ sound = count
Truthful == dg.data_length = dg.carried
Filled == dg.copied # dg.carried => dg.seq = LAST /\ LongLast(len)

(* The number 65534 tells the last segment from the others, and only that  *)
(* segment may be short; it is empty only if full segments make up the     *)
(* file.                                                                   *)
FinalIsLast ==
  pc = "wait" =>
    /\ dg.seq = LAST <=> i + 1 = NoOfSegments(len)
    /\ dg.seq # LAST => dg.carried = SEG
    /\ dg.carried = 0 => len % SEG = 0

(* What is on the way is right in all of these.                            *)
Carried == Placed /\ Truthful /\ Filled /\ FinalIsLast

(* The source gives up only on a file whose length is a multiple of 65536, *)
(* the number that noOfSegments is tested with instead of the segment's    *)
(* size, and 6 bytes or more over full segments; and only at its last      *)
(* segment, when the sink holds all the others.                            *)
FailsOnlyAt ==
  pc = "failed" =>
    /\ len > SEG /\ len % MAX_UDP = 0 /\ len % SEG > 5
    /\ i + 1 = NoOfSegments(len) /\ count = i * SEG /\ sound = count

(* A new datagram is the last one again, or starts where that one ended    *)
(* and has a higher number.                                                *)
Consecutive ==
  [][dg # None /\ dg' # dg =>
       dg'.off = dg.off + dg.carried /\ dg'.seq > dg.seq]_vars
=============================================================================
