------------------------------ MODULE Reflector ------------------------------
(***************************************************************************)
(* labs/lab04: udp-sender.c sends a packet with its checksum to            *)
(* reflectord.c, which appends "." to the text and sends it back; the      *)
(* sender says whether it was changed.  Both read with one bare read(): of *)
(* 65536 bytes the first k may come, and the rest of the variable is what  *)
(* it was, in the reflector the packet of the connection before.  Here a   *)
(* packet is its checksum and the first Size bytes of its data; the words  *)
(* of the header add a constant to the sum.                                *)
(***************************************************************************)
EXTENDS Integers, Sequences, FiniteSetsExt

CONSTANTS
  Texts,       \* what create_UDP_pkt() may be given (main() has one text)
  Size,        \* bytes of data looked at
  Garbage,     \* bytes that may be in a variable that is not set
  HeaderSum,   \* source, destination and length together
  MaxSends     \* (bound) runs of the sender

ConstantsOK ==
  /\ Size \in Nat /\ HeaderSum \in Nat /\ Garbage \subseteq 0 .. 255
  /\ \A t \in Texts : t \in Seq(1 .. 255) /\ Len(t) + 3 <= Size

VARIABLES
  sends,     \* runs of the sender
  text,      \* the text of this run
  packet,    \* the packet of the sender, as it was sent
  stack,     \* the variable pack of the reflector
  whole,     \* (history) did both read() take the whole packet?
  judged     \* "none", "sent", "returned", "intact" or "corrupted"

vars == <<sends, text, packet, stack, whole, judged>>

Zeros == [k \in 1 .. Size |-> 0]
Dot   == 46
Blank == [check |-> 0, data |-> Zeros]

Init ==
  /\ sends = 0 /\ text = <<>> /\ packet = Blank /\ stack = Blank
  /\ whole = TRUE /\ judged = "none"

-----------------------------------------------------------------------------
(* inet_checksum(): its loop adds the last word of an odd number of bytes  *)
(* with the byte behind, and then one word more is added.  Folding the     *)
(* carries in takes the rest by 65535, as 65535 if it is 0 and the sum is  *)
(* not.                                                                    *)

Word(b, k)  == b[2 * k - 1] + 256 * b[2 * k]
Folded(s)   == IF s = 0 THEN 0 ELSE ((s - 1) % 65535) + 1

SumOfWords(b, m) ==
  LET sum[k \in 0 .. m] == IF k = 0 THEN 0 ELSE sum[k - 1] + Word(b, k) IN sum[m]

(* Slip: an odd byte at the end is left out.                               *)
TotalShort(b, n) == SumOfWords(b, n \div 2)

Total(b, n) == SumOfWords(b, ((n + 1) \div 2) + (n % 2))

Checksum(b, n, more) == 65535 - Folded(more + Total(b, n))

(* test-checksum.c: its arrays as bytes, the low one first; behind the     *)
(* third there happens to be a word 0.                                     *)
TestVectors ==
  /\ Checksum(<<1, 0, 1, 0>>, 4, 0) = 65533
  /\ Checksum(<<96, 102, 85, 85, 12, 143>>, 6, 0) = 46397
  /\ Checksum(<<96, 102, 85, 85, 65, 0, 0, 0>>, 5, 0) = 17417

-----------------------------------------------------------------------------
(* create_UDP_pkt() and the checksum over what stands behind the text.     *)
Send ==
  /\ judged \notin {"sent", "returned"} /\ sends < MaxSends
  /\ sends' = sends + 1 /\ judged' = "sent" /\ whole' = TRUE
  /\ \E t \in Texts : \E junk \in [Len(t) + 2 .. Size -> Garbage] :
       LET d == [k \in 1 .. Size |-> IF k <= Len(t) THEN t[k]
                                     ELSE IF k = Len(t) + 1 THEN 0 ELSE junk[k]] IN
       text' = t /\ packet' = [check |-> Checksum(d, Len(t), HeaderSum), data |-> d]
  /\ UNCHANGED stack

(* strcat(): the first NUL becomes the dot, the byte behind it the NUL.    *)
AppendDot(d) ==
  LET ends == {k \in 1 .. Size : d[k] = 0} IN
  IF ends = {} THEN d
  ELSE [k \in 1 .. Size |-> IF k = Min(ends) THEN Dot ELSE IF k = Min(ends) + 1 THEN 0 ELSE d[k]]

Received(old, new, n) == [check |-> new.check,
                          data |-> [k \in 1 .. Size |-> IF k <= n THEN new.data[k] ELSE old[k]]]

Reflect ==
  /\ judged = "sent"
  /\ \E n \in 0 .. Size :
       LET got == Received(stack.data, packet, n) IN
       /\ stack' = [got EXCEPT !.data = AppendDot(@)]
       /\ whole' = (n = Size)
  /\ judged' = "returned"
  /\ UNCHANGED <<sends, text, packet>>

Judge ==
  /\ judged = "returned"
  /\ \E n \in 0 .. Size : \E g \in Garbage :
       LET back == Received([k \in 1 .. Size |-> g], stack, n) IN
       /\ whole' = (whole /\ n = Size)
       /\ judged' = IF Checksum(back.data, Len(text), HeaderSum) = back.check
                    THEN "intact" ELSE "corrupted"
  /\ UNCHANGED <<sends, text, packet, stack>>

Next == Send \/ Reflect \/ Judge

(* The checksum gives what test-checksum.c expects, and when both packets  *)
(* are read whole the sender sees that a dot was added if and only if the  *)
(* text has an odd number of bytes: the dot stands behind the bytes the    *)
(* checksum is about, and is seen because the last word is added whole.    *)
DotNoticed ==
  /\ TestVectors
  /\ whole /\ judged \in {"intact", "corrupted"} =>
       (judged = "corrupted" <=> (Len(text) % 2) = 1)
=============================================================================
