--------------------------------- MODULE Crc --------------------------------
(***************************************************************************)
(* labs/lab08/crcmodel.c (the same file is in projects/project2) and the   *)
(* generate_crc() of lab08: a CRC of 16 bits computed bit by bit.  A C     *)
(* word is the set of the numbers of its bits that are set, 0 the lowest.  *)
(***************************************************************************)
EXTENDS Integers, Sequences

CONSTANTS
  Ulong,       \* bits of an unsigned long
  cm_width,    \* bits of the register: 16
  cm_poly      \* the polynomial

CrcConstantsOK ==
  /\ cm_width \in Nat /\ cm_width >= 8 /\ cm_width % 8 = 0
  /\ Ulong \in Nat /\ Ulong >= cm_width
  /\ cm_poly \subseteq 0 .. cm_width - 1

Bit  == 0 .. Ulong - 1
Word == SUBSET Bit
Byte == 0 .. 255

Xor(v, w)       == (v \ w) \cup (w \ v)
ShiftLeft(v, n) == {k + n : k \in v} \cap Bit
widmask(v)      == v \cap 0 .. cm_width - 1
reflect(v, n)   == {IF k < n THEN n - 1 - k ELSE k : k \in v}

(* A byte as an unsigned long, and as the signed char it passes through:   *)
(* the conversion fills all higher bits with the byte's highest one.       *)
Unsigned(c) == {k \in 0 .. 7 : (c \div 2^k) % 2 = 1}
Char(c)     == Unsigned(c) \cup {k \in Bit : k >= 8 /\ 7 \in Unsigned(c)}

Divide(r) ==
  IF cm_width - 1 \in r THEN Xor(ShiftLeft(r, 1), cm_poly) ELSE ShiftLeft(r, 1)

(* Slip: the register is not cut to its width. *)
NextBitUnmasked == [r \in Word |-> Divide(r)]
NextBit == [r \in Word |-> widmask(Divide(r))]

cm_nxt(reg, word) ==
  LET after[bit \in 0 .. 8] ==
        IF bit = 0 THEN Xor(reg, ShiftLeft(reflect(word, 8), cm_width - 8))
        ELSE NextBit[after[bit - 1]]
  IN  after[8]

cm_crc(reg) == reflect(reg, cm_width)

CrcOf(words) ==
  LET reg[i \in 0 .. Len(words)] == IF i = 0 THEN {} ELSE cm_nxt(reg[i - 1], words[i])
  IN  cm_crc(reg[Len(words)])

generate_crc(msg) == CrcOf([k \in DOMAIN msg |-> Char(msg[k])])

(* The first n bytes of a word in memory, lowest first. *)
BytesOf(w, n) ==
  [j \in 1 .. n |->
     LET sum[k \in 0 .. 8] ==
           IF k = 0 THEN 0
           ELSE sum[k - 1] + (IF 8 * (j - 1) + k - 1 \in w THEN 2^(k - 1) ELSE 0)
     IN  sum[8]]
=============================================================================
