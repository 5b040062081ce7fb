--------------------------- MODULE MCSegmentation ---------------------------
(* File lengths around every boundary of source.c, those of the files kept *)
(* beside it, two long multiples of 65536, and one whose last segment is   *)
(* longer than strncpy() copies: 14407 * 65536 = 14417 * 65486 + 4.        *)
EXTENDS Segmentation, FiniteSets

Near(n) == {m \in n - 6 .. n + 6 : m >= 0}

BoundaryLengths ==
  UNION {Near(k * 65486) : k \in 0 .. 16}
    \cup UNION {Near(k * 65536) : k \in 1 .. 16}
    \cup {1477, 8282, 571498, 999999, 1000000}
    \cup {1310 * 65536, 2619 * 65536, 14407 * 65536}
=============================================================================
