------------------------------- MODULE BareRead -------------------------------
(***************************************************************************)
(* What one read() may take of the bytes of a stream that have arrived:    *)
(* any of them from the front, at least one.  The programs that use it     *)
(* write parts one after the other, so a stream is a sequence of halves    *)
(* <<part, 1>>, <<part, 2>>: a part comes whole or is cut once, wherever.  *)
(***************************************************************************)
EXTENDS Integers, Sequences

Takes(s)      == {SubSeq(s, 1, n) : n \in 1 .. Len(s)}
After(s, got) == SubSeq(s, Len(got) + 1, Len(s))
Part(i)       == <<<<i, 1>>, <<i, 2>>>>
=============================================================================
