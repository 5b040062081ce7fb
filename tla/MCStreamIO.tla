----------------------------- MODULE MCStreamIO -----------------------------
(* A request and an answer as in lab02: a length of 4 bytes, then a text.  *)
(* One of the texts is empty.                                              *)
EXTENDS StreamIO, Sequences

Texts  == <<4, 3, 4, 0, 4, 2>>
TextStart == [j \in 1 .. 7 |-> <<0, 4, 7, 11, 11, 15, 17>>[j]]
=============================================================================
