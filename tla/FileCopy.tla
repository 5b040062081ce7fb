------------------------------ MODULE FileCopy ------------------------------
(***************************************************************************)
(* What the pair source and sink of projects/project2 is for, without      *)
(* messages: got grows by the next piece of one source's file, and a       *)
(* complete file is stored, unless one is stored already, and forgotten.   *)
(***************************************************************************)
EXTENDS Integers, Sequences

CONSTANTS Source, Count, Prefix(_, _)
VARIABLES got, store

Init == got = <<>> /\ store = <<>>

Take == \E p \in Source : \E n \in 0 .. Count[p] - 1 :
          /\ got = Prefix(p, n)
          /\ got' = Prefix(p, n + 1)
          /\ UNCHANGED store

Keep == \E p \in Source :
          /\ got = Prefix(p, Count[p])
          /\ got' = <<>>
          /\ store' = IF store # <<>> THEN store ELSE got

Remove == store' = <<>> /\ UNCHANGED got

Next == Take \/ Keep \/ Remove

Spec == Init /\ [][Next]_<<got, store>>
=============================================================================
