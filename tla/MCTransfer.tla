----------------------------- MODULE MCTransfer -----------------------------
(* Instances of Transfer for TLC: a sends a file of several segments, b    *)
(* one that fits in a single datagram or in two.                           *)
EXTENDS Transfer, TLC

CONSTANTS a, b

CountLongShort == (a :> 3) @@ (b :> 1)
CountLongPair  == (a :> 3) @@ (b :> 2)
CountFourThree == (a :> 4) @@ (b :> 3)
AllClean   == [p \in Source |-> {}]
NulInFirst == [p \in Source |-> {1}]

Faults(corrupt, final, loss, dup, kill) ==
  ("corrupt" :> corrupt) @@ ("final" :> final) @@ ("loss" :> loss)
    @@ ("dup" :> dup) @@ ("kill" :> kill)
DamageAndLoss == Faults(2, 3, 1, 0, 0)
Everything    == Faults(1, 1, 1, 2, 1)
KillOnly      == Faults(0, 0, 0, 0, 1)
=============================================================================
