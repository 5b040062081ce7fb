----------------------------- MODULE ListTransfer -----------------------------
(***************************************************************************)
(* labs/lab04: list-sender.c makes a list of quotes and writes its length  *)
(* and its nodes; list-receiver.c makes one read() for the length and one  *)
(* for each node.  Part 0 of the stream is the length.                     *)
(***************************************************************************)
EXTENDS BareRead

CONSTANT Quotes      \* how many nodes are made

ConstantsOK == Quotes \in Nat

VARIABLES
  sender,    \* "make", "length", "nodes" or "closed"
  node,      \* nodes written
  count,     \* the field len of the list
  stream,    \* what has been written and not read
  expected,  \* the receiver: -1 before it has read the length
  printed,   \* what it has printed: the number of a node, or 0 for junk
  uneven     \* (history) has some read() not taken one part?

vars == <<sender, node, count, stream, expected, printed, uneven>>

Init ==
  /\ sender = "make" /\ node = 0 /\ count = 0 /\ stream = <<>>
  /\ expected = -1 /\ printed = <<>> /\ uneven = FALSE

(* The list_t of malloc() is not set: insert() starts with what is there.  *)
(* If that is not zero the first insert() follows a stray pointer, or the  *)
(* length counts from a wrong number.                                      *)
MakeList ==
  /\ sender = "make"
  /\ \/ \E stray \in {0, 1} : count' = Quotes + stray /\ sender' = "length"
     \/ sender' = "closed" /\ UNCHANGED count
  /\ UNCHANGED <<node, stream, expected, printed, uneven>>

SendLength ==
  /\ sender = "length"
  /\ stream' = stream \o Part(0)
  /\ sender' = "nodes"
  /\ UNCHANGED <<node, count, expected, printed, uneven>>

(* The last node's next is not set either: following it ends the sender as *)
(* close() does.                                                           *)
SendNode ==
  /\ sender = "nodes"
  /\ IF node < Quotes
     THEN stream' = stream \o Part(node + 1) /\ node' = node + 1 /\ UNCHANGED sender
     ELSE sender' = "closed" /\ UNCHANGED <<stream, node>>
  /\ UNCHANGED <<count, expected, printed, uneven>>

(* Four bytes at most; with less the length is wrong, with none it is what *)
(* was in the variable.                                                    *)
ReadLength ==
  /\ expected = -1
  /\ \/ \E got \in Takes(stream) :
          /\ Len(got) <= 2
          /\ stream' = After(stream, got)
          /\ uneven' = (Len(got) # 2)
          /\ expected' \in IF Len(got) = 2 THEN {count} ELSE {0, 1}
     \/ /\ stream = <<>> /\ sender = "closed"
        /\ expected' \in {0, 1} /\ uneven' = TRUE
        /\ UNCHANGED stream
  /\ UNCHANGED <<sender, node, count, printed>>

(* What is printed of the first node in what read() has given: with its    *)
(* front all that is printed may have come, as what follows the text, the  *)
(* links, is not.  What begins within a node, or ends within its text, is  *)
(* junk, as is the length.                                                 *)
Shown(got) == IF got[1][2] = 2 THEN {0} ELSE IF Len(got) >= 2 THEN {got[1][1]} ELSE {0, got[1][1]}

(* Slip: the buffer is kept, and what does not fit a node comes again.     *)
ReadNodeAgain ==
  /\ Len(printed) < expected
  /\ \E got \in Takes(stream) :
       /\ stream' = SubSeq(stream, Len(got), Len(stream))
       /\ printed' = Append(printed, got[1][1])
       /\ uneven' = (uneven \/ Len(got) # 2)
  /\ UNCHANGED <<sender, node, count, expected>>

(* The first node of what read() gives is printed and the rest dropped; if *)
(* that is less than a node, or nothing, what was in the buffer is.        *)
ReadNode ==
  /\ Len(printed) < expected
  /\ \/ \E got \in Takes(stream) :
          /\ stream' = After(stream, got)
          /\ \E x \in Shown(got) : printed' = Append(printed, x)
          /\ uneven' = (uneven \/ Len(got) # 2)
     \/ /\ stream = <<>> /\ sender = "closed"
        /\ printed' = Append(printed, 0)
        /\ UNCHANGED <<stream, uneven>>
  /\ UNCHANGED <<sender, node, count, expected>>

Next == MakeList \/ SendLength \/ SendNode \/ ReadLength \/ ReadNode

Spec == Init /\ [][Next]_vars

(* The receiver never prints a node twice or before an earlier one.  It    *)
(* prints the whole list and nothing else if the length counts the nodes   *)
(* and each read() happened to take one part, and only if: but for the end *)
(* of the last node, which may be left unread.                             *)
PrintedOnce ==
  /\ expected \in -1 .. Quotes + 1 /\ Len(printed) <= Quotes + 1
  /\ \A i, j \in DOMAIN printed : i < j /\ printed[j] # 0 => printed[i] < printed[j]
  /\ Len(printed) = expected /\ expected > 1 =>
       /\ count = Quotes /\ ~uneven => printed = [k \in 1 .. Quotes |-> k]
       /\ printed = [k \in 1 .. Quotes |-> k] =>
            count = Quotes /\ (~uneven \/ stream = <<<<Quotes, 2>>>>)
=============================================================================
