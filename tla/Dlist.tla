-------------------------------- MODULE Dlist --------------------------------
(***************************************************************************)
(* labs/lab01: the doubly linked list dlist.c and its driver test_dlist.c, *)
(* which inserts N words, removes one at random, the first and the last,   *)
(* and prints what is left.  Nodes are numbered as they are made; 0 is     *)
(* NULL.                                                                   *)
(***************************************************************************)
EXTENDS Integers, Sequences, Functions

CONSTANTS
  N,         \* NUM_WORD: 20
  Content    \* the words there are

ConstantsOK == N \in Nat

VARIABLES
  words,             \* the array word of main(), as far as it is read
  head, tail,        \* of the list
  next, prev,        \* of each node
  freed,             \* nodes given to free()
  step,              \* calls made since the last insertion
  picked,            \* r
  health,            \* "ok", "crash", or "stray" after a use of a freed node
  traversed              \* words of the last traversal

vars == <<words, head, tail, next, prev, freed, step, picked, health, traversed>>
links == <<head, tail, next, prev>>

Null == 0
Node == 1 .. N

Init ==
  /\ words = <<>> /\ head = Null /\ tail = Null
  /\ next = [n \in Node |-> Null] /\ prev = [n \in Node |-> Null]
  /\ freed = {} /\ step = 0 /\ picked = 0 /\ health = "ok" /\ traversed = <<>>

(* make_node() and dlist_insert(). *)
Insert ==
  /\ Len(words) < N
  /\ LET a == Len(words) + 1 IN
     /\ \E w \in Content : words' = Append(words, w)
     /\ tail' = a
     /\ IF head = Null THEN head' = a /\ UNCHANGED <<next, prev>>
        ELSE /\ next' = [next EXCEPT ![tail] = a] /\ prev' = [prev EXCEPT ![a] = tail]
             /\ UNCHANGED head
  /\ UNCHANGED <<freed, step, picked, health, traversed>>

(* The nodes from the head on.                                             *)
Chain == LET from[n \in 0 .. N] == IF n = Null THEN <<>> ELSE <<n>> \o from[next[n]]
         IN from[head]

Visited(w) == LET hits == {k \in DOMAIN Chain : words[Chain[k]] = w} IN
              IF hits = {} THEN Chain
              ELSE SubSeq(Chain, 1, CHOOSE k \in hits : \A m \in hits : k <= m)
StopsAt(w) == Visited(w)[Len(Visited(w))]

(* Slip: the node before the last one keeps its link.                     *)
UnlinkNotLast(d) ==
  IF prev[d] = Null
  THEN head' = next[d] /\ prev' = [prev EXCEPT ![next[d]] = Null] /\ UNCHANGED next
  ELSE /\ next' = IF next[d] = Null THEN next ELSE [next EXCEPT ![prev[d]] = next[d]]
       /\ UNCHANGED <<head, prev>>

(* The links around node d, as the three conditions of dlist_remove() set  *)
(* them: the back link of the node behind it only at the head.             *)
Unlink(d) ==
  IF prev[d] = Null
  THEN head' = next[d] /\ prev' = [prev EXCEPT ![next[d]] = Null] /\ UNCHANGED next
  ELSE next' = [next EXCEPT ![prev[d]] = next[d]] /\ UNCHANGED <<head, prev>>

(* A word that is not there follows the null pointer, and so does the only *)
(* node.  The tail of the list stays what it is.                           *)
dlist_remove(w) ==
  \/ head = Null /\ UNCHANGED <<links, freed, health>>
  \/ /\ head # Null
     /\ LET d == StopsAt(w) IN
        IF \E n \in Range(Visited(w)) : n \in freed
        THEN health' = "stray" /\ UNCHANGED <<links, freed>>
        ELSE IF words[d] # w \/ (prev[d] = Null /\ next[d] = Null)
        THEN health' = "crash" /\ UNCHANGED <<links, freed>>
        ELSE IF prev[d] \in freed
        THEN health' = "stray" /\ UNCHANGED <<links, freed>>
        ELSE Unlink(d) /\ freed' = freed \cup {d} /\ UNCHANGED <<tail, health>>

Removing(s, w) ==
  /\ Len(words) = N /\ step = s /\ health = "ok"
  /\ dlist_remove(w) /\ step' = s + 1
  /\ UNCHANGED <<words, traversed>>

RemoveRandom == \E r \in Node : Removing(1, words[r]) /\ picked' = r
RemoveFront  == Len(words) = N /\ Removing(2, words[1]) /\ UNCHANGED picked
RemoveBack   == Len(words) = N /\ Removing(3, words[N]) /\ UNCHANGED picked

(* dlist_traverse(), and freeSpace() behind the second one.                *)
Traverse ==
  /\ Len(words) = N /\ step \in {0, 4} /\ health = "ok"
  /\ traversed' = [k \in DOMAIN Chain |-> words[Chain[k]]]
  /\ health' = IF Range(Chain) \cap freed = {} THEN "ok" ELSE "stray"
  /\ freed' = IF step = 4 THEN freed \cup Range(Chain) ELSE freed
  /\ step' = step + 1
  /\ UNCHANGED <<words, links, picked>>

Next == Insert \/ Traverse \/ RemoveRandom \/ RemoveFront \/ RemoveBack

RemoveAt(s, k) == SubSeq(s, 1, k - 1) \o SubSeq(s, k + 1, Len(s))
RemoveFirst(s, w) ==
  LET hits == {k \in DOMAIN s : s[k] = w} IN
  IF hits = {} THEN s ELSE RemoveAt(s, CHOOSE k \in hits : \A m \in hits : k <= m)

(* When the driver comes to its end it has printed the words less those it *)
(* removed and has freed every node; and with words that all differ it     *)
(* comes to its end unless r is the first, the last or the last but one:   *)
(* the first and the last are then not there when their turn comes, and    *)
(* the last still points back at the one before, which is freed.           *)
ListRight ==
  /\ step = 5 /\ health = "ok" =>
       /\ traversed = RemoveFirst(RemoveFirst(RemoveFirst(words, words[picked]), words[1]), words[N])
       /\ freed = Node
  /\ Len(words) = N /\ IsInjective(words) =>
       IF picked \in {1, N - 1, N} THEN ~(step = 5 /\ health = "ok") ELSE health = "ok"
=============================================================================
