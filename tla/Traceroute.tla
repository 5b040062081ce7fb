------------------------------ MODULE Traceroute ------------------------------
(***************************************************************************)
(* labs/lab07/traceroute.c sends an echo request with time to live 0, 1,   *)
(* 2, ... and takes the next ICMP message of any kind for the answer.  The *)
(* timer is set at level IPPROTO_IP, where its number is another option:   *)
(* recvfrom() waits for ever.  Routers, and other programs on the host     *)
(* that get ICMP messages, are the environment.                            *)
(***************************************************************************)
EXTENDS Integers, Sequences, FiniteSets

CONSTANTS
  Distance,     \* the destination is so many hops away
  HOPLIMIT,
  MaxForeign    \* (bound) messages for other programs

ConstantsOK == Distance \in Nat \ {0} /\ HOPLIMIT \in Nat /\ MaxForeign \in Nat

VARIABLES
  hop,       \* the loop variable of main()
  awaiting,  \* has the probe of this hop been sent?
  answers,   \* answers on their way: the hops whose probes they answer
  inbox,     \* messages at the socket: such a hop, or -1 for another program's
  foreign,   \* how many of those there have been
  lines      \* what has been printed: <<hop, message>>

vars == <<hop, awaiting, answers, inbox, foreign, lines>>

Init ==
  /\ hop = 0 /\ awaiting = FALSE /\ answers = {} /\ inbox = <<>>
  /\ foreign = 0 /\ lines = <<>>

(* A packet with time to live 0 is answered, if at all, by the first       *)
(* router, as one with 1 is.                                               *)
Answerer(h) == IF h <= 1 THEN 1 ELSE IF h > Distance THEN Distance ELSE h
Reached     == \E j \in DOMAIN lines : lines[j][2] = -2 \/ lines[j][2] >= Distance

SendProbe ==
  /\ ~Reached /\ hop < HOPLIMIT /\ ~awaiting
  /\ awaiting' = TRUE
  /\ answers' \in {answers, answers \cup {hop}}
  /\ UNCHANGED <<hop, inbox, foreign, lines>>

Deliver ==
  /\ \E h \in answers : answers' = answers \ {h} /\ inbox' = Append(inbox, h)
  /\ UNCHANGED <<hop, awaiting, foreign, lines>>

(* A message for another program: an error (-1) or an echo reply (-2).     *)
DeliverForeign ==
  /\ foreign < MaxForeign
  /\ foreign' = foreign + 1
  /\ \E m \in {-1, -2} : inbox' = Append(inbox, m)
  /\ UNCHANGED <<hop, awaiting, answers, lines>>

(* Slip: the timer is armed, and an answer that comes later is still taken *)
(* for that of the next probe.                                             *)
ReceiveOrTimeout ==
  /\ awaiting
  /\ \/ inbox # <<>> /\ lines' = Append(lines, <<hop, Head(inbox)>>) /\ inbox' = Tail(inbox)
     \/ inbox = <<>> /\ UNCHANGED <<lines, inbox>>
  /\ hop' = hop + 1 /\ awaiting' = FALSE
  /\ UNCHANGED <<answers, foreign>>

(* An echo reply ends the program, whoever sent it.                        *)
Receive ==
  /\ awaiting /\ inbox # <<>>
  /\ lines' = Append(lines, <<hop, Head(inbox)>>) /\ inbox' = Tail(inbox)
  /\ hop' = hop + 1 /\ awaiting' = FALSE
  /\ UNCHANGED <<answers, foreign>>

Next == SendProbe \/ Deliver \/ DeliverForeign \/ Receive

Spec == Init /\ [][Next]_vars

(* A line may name a router that is nearer than its hop, never one that is *)
(* farther, and no answer is printed twice.  Until a message for another   *)
(* program has been taken each line names the router of its own hop: there *)
(* is never a second probe under way, since without a timer a lost answer  *)
(* stops the program.                                                      *)
RouteTrue ==
  /\ hop = Len(lines) /\ hop <= HOPLIMIT
  /\ \A j \in DOMAIN lines : LET h == lines[j][1]  m == lines[j][2] IN
       /\ m >= 0 => Answerer(m) <= Answerer(h) /\ \A k \in DOMAIN lines : lines[k][2] = m => k = j
       /\ (\A k \in 1 .. j : lines[k][2] >= 0) => m = h
=============================================================================
