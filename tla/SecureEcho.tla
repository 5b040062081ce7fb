------------------------------ MODULE SecureEcho ------------------------------
(***************************************************************************)
(* labs/lab11/rsa-app: echo-server.c serves one client at a time.  Both    *)
(* ends exchange public keys and then send blocks of 256 encrypted bytes:  *)
(* the length of the message, and the message, in one block if it is short *)
(* and in NumBlocks if it is long.  writes() writes a block; reads() takes *)
(* whatever one read() returns (9688 bytes at most) for one block,         *)
(* decrypts its first 256 bytes and drops the rest.                        *)
(*                                                                         *)
(* Part 0 of a stream is the key with the four bytes before it, part 1 the *)
(* length, 2 and up are the text.  The RSA library is taken to refuse what *)
(* is not a block.                                                         *)
(***************************************************************************)
EXTENDS BareRead, FiniteSets

CONSTANTS
  Peer,        \* the clients
  Long,        \* those that send the long message of read_long_message()
  NumBlocks    \* blocks of a long message

ConstantsOK == Long \subseteq Peer /\ NumBlocks \in Nat \ {0}

VARIABLES
  waiting,   \* connections the server has not accepted
  es,        \* the server: "accept", "key", "length", "text", "answer" or "dead"
  peer,      \* the client it serves
  good,      \* is the message in its buffer what the client sent?
  nread,     \* text blocks it has read
  ec,        \* ec[c]: "new", "key", "send", "length", "text" or "done"
  nsent,     \* blocks the client has sent after its key
  toServer, toClient,
  closed,    \* connections the server has closed or left by dying
  result,    \* result[c]: "none", "right", "wrong" or "error"
  odd        \* (history) conversations in which a read() did not take one block

vars == <<waiting, es, peer, good, nread, ec, nsent, toServer, toClient, closed, result, odd>>
serverVars == <<waiting, es, peer, good, nread>>
clientVars == <<ec, nsent, result>>

Nobody == "nobody"
Blocks(c) == IF c \in Long THEN NumBlocks ELSE 1

Init ==
  /\ waiting = <<>> /\ es = "accept" /\ peer = Nobody /\ good = TRUE /\ nread = 0
  /\ ec = [c \in Peer |-> "new"] /\ nsent = [c \in Peer |-> 0]
  /\ toServer = [c \in Peer |-> <<>>] /\ toClient = [c \in Peer |-> <<>>]
  /\ closed = {} /\ result = [c \in Peer |-> "none"] /\ odd = {}

-----------------------------------------------------------------------------
(* A block that writes() adds to a stream, and what reads() makes of the   *)
(* bytes one read() has taken.                                             *)

writes(s, i) == s \o Part(i)

IsBlock(got) == Len(got) >= 2 /\ got[1][2] = 1 /\ got[2] = <<got[1][1], 2>>
Mark(c, got) == odd' = IF Len(got) = 2 THEN odd ELSE odd \cup {c}

End(c, r) == ec' = [ec EXCEPT ![c] = "done"] /\ result' = [result EXCEPT ![c] = r]

-----------------------------------------------------------------------------
(* The client. *)

Connect(c) ==
  /\ ec[c] = "new"
  /\ IF es = "dead" THEN End(c, "error") /\ UNCHANGED waiting
     ELSE ec' = [ec EXCEPT ![c] = "key"] /\ waiting' = Append(waiting, c) /\ UNCHANGED result
  /\ UNCHANGED <<es, peer, good, nread, nsent, toServer, toClient, closed, odd>>

(* exchange_public_key(): one bare read() for the key of the server, then  *)
(* its own is written.  With half a key the first encrypt() fails.         *)
ClientKey(c) ==
  /\ ec[c] = "key"
  /\ \/ \E got \in Takes(toClient[c]) :
          /\ Len(got) <= 2 /\ Mark(c, got)
          /\ toClient' = [toClient EXCEPT ![c] = After(@, got)]
          /\ toServer' = [toServer EXCEPT ![c] = @ \o Part(0)]
          /\ IF Len(got) = 2 THEN ec' = [ec EXCEPT ![c] = "send"] /\ UNCHANGED result
                             ELSE End(c, "error")
     \/ /\ toClient[c] = <<>> /\ c \in closed
        /\ End(c, "error") /\ UNCHANGED <<toClient, toServer, odd>>
  /\ UNCHANGED <<serverVars, nsent, closed>>

(* The length, then the text; a block of a long message is not terminated, *)
(* and encrypt() exits if what lies behind it makes it longer than a block *)
(* may be.                                                                 *)
ClientSend(c) ==
  /\ ec[c] = "send"
  /\ \/ /\ toServer' = [toServer EXCEPT ![c] = writes(@, nsent[c] + 1)]
        /\ nsent' = [nsent EXCEPT ![c] = @ + 1]
        /\ ec' = [ec EXCEPT ![c] = IF nsent[c] = Blocks(c) THEN "length" ELSE "send"]
        /\ UNCHANGED result
     \/ /\ c \in Long /\ nsent[c] \in 1 .. NumBlocks - 1
        /\ End(c, "error") /\ UNCHANGED <<toServer, nsent>>
  /\ UNCHANGED <<serverVars, toClient, closed, odd>>

(* The length and a text come back; at the end of the connection decrypt() *)
(* finds in its buffer nothing of use, or the block that was there before. *)
ClientReadLength(c) ==
  /\ ec[c] = "length"
  /\ \/ \E got \in Takes(toClient[c]) :
          /\ Mark(c, got)
          /\ toClient' = [toClient EXCEPT ![c] = After(@, got)]
          /\ IF IsBlock(got) THEN ec' = [ec EXCEPT ![c] = "text"] /\ UNCHANGED result
                             ELSE End(c, "error")
     \/ toClient[c] = <<>> /\ c \in closed /\ End(c, "error") /\ UNCHANGED <<toClient, odd>>
  /\ UNCHANGED <<serverVars, nsent, toServer, closed>>

(* Slip: the text expected in what came with the length.                   *)
ClientReadTextLoose(c) ==
  /\ ec[c] = "text"
  /\ toClient[c] # <<>> \/ c \in closed
  /\ toClient' = [toClient EXCEPT ![c] = <<>>]
  /\ End(c, "right")
  /\ UNCHANGED <<serverVars, nsent, toServer, closed, odd>>

ClientReadText(c) ==
  /\ ec[c] = "text"
  /\ \/ \E got \in Takes(toClient[c]) :
          /\ Mark(c, got)
          /\ toClient' = [toClient EXCEPT ![c] = After(@, got)]
          /\ \E r \in {IF IsBlock(got) THEN IF got[1][1] = 2 THEN "right" ELSE "wrong" ELSE "error"} :
               End(c, r)
     \/ /\ toClient[c] = <<>> /\ c \in closed
        /\ \E r \in {"wrong", "error"} : End(c, r)
        /\ UNCHANGED <<toClient, odd>>
  /\ UNCHANGED <<serverVars, nsent, toServer, closed>>

-----------------------------------------------------------------------------
(* The server. *)

Die == es' = "dead" /\ closed' = Peer
Hang(c) == ec[c] = "done"       \* the client has closed its side

AcceptAndSendKey ==
  /\ es = "accept" /\ waiting # <<>>
  /\ peer' = Head(waiting) /\ waiting' = Tail(waiting)
  /\ toClient' = [toClient EXCEPT ![peer'] = Part(0)]
  /\ es' = "key" /\ good' = TRUE /\ nread' = 0
  /\ UNCHANGED <<clientVars, toServer, closed, odd>>

(* Half a key is noticed later, by what is left of it in the stream.       *)
ServerKey ==
  /\ es = "key"
  /\ \/ \E got \in Takes(toServer[peer]) :
          /\ Len(got) <= 2 /\ Mark(peer, got)
          /\ toServer' = [toServer EXCEPT ![peer] = After(@, got)]
          /\ es' = "length" /\ UNCHANGED closed
     \/ toServer[peer] = <<>> /\ Hang(peer) /\ Die /\ UNCHANGED <<toServer, odd>>
  /\ UNCHANGED <<clientVars, waiting, peer, good, nread, toClient>>

ServerLength ==
  /\ es = "length"
  /\ \/ \E got \in Takes(toServer[peer]) :
          /\ Mark(peer, got)
          /\ toServer' = [toServer EXCEPT ![peer] = After(@, got)]
          /\ IF IsBlock(got) THEN es' = "text" /\ UNCHANGED closed ELSE Die
     \/ toServer[peer] = <<>> /\ Hang(peer) /\ Die /\ UNCHANGED <<toServer, odd>>
  /\ UNCHANGED <<clientVars, waiting, peer, good, nread, toClient>>

NextText == es' = IF nread + 1 = Blocks(peer) THEN "answer" ELSE "text"

ServerText ==
  /\ es = "text" /\ nread' = nread + 1
  /\ \/ \E got \in Takes(toServer[peer]) :
          /\ Mark(peer, got)
          /\ toServer' = [toServer EXCEPT ![peer] = After(@, got)]
          /\ good' = (good /\ IsBlock(got) /\ got[1][1] = nread + 2)
          /\ IF IsBlock(got) THEN NextText /\ UNCHANGED closed ELSE Die
     \/ /\ toServer[peer] = <<>> /\ Hang(peer) /\ UNCHANGED <<toServer, odd>>
        /\ good' = FALSE
        /\ Die \/ (NextText /\ UNCHANGED closed)
  /\ UNCHANGED <<clientVars, waiting, peer, toClient>>

(* Slip: the connection is not closed after a short answer.                *)
ServerAnswerOpen ==
  /\ es = "answer" /\ peer \notin Long /\ good
  /\ toClient' = [toClient EXCEPT ![peer] = writes(writes(@, 1), 2)]
  /\ es' = "accept"
  /\ UNCHANGED <<clientVars, waiting, peer, good, nread, toServer, closed, odd>>

(* A short text goes back behind its length and the connection is closed.  *)
(* The blocks of a long one are written to the listening socket, which     *)
(* raises SIGPIPE after the length.  A wrong text is block 0 here; the     *)
(* second write to a client that is gone may raise SIGPIPE as well.        *)
ServerAnswer ==
  /\ es = "answer"
  /\ \/ /\ peer \notin Long
        /\ toClient' = [toClient EXCEPT ![peer] = writes(writes(@, 1), IF good THEN 2 ELSE 0)]
        /\ es' = "accept" /\ closed' = closed \cup {peer}
     \/ /\ peer \in Long \/ Hang(peer)
        /\ toClient' = [toClient EXCEPT ![peer] = writes(@, 1)]
        /\ Die
  /\ UNCHANGED <<clientVars, waiting, peer, good, nread, toServer, odd>>

-----------------------------------------------------------------------------
Client(c) == \/ ClientKey(c) \/ ClientSend(c)
             \/ ClientReadLength(c) \/ ClientReadText(c)
Server    == AcceptAndSendKey \/ ServerKey \/ ServerLength \/ ServerText \/ ServerAnswer

Next == Server \/ \E c \in Peer : Connect(c) \/ Client(c)
Fairness == WF_vars(Server) /\ \A c \in Peer : WF_vars(Client(c))

-----------------------------------------------------------------------------
(* Properties. *)

TypeOK ==
  /\ waiting \in Seq(Peer) /\ peer \in Peer \cup {Nobody} /\ good \in BOOLEAN
  /\ es \in {"accept", "key", "length", "text", "answer", "dead"}
  /\ nread \in 0 .. NumBlocks /\ nsent \in [Peer -> 0 .. NumBlocks + 1]
  /\ ec \in [Peer -> {"new", "key", "send", "length", "text", "done"}]
  /\ closed \subseteq Peer /\ odd \subseteq Peer
  /\ result \in [Peer -> {"none", "right", "wrong", "error"}]

(* A client gets its own text back if and only if the message is short,    *)
(* each read() of the conversation happened to take one block, and the     *)
(* server had not died before of another client.                           *)
EchoRight ==
  /\ TypeOK
  /\ \A c \in Peer : ec[c] = "done" =>
       IF result[c] = "right" THEN c \notin Long \cup odd
       ELSE c \in Long \cup odd \/ es = "dead"

(* Every client comes to an end unless a read() in its conversation, or in *)
(* one the server is in, took more or less than a block: then the server   *)
(* waits for a block it has dropped, and its client for the answer.        *)
Ends ==
  \A c \in Peer : ec[c] # "new" ~> ec[c] = "done" \/ [](peer \in odd /\ es \in {"length", "text"})
=============================================================================
