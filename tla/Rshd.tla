--------------------------------- MODULE Rshd ---------------------------------
(***************************************************************************)
(* labs/lab06/native/rshd.c and rshClient.c: a process forked for each     *)
(* connection reads a name and a password, looks them up (rshd is linked   *)
(* with the shadow functions of the system, not with those of lab06), and  *)
(* becomes a shell; a child whose login fails goes back to accept() beside *)
(* its parent.  The client connects anew after a refusal.                  *)
(***************************************************************************)
EXTENDS Integers, Sequences, FiniteSets

CONSTANTS
  User,      \* the clients: one login after the other each
  Shadow,    \* Shadow[n]: the password of the name n, "" if it has none
  Account,   \* the names getpwnam() knows
  Typed,     \* what may be typed: <<name, password>>
  MaxTries,  \* (bound) logins each user tries
  MaxProc    \* fork() fails when there are this many processes

ConstantsOK ==
  /\ IsFiniteSet(User) /\ Account \subseteq DOMAIN Shadow
  /\ MaxTries \in Nat /\ MaxProc \in Nat \ {0}

VARIABLES
  tries,     \* tries[u]: connections made so far
  login,     \* login[u]: what the user types this time
  wrote,     \* wrote[u]: how many of the two writes the client has made
  wire,      \* wire[u]: what was written to the connection and not read
  left,      \* users who have killed their client
  child,     \* child[u]: who serves the connection of u, see Stage
  got,       \* got[u]: what the two reads of the child have returned
  told,      \* told[u]: "none", "yes" or "no", the four bytes of result
  acceptors, \* processes in accept(), the first one included
  procs      \* processes in all: nobody waits for the dead

vars == <<tries, login, wrote, wire, left, child, got, told, acceptors, procs>>

Stage == {"none", "queued", "serving", "unserved", "shell", "crashed"}
NoLogin == <<"", "">>

Init ==
  /\ tries = [u \in User |-> 0] /\ login = [u \in User |-> NoLogin]
  /\ wrote = [u \in User |-> 0] /\ wire = [u \in User |-> <<>>] /\ left = {}
  /\ child = [u \in User |-> "none"] /\ got = [u \in User |-> <<>>]
  /\ told = [u \in User |-> "none"]
  /\ acceptors = 1 /\ procs = 1

-----------------------------------------------------------------------------
(* rshClient: main() and passAll(). *)

Connect(u) ==
  /\ u \notin left /\ tries[u] < MaxTries
  /\ told[u] = "no" \/ tries[u] = 0
  /\ tries' = [tries EXCEPT ![u] = @ + 1]
  /\ \E t \in Typed : login' = [login EXCEPT ![u] = t]
  /\ wrote' = [wrote EXCEPT ![u] = 0]
  /\ wire' = [wire EXCEPT ![u] = <<>>] /\ got' = [got EXCEPT ![u] = <<>>]
  /\ told' = [told EXCEPT ![u] = "none"]
  /\ child' = [child EXCEPT ![u] = "queued"]
  /\ UNCHANGED <<left, acceptors, procs>>

Waits(u) == u \notin left /\ child[u] # "none" /\ told[u] = "none"

(* The name is written with its newline and up to the first NUL behind it, *)
(* wherever that is: the buffer is never cleared.                          *)
WriteName(u) ==
  /\ Waits(u) /\ wrote[u] = 0
  /\ \E n \in {login[u][1], "garbage"} : wire' = [wire EXCEPT ![u] = <<n>>]
  /\ wrote' = [wrote EXCEPT ![u] = 1]
  /\ UNCHANGED <<tries, login, left, child, got, told, acceptors, procs>>

(* readline() has no newline in it: of an empty password no byte is        *)
(* written, and nothing arrives.                                           *)
WritePassword(u) ==
  /\ Waits(u) /\ wrote[u] = 1
  /\ wire' = [wire EXCEPT ![u] = IF login[u][2] = "" THEN @ ELSE Append(@, login[u][2])]
  /\ wrote' = [wrote EXCEPT ![u] = 2]
  /\ UNCHANGED <<tries, login, left, child, got, told, acceptors, procs>>

(* The end of what is typed kills it as well: readline() gives no string.  *)
Kill(u) ==
  /\ Waits(u)
  /\ left' = left \cup {u}
  /\ UNCHANGED <<tries, login, wrote, wire, child, got, told, acceptors, procs>>

-----------------------------------------------------------------------------
(* rshd: main() and authenticate(). *)

(* Slip: the result -1 of fork() taken for the child.                      *)
AcceptAsChild(u) ==
  /\ acceptors > 0 /\ child[u] = "queued"
  /\ procs' = IF procs < MaxProc THEN procs + 1 ELSE procs
  /\ child' = [child EXCEPT ![u] = "serving"]
  /\ UNCHANGED <<tries, login, wrote, wire, left, got, told, acceptors>>

(* acceptConn() and fork() by any of the acceptors.  The one that accepts  *)
(* never closes the connection; if fork() fails it is left at that.        *)
Accept(u) ==
  /\ acceptors > 0 /\ child[u] = "queued"
  /\ IF procs < MaxProc
     THEN procs' = procs + 1 /\ child' = [child EXCEPT ![u] = "serving"]
     ELSE child' = [child EXCEPT ![u] = "unserved"] /\ UNCHANGED procs
  /\ UNCHANGED <<tries, login, wrote, wire, left, got, told, acceptors>>

(* read() takes all there is, or nothing at the end of the connection.     *)
Read(u) ==
  /\ child[u] = "serving" /\ Len(got[u]) < 2
  /\ wire[u] # <<>> \/ u \in left
  /\ got' = [got EXCEPT ![u] = Append(@, wire[u])]
  /\ wire' = [wire EXCEPT ![u] = <<>>]
  /\ UNCHANGED <<tries, login, wrote, left, child, told, acceptors, procs>>

(* Only two reads that brought one word each can match an entry; and they  *)
(* need not, as what is read is not always followed by a NUL.              *)
Matches(u) ==
  /\ Len(got[u][1]) = 1 /\ got[u][1][1] \in DOMAIN Shadow
  /\ Shadow[got[u][1][1]] \in {"", IF Len(got[u][2]) = 1 THEN got[u][2][1] ELSE ""}

(* Slip: the shell is started before the client is told.                   *)
SucceedQuietly(u) ==
  /\ child[u] = "serving" /\ Len(got[u]) = 2 /\ Matches(u)
  /\ child' = [child EXCEPT ![u] = IF got[u][1][1] \in Account THEN "shell" ELSE "crashed"]
  /\ UNCHANGED <<tries, login, wrote, wire, left, got, told, acceptors, procs>>

(* Success: the child becomes the shell, unless getpwnam() gives nothing   *)
(* and it follows the null pointer; the connection stays open then, in the *)
(* process that has accepted it.                                           *)
Succeed(u) ==
  /\ child[u] = "serving" /\ Len(got[u]) = 2 /\ Matches(u)
  /\ IF got[u][1][1] \in Account
     THEN child' = [child EXCEPT ![u] = "shell"] /\ told' = [told EXCEPT ![u] = "yes"]
     ELSE child' = [child EXCEPT ![u] = "crashed"] /\ UNCHANGED told
  /\ UNCHANGED <<tries, login, wrote, wire, left, got, acceptors, procs>>

(* Failure: the child says so, closes, and goes on as an acceptor.         *)
Refuse(u) ==
  /\ child[u] = "serving" /\ Len(got[u]) = 2
  /\ child' = [child EXCEPT ![u] = "none"]
  /\ told' = [told EXCEPT ![u] = "no"]
  /\ acceptors' = acceptors + 1
  /\ UNCHANGED <<tries, login, wrote, wire, left, got, procs>>

-----------------------------------------------------------------------------
Client(u) == WriteName(u) \/ WritePassword(u)
Server(u) == Accept(u) \/ Read(u) \/ Succeed(u) \/ Refuse(u)

Next == \E u \in User : Connect(u) \/ Kill(u) \/ Client(u) \/ Server(u)

(* The processes run, and a user who is asked types.                       *)
Spec == Init /\ [][Next]_vars
Fairness == \A u \in User : WF_vars(Client(u)) /\ WF_vars(Server(u))

-----------------------------------------------------------------------------
(* Properties. *)

Sent(u) == Len(wire[u]) + (IF got[u] = <<>> THEN 0 ELSE Len(got[u][1]))
                        + (IF Len(got[u]) < 2 THEN 0 ELSE Len(got[u][2]))

TypeOK ==
  /\ tries \in [User -> 0 .. MaxTries] /\ login \in [User -> Typed \cup {NoLogin}]
  /\ left \subseteq User /\ child \in [User -> Stage]
  /\ wrote \in [User -> 0 .. 2]
  /\ \A u \in User : Len(wire[u]) <= 2 /\ Len(got[u]) <= 2 /\ Sent(u) <= wrote[u]
  /\ told \in [User -> {"none", "yes", "no"}]
  /\ acceptors \in 1 .. MaxProc /\ procs \in 1 .. MaxProc

(* A refusal costs a process for good: the acceptors are the first one and *)
(* one for each refusal so far, and every other process serves, is the     *)
(* shell of or has died on the last connection of a user who is not told   *)
(* no.  A user who has not been served met with no process left.           *)
Refused  == {l \in User \X (1 .. MaxTries) :
               l[2] < tries[l[1]] \/ (l[2] = tries[l[1]] /\ told[l[1]] = "no")}
Serving  == {u \in User : child[u] \in {"serving", "shell", "crashed"}}
Processes ==
  /\ TypeOK
  /\ acceptors = 1 + Cardinality(Refused)
  /\ procs = acceptors + Cardinality(Serving)
  /\ \A u \in User : child[u] = "unserved" => procs = MaxProc

(* Whoever types both is answered, unless nobody could be forked, the      *)
(* process that serves has died, or what was read first is all there is to *)
(* read, because name and password came together or the password is empty: *)
(* then it waits for ever for another, as the client does for the answer.  *)
LoginAnswered ==
  \A u \in User :
    child[u] = "queued" ~>
      \/ told[u] # "none" \/ u \in left
      \/ child[u] \in {"unserved", "crashed"}
      \/ [](Len(got[u]) = 1 /\ (Len(got[u][1]) = 2 \/ login[u][2] = ""))
=============================================================================
