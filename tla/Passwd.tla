-------------------------------- MODULE Passwd --------------------------------
(***************************************************************************)
(* labs/lab06/native: mypasswd.c changes a record of the file shadow where *)
(* it stands, login.c lets in who is found there, and both find a user by  *)
(* the functions of shadow.c and pwd.c, which compare only as many         *)
(* characters as were typed.                                               *)
(*                                                                         *)
(* The file is a sequence of tokens of the same width: a name, a password  *)
(* (none if it is empty) and the rest of the line with its newline.  What  *)
(* matters of a width is kept by this: a record in which a password        *)
(* replaces another keeps its length, one that had none grows.  Locked     *)
(* accounts (the password is "*" or "!") grow in the same way and are      *)
(* taken as empty by mypasswd; nobody logs in to one in this model.        *)
(***************************************************************************)
EXTENDS Integers, Sequences, FiniteSetsExt

CONSTANTS
  Name, Password,
  Begins,      \* <<u, n>>: the name n begins with u
  PasswdFile,  \* the names in the file passwd, in order
  NoShell,     \* those with the shell /bin/false
  FirstShadow, \* the file shadow before anything has happened
  Tool,        \* invocations of mypasswd
  None

NameToken(n) == <<"name", n>>
PwToken(p)   == <<"pw", p>>
Rest         == <<"rest", "">>

NameTokens == {NameToken(n) : n \in Name}
PwTokens   == {PwToken(p) : p \in Password}

(* What the file is at first: lines with a name, a password or none, and   *)
(* the rest, at most one for each user.                                    *)
ShadowFile(s) ==
  /\ s \in Seq(NameTokens \cup PwTokens \cup {Rest}) /\ s # <<>>
  /\ s[1] \in NameTokens /\ s[Len(s)] = Rest
  /\ \A i \in 1 .. Len(s) - 1 :
       \/ s[i] = Rest /\ s[i + 1] \in NameTokens
       \/ s[i] \in NameTokens /\ s[i + 1] \in PwTokens \cup {Rest}
       \/ s[i] \in PwTokens /\ s[i + 1] = Rest
  /\ \A i, j \in DOMAIN s : s[i] = s[j] /\ s[i] \in NameTokens => i = j

ConstantsOK ==
  /\ \A n \in Name : <<n, n>> \in Begins
  /\ None \notin Name \cup Password \cup {""} /\ "" \notin Password
  /\ ShadowFile(FirstShadow)

VARIABLES
  shadow,    \* the file
  tool,      \* tool[k]: what mypasswd has found and where it will write
  console,   \* login: "asking", "in" or "crashed", with what was typed
  cur,       \* (history) cur[n]: the last password set for n, None if there is no record
  spoilt     \* (history) users whose record a write of mypasswd may have cost

vars == <<shadow, tool, console, cur, spoilt>>

-----------------------------------------------------------------------------
(* Lines, and how they are looked up. *)

LineStarts == {i \in DOMAIN shadow : i = 1 \/ shadow[i - 1] = Rest}
LineEnd(i) == Min({j \in i .. Len(shadow) : shadow[j] = Rest})
PwAt(i)    == IF shadow[i + 1] = Rest THEN "" ELSE shadow[i + 1][2]

(* strncmp() of as many characters as the user has typed; getpwnam() is    *)
(* done in the same way on passwd, and gives nothing for /bin/false.       *)
Matching(u) == {i \in LineStarts : \E n \in Name : shadow[i] = NameToken(n) /\ <<u, n>> \in Begins}
InPasswd(u) == {i \in DOMAIN PasswdFile : <<u, PasswdFile[i]>> \in Begins}
getpwnam(u) == InPasswd(u) # {} /\ PasswdFile[Min(InPasswd(u))] \notin NoShell

(* The line of exactly this user: what mypasswd and login should look for. *)
Entries(n) == {PwAt(i) : i \in {i \in LineStarts : shadow[i] = NameToken(n)}}

Idle == [pc |-> "idle", user |-> None, start |-> 0, saved |-> FALSE]

Init ==
  /\ shadow = FirstShadow
  /\ tool = [k \in Tool |-> Idle]
  /\ console = <<"asking", None, None>>
  /\ cur = [n \in Name |-> IF Entries(n) = {} THEN None ELSE CHOOSE p \in Entries(n) : TRUE]
  /\ spoilt = {}

-----------------------------------------------------------------------------
(* mypasswd: first it finds the record and remembers where it begins (the  *)
(* end of the file for a user who has none) and whether it had a password  *)
(* (savedPwd) ...                                                          *)
Locate(k, u) ==
  LET at == IF Matching(u) = {} THEN Len(shadow) + 1 ELSE Min(Matching(u)) IN
  /\ tool[k].pc = "idle"
  /\ tool' = [tool EXCEPT ![k] =
       IF getpwnam(u)
       THEN [pc |-> "typing", user |-> u, start |-> at,
             saved |-> Matching(u) # {} /\ shadow[at + 1] # Rest]
       ELSE [Idle EXCEPT !.pc = "done"]]
  /\ UNCHANGED <<shadow, console, cur, spoilt>>

Record(u, p) == <<NameToken(u), PwToken(p), Rest>>
Overwrite(at, new) ==
  SubSeq(shadow, 1, at - 1) \o new \o SubSeq(shadow, at + Len(new), Len(shadow))

(* Whom a write may cost the record.  Over a record of the user that had a *)
(* password when it was found: nobody.  Else those whose lines begin where *)
(* it writes; and the user, if that is neither his record nor the end of   *)
(* the file (any more).                                                    *)
Lines(P) == {n \in Name : \E i \in LineStarts \cap P : shadow[i] = NameToken(n)}
Spoils(k) ==
  LET u == tool[k].user  at == tool[k].start
      own == at \in DOMAIN shadow /\ shadow[at] = NameToken(u)
  IN {n \in Name : \/ n # u /\ ~(own /\ tool[k].saved) /\ n \in Lines(at .. at + 2)
                   \/ n = u /\ ~own /\ at # Len(shadow) + 1}

(* Slip: no fseek() back to the beginning of the line.                     *)
WriteBehind(k, p) ==
  LET u == tool[k].user  at == tool[k].start IN
  /\ tool[k].pc = "typing"
  /\ shadow' = Overwrite(IF at > Len(shadow) THEN at ELSE LineEnd(at) + 1, Record(u, p))
  /\ cur' = [cur EXCEPT ![u] = p]
  /\ spoilt' = spoilt \cup Spoils(k)
  /\ tool' = [tool EXCEPT ![k].pc = "done"]
  /\ UNCHANGED console

(* ... and when the user has typed the new password twice it writes there, *)
(* under the name that was typed, whatever has become of the file.         *)
WriteBack(k, p) ==
  LET u == tool[k].user  at == tool[k].start IN
  /\ tool[k].pc = "typing"
  /\ shadow' = Overwrite(at, Record(u, p))
  /\ cur' = [cur EXCEPT ![u] = p]
  /\ spoilt' = spoilt \cup Spoils(k)
  /\ tool' = [tool EXCEPT ![k].pc = "done"]
  /\ UNCHANGED console

(* Slip: the first line of the file whoever asks.                          *)
LoginFirstLine(u, p) ==
  /\ console[1] = "asking" /\ Matching(u) # {}
  /\ PwAt(1) \in {"", p}
  /\ console' = <<IF getpwnam(u) THEN "in" ELSE "crashed", u, p>>
  /\ UNCHANGED <<shadow, tool, cur, spoilt>>

(* login: an empty password is not asked for.  A refused one leaves no     *)
(* trace.  The record of passwd is used without a look at the result.      *)
Login(u, p) ==
  /\ console[1] = "asking" /\ Matching(u) # {}
  /\ PwAt(Min(Matching(u))) \in {"", p}
  /\ console' = <<IF getpwnam(u) THEN "in" ELSE "crashed", u, p>>
  /\ UNCHANGED <<shadow, tool, cur, spoilt>>

-----------------------------------------------------------------------------
Next ==
  \/ \E k \in Tool, u \in Name : Locate(k, u)
  \/ \E k \in Tool, p \in Password : WriteBack(k, p)
  \/ \E u \in Name, p \in Password : Login(u, p)

Spec == Init /\ [][Next]_vars

-----------------------------------------------------------------------------
(* Properties. *)

TypeOK ==
  /\ shadow \in Seq(NameTokens \cup PwTokens \cup {Rest})
  /\ shadow[Len(shadow)] = Rest
  /\ \A k \in Tool : /\ tool[k].pc \in {"idle", "typing", "done"}
                     /\ tool[k].user \in Name \cup {None}
                     /\ tool[k].start \in 0 .. Len(shadow) + 1 /\ tool[k].saved \in BOOLEAN
  /\ cur \in [Name -> Password \cup {"", None}] /\ spoilt \subseteq Name

(* Each user whose record no write was to cost has exactly one password in *)
(* the file, the one set last, however the invocations of mypasswd         *)
(* interleave.  So a change of a password costs nobody a record but        *)
(*   - the next line, if the record had no password and grows;             *)
(*   - a user whose name begins with what was typed, and the user, if the  *)
(*     line found is that of the other;                                    *)
(*   - a user who has been put at the end of the file since it was found   *)
(*     for a new one, and the new user, whenever the end has moved: by     *)
(*     another new user, or as the last record has grown.  (That one keeps *)
(*     its password: it is the new user who is not found in its tail.)     *)
ShadowIntact ==
  /\ TypeOK
  /\ \A n \in Name \ spoilt : Entries(n) = {cur[n]} \ {None}

(* Login checks the first line that begins with what was typed, whoever    *)
(* that is: it lets in only who knows the password last set for its user,  *)
(* or has found one without a password, unless that user's record may have *)
(* been lost.                                                              *)
LetIn ==
  [][console'[1] = "in" /\ console[1] = "asking" =>
       \E n \in Name : /\ shadow[Min(Matching(console'[2]))] = NameToken(n)
                       /\ n \in spoilt \/ cur[n] \in {"", console'[3]}]_vars
=============================================================================
