------------------------------- MODULE Cookies -------------------------------
(***************************************************************************)
(* labs/lab02/cookies.c: the file of cookies is one string, its pieces     *)
(* separated by "%" and a newline; get_cookie() finds the i-th by walking  *)
(* from the start.  Positions count from 1 here.                           *)
(***************************************************************************)
EXTENDS Integers, Sequences, FiniteSetsExt

CONSTANTS
  MaxText,     \* (bound) characters of the file
  MaxIndex     \* (bound) indices asked for

Char == {"%", "n", "x"}      \* the percent sign, the newline, anything else

VARIABLES
  cookies,      \* the file, once init_cookies() has read it
  cookie_count,
  cookie_buf,   \* the cookie last asked for
  asked         \* its index, as get_cookie() got it

vars == <<cookies, cookie_count, cookie_buf, asked>>

Init == cookies = <<>> /\ cookie_count = 0 /\ cookie_buf = <<>> /\ asked = 0

Separators(t) == {p \in 1 .. Len(t) - 1 : t[p] = "%" /\ t[p + 1] = "n"}
count_cookies(t) == Cardinality(Separators(t)) + 1

(* An empty file is refused.  One that begins with "%" is left out: the    *)
(* first cookie then loses two characters, or the whole walk its footing   *)
(* when its length comes out negative.                                     *)
init_cookies ==
  /\ cookies = <<>>
  /\ \E t \in UNION {[1 .. n -> Char] : n \in 1 .. MaxText} :
       /\ t[1] # "%"
       /\ cookies' = t /\ cookie_count' = count_cookies(t)
  /\ UNCHANGED <<cookie_buf, asked>>

Stop(t, e) == Min({p \in Separators(t) \cup {Len(t) + 1} : p >= e})

(* Slip: the walk does not step off the separator it has stopped at.       *)
WalkStuck(t, i) ==
  LET at[k \in 0 .. i] ==
        IF k = 0 THEN <<1, Stop(t, 1)>>
        ELSE LET e == at[k - 1][2] IN
             IF e <= Len(t) THEN <<e, Stop(t, e)>> ELSE at[k - 1]
  IN at[i]

(* Start and end of the i-th cookie: each round but the last goes on from  *)
(* the separator it has found; without one it stays.                       *)
Walk(t, i) ==
  LET at[k \in 0 .. i] ==
        IF k = 0 THEN <<1, Stop(t, 1)>>
        ELSE LET e == at[k - 1][2] IN
             IF e <= Len(t) THEN <<e, Stop(t, e + 1)>> ELSE at[k - 1]
  IN at[i]

get_i_th_cookie(t, i) ==
  LET s == Walk(t, i)[1]  e == Walk(t, i)[2] IN
  SubSeq(t, IF t[s] = "%" THEN s + 2 ELSE s, e - 1)

get_cookie(i) ==
  /\ cookies # <<>>
  /\ asked' = i
  /\ cookie_buf' = get_i_th_cookie(cookies, IF i < 0 THEN 0 ELSE i % cookie_count)
  /\ UNCHANGED <<cookies, cookie_count>>

Next == init_cookies \/ \E i \in -1 .. MaxIndex : get_cookie(i)

(* The cookies are the pieces of the file: no piece holds a separator, and *)
(* put together with separators between them they are the file.  What is   *)
(* given out is the piece of the index, counted round.                     *)
CookieRight ==
  cookies # <<>> =>
    LET m     == cookie_count - 1
        piece == [k \in 0 .. m |-> get_i_th_cookie(cookies, k)]
        joined[k \in 0 .. m] ==
          IF k = 0 THEN piece[0] ELSE joined[k - 1] \o <<"%", "n">> \o piece[k]
    IN  /\ \A k \in 0 .. m : Separators(piece[k]) = {}
        /\ joined[m] = cookies
        /\ cookie_buf # <<>> => cookie_buf = piece[IF asked < 0 THEN 0 ELSE asked % cookie_count]
=============================================================================
