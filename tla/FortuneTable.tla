---------------------------- MODULE FortuneTable ----------------------------
(***************************************************************************)
(* labs/lab02, both fortune servers: the table that counts how often each  *)
(* cookie was given out.  It is three globals, here a record: the array    *)
(* cookieIndex, the array cookieIndexCount and the number count of entries *)
(* in use.  A cookie is its index in cookies.txt.                          *)
(***************************************************************************)
EXTENDS Integers, FiniteSetsExt

CONSTANTS
  NumCookies,    \* what count_cookies() returns: 87 for cookies.txt
  Slots          \* the length of the arrays: 100

ASSUME TableAssumption ==
  /\ NumCookies \in Nat \ {0}
  /\ Slots \in Nat /\ NumCookies <= Slots

Cookie == 0 .. NumCookies - 1
Slot   == 0 .. Slots - 1

(* fillArray() sets a few of the entries to 0, the others are 0 anyway. *)
EmptyTable ==
  [index |-> [k \in Slot |-> 0], freq |-> [k \in Slot |-> 0], count |-> 0]

(* Where searchArray() may stop: it looks at one entry too many, the one   *)
(* behind the entries in use.                                              *)
Found(t, c) == {k \in Slot : k <= t.count /\ t.index[k] = c}

(* A slip: a cookie gets a new entry every time. *)
CountCookieAnew(t, c) ==
  [t EXCEPT !.index[t.count] = c, !.freq[t.count] = @ + 1, !.count = @ + 1]

(* What process_request() does to the table when it gives out cookie c.    *)
CountCookie(t, c) ==
  IF Found(t, c) # {}
  THEN [t EXCEPT !.freq[Min(Found(t, c))] = @ + 1]
  ELSE [index |-> [t.index EXCEPT ![t.count] = c],
        freq  |-> [t.freq EXCEPT ![t.count] = @ + 1],
        count |-> t.count + 1]

NoCookie == [cookie |-> -1, freq |-> 0]

(* A slip: the last of the highest entries counts, not the highest. *)
StatLast(t) ==
  IF t.count = 0 THEN NoCookie
  ELSE [cookie |-> t.index[t.count - 1], freq |-> t.freq[t.count - 1]]

(* The answer to "stat": the first entry with the highest frequency, or    *)
(* that no cookie was accessed.                                            *)
Stat(t) ==
  IF t.count = 0 THEN NoCookie
  ELSE LET used == 0 .. t.count - 1
           num  == Min({k \in used : \A j \in used : t.freq[j] <= t.freq[k]})
       IN  [cookie |-> t.index[num], freq |-> t.freq[num]]
=============================================================================
