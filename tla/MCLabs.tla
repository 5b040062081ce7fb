-------------------------------- MODULE MCLabs --------------------------------
(* An instance of the small programs of the labs for TLC.                  *)
EXTENDS Labs

(* rshd: "e" has an empty password, "g" no account and "y" no record; an   *)
(* empty password is typed for "e" and for "x".                            *)
RshShadow == [n \in {"x", "e", "g"} |-> IF n = "e" THEN "" ELSE "p"]
RshTyped  == {<<"x", "p">>, <<"x", "">>, <<"e", "q">>, <<"e", "">>, <<"g", "p">>, <<"y", "p">>}

(* Reflector: "The" and "Th".                                              *)
ReflTexts == {<<84, 104, 101>>, <<84, 104>>}

(* As in the files of the repository a name ("ab", there avahi-autoipd)    *)
(* stands before the one it begins with; "n" and "o" have no record yet,   *)
(* and the last record has no password.                                    *)
Names == {"ab", "a", "n", "o", "m", "z"}
NamePrefixes == {<<n, n>> : n \in Names} \cup {<<"a", "ab">>}
PasswdNames  == <<"ab", "a", "n", "o", "m", "z">>
ShadowTokens == <<<<"name", "ab">>, <<"pw", "p">>, <<"rest", "">>,
                  <<"name", "m">>, <<"pw", "q">>, <<"rest", "">>,
                  <<"name", "a">>, <<"rest", "">>, <<"name", "z">>, <<"rest", "">>>>

(* Relay: files of up to three bytes, with every byte after a NUL that     *)
(* strcat() could overwrite.                                               *)
Bytes == 0 .. 255
Files == {<<>>, <<49, 0, 50, 51>>, <<128, 200, 255, 0, 7>>}
           \cup {<<c>> : c \in Bytes} \cup {<<0, c>> : c \in Bytes} \cup {<<200, 0, c>> : c \in Bytes}
Polynomial == {0, 2, 15}    \* 0x8005
=============================================================================
