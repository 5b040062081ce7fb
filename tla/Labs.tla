--------------------------------- MODULE Labs ---------------------------------
(***************************************************************************)
(* The small programs of the labs side by side: a behaviour is one of one  *)
(* of them, the others never start.                                        *)
(***************************************************************************)
EXTENDS Integers, Sequences

CONSTANTS
  User, Shadow, Account, Typed, MaxTries, MaxProc,
  Peer, Long, NumBlocks,
  Quotes,
  Texts, Size, Garbage, HeaderSum, MaxSends,
  N, Content,
  Distance, HOPLIMIT, MaxForeign,
  MaxText, MaxIndex,
  Name, Password, Begins, PasswdFile, NoShell, FirstShadow, Tool, None,
  Ulong, cm_width, cm_poly, Message

VARIABLES
  program,
  tries, login, wrote, wire, left, child, got, told, acceptors, procs,
  waiting, es, peer, good, nread, ec, nsent, toServer, toClient, closed, result, odd,
  sender, node, count, stream, expected, printed, uneven,
  sends, text, packet, stack, whole, judged,
  words, head, tail, next, prev, freed, step, picked, health, traversed,
  hop, awaiting, answers, inbox, foreign, lines,
  cookies, cookie_count, cookie_buf, asked,
  shadow, tool, console, cur, spoilt,
  file, spc, gpc, kpc, toGateway, toSink, msg, shown

Rsh   == INSTANCE Rshd
Echo  == INSTANCE SecureEcho
List  == INSTANCE ListTransfer
Refl  == INSTANCE Reflector
Dll   == INSTANCE Dlist
Route == INSTANCE Traceroute
Cook  == INSTANCE Cookies
Pass  == INSTANCE Passwd
Rel   == INSTANCE Relay

ASSUME LabsAssumption ==
  /\ Rsh!ConstantsOK /\ Echo!ConstantsOK /\ List!ConstantsOK /\ Refl!ConstantsOK
  /\ Dll!ConstantsOK /\ Route!ConstantsOK /\ Pass!ConstantsOK /\ Rel!ConstantsOK

rshVars   == <<tries, login, wrote, wire, left, child, got, told, acceptors, procs>>
echoVars  == <<waiting, es, peer, good, nread, ec, nsent, toServer, toClient, closed, result, odd>>
listVars  == <<sender, node, count, stream, expected, printed, uneven>>
reflVars  == <<sends, text, packet, stack, whole, judged>>
dllVars   == <<words, head, tail, next, prev, freed, step, picked, health, traversed>>
routeVars == <<hop, awaiting, answers, inbox, foreign, lines>>
cookVars  == <<cookies, cookie_count, cookie_buf, asked>>
passVars  == <<shadow, tool, console, cur, spoilt>>
relVars   == <<file, spc, gpc, kpc, toGateway, toSink, msg, shown>>
vars == <<program, passVars, relVars, rshVars, echoVars, listVars, reflVars, dllVars, routeVars, cookVars>>

Init ==
  /\ program \in {"rshd", "echo", "list", "reflector", "dlist", "traceroute", "cookies", "passwd", "relay"}
  /\ Rsh!Init /\ Echo!Init /\ List!Init /\ Refl!Init /\ Dll!Init /\ Route!Init /\ Cook!Init
  /\ Pass!Init /\ Rel!Init

Next ==
  /\ UNCHANGED program
  /\ IF program = "rshd"       THEN Rsh!Next   ELSE UNCHANGED rshVars
  /\ IF program = "echo"       THEN Echo!Next  ELSE UNCHANGED echoVars
  /\ IF program = "list"       THEN List!Next  ELSE UNCHANGED listVars
  /\ IF program = "reflector"  THEN Refl!Next  ELSE UNCHANGED reflVars
  /\ IF program = "dlist"      THEN Dll!Next   ELSE UNCHANGED dllVars
  /\ IF program = "traceroute" THEN Route!Next ELSE UNCHANGED routeVars
  /\ IF program = "cookies"    THEN Cook!Next  ELSE UNCHANGED cookVars
  /\ IF program = "passwd"     THEN Pass!Next  ELSE UNCHANGED passVars
  /\ IF program = "relay"      THEN Rel!Next   ELSE UNCHANGED relVars

Spec == Init /\ [][Next]_vars /\ Rsh!Fairness /\ Echo!Fairness

(* The properties of these modules, under the names they have there.       *)

(* rshd: every process is an acceptor, serves or has served.               *)
Processes == program = "rshd" => Rsh!Processes

(* rshd: whoever types is answered, with the exceptions named there.       *)
LoginAnswered == Rsh!LoginAnswered

(* lab11: when a client gets its text back.                                *)
EchoRight == program = "echo" => Echo!EchoRight

(* lab11: when a client comes to an end.                                   *)
Ends == Echo!Ends

(* lab04: which nodes of the list are printed.                             *)
PrintedOnce == program = "list" => List!PrintedOnce

(* lab04: when the checksum sees the dot of the reflector.                 *)
DotNoticed == program = "reflector" => Refl!DotNoticed

(* lab01: when test_dlist comes to its end, and with which words.          *)
ListRight == program = "dlist" => Dll!ListRight

(* lab07: which routers the lines of traceroute name.                      *)
RouteTrue == program = "traceroute" => Route!RouteTrue

(* lab02: the cookies are the pieces of the file.                          *)
CookieRight == program = "cookies" => Cook!CookieRight

(* lab06: what the file shadow holds, however invocations interleave.      *)
ShadowIntact == program = "passwd" => Pass!ShadowIntact

(* lab06: whom login lets in.                                              *)
LetIn == Pass!LetIn

(* lab08: what the sink of the relay accepts and prints.                   *)
DamageSeen == program = "relay" => Rel!DamageSeen

(* lab08: what the sink never rejects, and the CRC of negative chars.      *)
CrcRight == program = "relay" => Rel!CrcRight
=============================================================================
