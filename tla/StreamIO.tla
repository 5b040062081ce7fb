------------------------------ MODULE StreamIO ------------------------------
(***************************************************************************)
(* labs/lab02/writen.c and readn.c, the way the fortune programs use them: *)
(* one side calls writen() for a length and then for as many bytes, the    *)
(* other side calls readn() for the same sizes.  write() and read() may    *)
(* move fewer bytes than they were asked for.  A connection is a pipe of   *)
(* Capacity bytes; as bytes stay in order, counting them is enough.  A     *)
(* call interrupted by a signal moves nothing and is made again, which is  *)
(* a stuttering step.                                                      *)
(***************************************************************************)
EXTENDS Integers

CONSTANTS
  Calls,      \* number of calls of writen(), and of readn()
  Size,       \* Size[j]: bytes of the j-th call; the odd ones are lengths
  Start,      \* Start[j]: bytes before the j-th call
  Capacity,   \* bytes the connection holds
  MayDie      \* which sides may be killed

ASSUME StreamAssumption ==
  /\ Calls \in Nat \ {0}
  /\ Size \in [1 .. Calls -> Nat]
  /\ Start \in [1 .. Calls + 1 -> Nat]
  /\ Start[1] = 0 /\ \A j \in 1 .. Calls : Start[j + 1] = Start[j] + Size[j]
  /\ Capacity \in Nat \ {0}
  /\ MayDie \subseteq {"writer", "reader"}

VARIABLES
  wpc,      \* the writer: "call", "loop", "closed", "failed" or "killed"
  wcall,    \* how many writen() calls it has started
  wleft,    \* nleft in writen()
  rpc,      \* the reader: "call", "loop", "short", "done" or "gone"
  rcall,    \* how many readn() calls it has started
  rleft,    \* nleft in readn()
  pipe      \* bytes written and not yet read

vars == <<wpc, wcall, wleft, rpc, rcall, rleft, pipe>>
writerVars == <<wpc, wcall, wleft>>
readerVars == <<rpc, rcall, rleft>>

Init ==
  /\ wpc = "call" /\ wcall = 0 /\ wleft = 0
  /\ rpc = "call" /\ rcall = 0 /\ rleft = 0
  /\ pipe = 0

Reading == rpc \in {"call", "loop"}
Writing == wpc \in {"call", "loop"}

-----------------------------------------------------------------------------
(* The writer. *)

CallWriten ==
  /\ wpc = "call" /\ wcall < Calls
  /\ wcall' = wcall + 1 /\ wleft' = Size[wcall + 1]
  /\ wpc' = "loop"
  /\ UNCHANGED <<readerVars, pipe>>

(* There may be room even after the reader has closed. *)
Write ==
  /\ wpc = "loop" /\ wleft > 0
  /\ \E n \in 1 .. wleft :
       /\ pipe + n <= Capacity
       /\ pipe' = pipe + n /\ wleft' = wleft - n
  /\ UNCHANGED <<wpc, wcall, readerVars>>

WriteFails ==              \* ... but in the end writen() returns -1
  /\ wpc = "loop" /\ wleft > 0 /\ ~Reading
  /\ wpc' = "failed"
  /\ UNCHANGED <<wcall, wleft, readerVars, pipe>>

WritenReturns ==
  /\ wpc = "loop" /\ wleft = 0
  /\ wpc' = "call"
  /\ UNCHANGED <<wcall, wleft, readerVars, pipe>>

CloseWriter ==             \* after the last call
  /\ wpc = "call" /\ wcall = Calls
  /\ wpc' = "closed"
  /\ UNCHANGED <<wcall, wleft, readerVars, pipe>>

KillWriter ==
  /\ Writing /\ "writer" \in MayDie
  /\ wpc' = "killed"
  /\ UNCHANGED <<wcall, wleft, readerVars, pipe>>

-----------------------------------------------------------------------------
(* The reader. *)

CallReadn ==
  /\ rpc = "call" /\ rcall < Calls
  /\ rcall' = rcall + 1 /\ rleft' = Size[rcall + 1]
  /\ rpc' = "loop"
  /\ UNCHANGED <<writerVars, pipe>>

ReadTooMuch ==
  /\ rpc = "loop" /\ rleft > 0
  /\ \E n \in 1 .. pipe :
       /\ pipe' = pipe - n /\ rleft' = IF n > rleft THEN 0 ELSE rleft - n
  /\ UNCHANGED <<rpc, rcall, writerVars>>

Read ==
  /\ rpc = "loop" /\ rleft > 0
  /\ \E n \in 1 .. rleft :
       /\ n <= pipe
       /\ pipe' = pipe - n /\ rleft' = rleft - n
  /\ UNCHANGED <<rpc, rcall, writerVars>>

(* Slip: an empty connection is taken for a closed one. *)
EndOfFileEarly ==
  /\ rpc = "loop" /\ rleft > 0 /\ pipe = 0
  /\ rpc' = "short"
  /\ UNCHANGED <<rcall, rleft, writerVars, pipe>>

(* Slip: 0 is taken for a reason to try again. *)
EndOfFileRetries ==
  /\ rpc = "loop" /\ rleft > 0 /\ pipe = 0 /\ ~Writing
  /\ UNCHANGED vars

EndOfFile ==               \* read() returns 0: readn() returns n - nleft
  /\ rpc = "loop" /\ rleft > 0 /\ pipe = 0 /\ ~Writing
  /\ rpc' = "short"
  /\ UNCHANGED <<rcall, rleft, writerVars, pipe>>

ReadnReturns ==            \* n bytes
  /\ rpc = "loop" /\ rleft = 0
  /\ rpc' = IF rcall = Calls THEN "done" ELSE "call"
  /\ UNCHANGED <<rcall, rleft, writerVars, pipe>>

KillReader ==
  /\ Reading /\ "reader" \in MayDie
  /\ rpc' = "gone"
  /\ UNCHANGED <<rcall, rleft, writerVars, pipe>>

-----------------------------------------------------------------------------
Writer == CallWriten \/ Write \/ WriteFails \/ WritenReturns \/ CloseWriter
Reader == CallReadn \/ Read \/ EndOfFile \/ ReadnReturns

Next == Writer \/ Reader \/ KillWriter \/ KillReader

Spec == Init /\ [][Next]_vars

(* Both processes are scheduled; being killed is not a duty. *)
FairSpec == Spec /\ WF_vars(Writer) /\ WF_vars(Reader)

-----------------------------------------------------------------------------
(* Properties. *)

(* The variables keep their types: what is left of a call is never more    *)
(* than the call asked for nor less than nothing.                          *)
TypeOK ==
  /\ wpc \in {"call", "loop", "closed", "failed", "killed"}
  /\ wcall \in 0 .. Calls /\ wleft \in Nat
  /\ wcall = 0 => wleft = 0
  /\ wcall > 0 => wleft <= Size[wcall]
  /\ rpc \in {"call", "loop", "short", "done", "gone"}
  /\ rcall \in 0 .. Calls /\ rleft \in Nat
  /\ rcall = 0 => rleft = 0
  /\ rcall > 0 => rleft <= Size[rcall]
  /\ pipe \in 0 .. Capacity

Written  == Start[wcall + 1] - wleft
Consumed == Start[rcall + 1] - rleft

(* However the calls are cut up, the reader's place in the stream is the   *)
(* writer's less what is on the way: a length is never read from the       *)
(* middle of a text.                                                       *)
InStep == Consumed + pipe = Written

(* readn() returns fewer bytes than it was asked for only if the writer    *)
(* stopped in or before the matching call, and all it wrote has been read. *)
ShortOnlyIfKilled ==
  rpc = "short" => ~Writing /\ Consumed = Written /\ wcall <= rcall

(* A reader that finishes has read all that there was. *)
AllRead == rpc = "done" => wpc # "failed" /\ Written = Start[Calls + 1] /\ pipe = 0

(* Both sides get through all their calls unless one is killed, even over  *)
(* a connection that holds less than one length.                           *)
GetsThrough ==
  <>(wpc = "killed" \/ rpc = "gone" \/ (rpc = "done" /\ wpc = "closed"))

(* Whoever is killed, the other side does not hang.                        *)
NobodyHangs == <>(~Reading /\ ~Writing)
=============================================================================
