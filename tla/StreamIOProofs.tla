--------------------------- MODULE StreamIOProofs ---------------------------
(* StreamIO for any number of calls, any sizes and any connection. *)
EXTENDS StreamIO, TLAPS

(* Start never goes down; as the library's induction is not available,     *)
(* each side's part of this grows with its calls.                          *)
Rising(n) == \A j, k \in 1 .. n : j <= k => Start[j] <= Start[k]

(* The inductive invariant. *)
IInv ==
  /\ TypeOK
  /\ InStep
  /\ Rising(wcall + 1) /\ Rising(rcall + 1)
  /\ wpc = "call" => wleft = 0
  /\ wpc = "failed" => wleft > 0
  /\ rpc = "call" => rleft = 0
  /\ rpc = "done" => rcall = Calls /\ rleft = 0
  /\ rpc = "short" => rleft > 0 /\ pipe = 0 /\ ~Writing /\ rcall > 0

(* What the assumption says of the constants, call by call. *)
LEMMA StartType ==
  /\ \A j \in 1 .. Calls : Size[j] \in Nat /\ Start[j + 1] = Start[j] + Size[j]
  /\ \A j \in 1 .. Calls + 1 : Start[j] \in Nat
  /\ Calls \in Nat
BY StreamAssumption

(* One more call, and Start still never goes down. *)
LEMMA RisingStep ==
  ASSUME NEW n \in 1 .. Calls, Rising(n)
  PROVE  Rising(n + 1)
<1>1. /\ n \in Nat /\ Start[n] \in Nat /\ Start[n + 1] \in Nat
      /\ Start[n] <= Start[n + 1]
  BY StartType
<1> SUFFICES ASSUME NEW j \in 1 .. n + 1, NEW k \in 1 .. n + 1, j <= k
             PROVE  Start[j] <= Start[k]
  BY DEF Rising
<1>2. Start[j] \in Nat /\ Start[k] \in Nat
  BY StartType
<1>3. CASE k <= n
  BY <1>1, <1>3 DEF Rising
<1>4. CASE k = n + 1 /\ j <= n
  <2>1. Start[j] <= Start[n]
    BY <1>1, <1>4 DEF Rising
  <2> QED
    BY <1>1, <1>2, <1>4, <2>1
<1>5. CASE k = n + 1 /\ j = n + 1
  BY <1>1, <1>5
<1> QED
  BY <1>1, <1>3, <1>4, <1>5

(* However writen() and readn() are cut up, the two sides stay in step.    *)
THEOREM Invariance == Spec => []IInv
<1>1. Init => IInv
  <2> SUFFICES ASSUME Init PROVE IInv
    OBVIOUS
  <2>1. Rising(1)
    BY StartType DEF Rising
  <2>2. Start[1] = 0 /\ Calls \in Nat /\ Capacity \in Nat
    BY StreamAssumption
  <2> QED
    BY <2>1, <2>2 DEF Init, IInv, TypeOK, InStep, Written, Consumed
<1>2. IInv /\ [Next]_vars => IInv'
  <2> SUFFICES ASSUME IInv, [Next]_vars PROVE IInv'
    OBVIOUS
  <2>1. /\ wcall \in Nat /\ wcall <= Calls /\ rcall \in Nat /\ rcall <= Calls
        /\ Calls \in Nat /\ Capacity \in Nat
        /\ Start[wcall + 1] \in Nat /\ Start[rcall + 1] \in Nat
        /\ wleft \in Nat /\ rleft \in Nat /\ pipe \in Nat
        /\ wcall > 0 => Size[wcall] \in Nat
        /\ rcall > 0 => Size[rcall] \in Nat
    <3>1. TypeOK
      BY DEF IInv
    <3>2. /\ wcall \in 0 .. Calls /\ rcall \in 0 .. Calls /\ Calls \in Nat /\ Capacity \in Nat
          /\ wleft \in Nat /\ rleft \in Nat /\ pipe \in Nat
      BY <3>1, StreamAssumption DEF TypeOK
    <3>. QED
      BY <3>2, StartType
  <2>2. CASE CallWriten
    <3>1. /\ wcall' = wcall + 1 /\ wleft' = Size[wcall + 1] /\ wpc' = "loop"
          /\ wcall + 1 \in 1 .. Calls /\ wleft = 0
      BY <2>1, <2>2 DEF CallWriten, IInv
    <3>2. /\ Size[wcall + 1] \in Nat
          /\ Start[wcall' + 1] = Start[wcall + 1] + Size[wcall + 1]
      BY <3>1, StartType
    <3>3. Rising(wcall' + 1)
      BY <3>1, RisingStep DEF IInv
    <3>4. TypeOK' /\ InStep'
      BY <2>1, <2>2, <3>1, <3>2 DEF CallWriten, readerVars, IInv, TypeOK, InStep,
           Written, Consumed
    <3> QED
      BY <2>2, <3>1, <3>3, <3>4 DEF CallWriten, readerVars, IInv, Rising, Writing
  <2>3. CASE Write
    <3>1. PICK n \in 1 .. wleft : pipe + n <= Capacity /\ pipe' = pipe + n /\ wleft' = wleft - n
      BY <2>3 DEF Write
    <3>2. TypeOK'
      BY <2>1, <2>3, <3>1 DEF Write, readerVars, IInv, TypeOK
    <3>3. InStep'
      BY <2>1, <2>3, <3>1 DEF Write, readerVars, IInv, InStep, Written, Consumed
    <3> QED
      BY <2>3, <3>2, <3>3 DEF Write, readerVars, IInv, Rising, Writing
  <2>4. CASE WriteFails
    BY <2>1, <2>4 DEF WriteFails, readerVars, IInv, TypeOK, InStep, Written, Consumed,
         Rising, Writing
  <2>5. CASE WritenReturns
    BY <2>1, <2>5 DEF WritenReturns, readerVars, IInv, TypeOK, InStep, Written, Consumed,
         Rising, Writing
  <2>6. CASE CloseWriter \/ KillWriter
    BY <2>1, <2>6 DEF CloseWriter, KillWriter, readerVars, IInv, TypeOK, InStep, Written,
         Consumed, Rising, Writing
  <2>7. CASE CallReadn
    <3>1. /\ rcall' = rcall + 1 /\ rleft' = Size[rcall + 1] /\ rpc' = "loop"
          /\ rcall + 1 \in 1 .. Calls /\ rleft = 0
      BY <2>1, <2>7 DEF CallReadn, IInv
    <3>2. /\ Size[rcall + 1] \in Nat
          /\ Start[rcall' + 1] = Start[rcall + 1] + Size[rcall + 1]
      BY <3>1, StartType
    <3>3. Rising(rcall' + 1)
      BY <3>1, RisingStep DEF IInv
    <3>4. TypeOK' /\ InStep'
      BY <2>1, <2>7, <3>1, <3>2 DEF CallReadn, writerVars, IInv, TypeOK, InStep,
           Written, Consumed
    <3> QED
      BY <2>7, <3>1, <3>3, <3>4 DEF CallReadn, writerVars, IInv, Rising
  <2>8. CASE Read
    <3>1. PICK n \in 1 .. rleft : n <= pipe /\ pipe' = pipe - n /\ rleft' = rleft - n
      BY <2>8 DEF Read
    <3>2. TypeOK'
      BY <2>1, <2>8, <3>1 DEF Read, writerVars, IInv, TypeOK
    <3>3. InStep'
      BY <2>1, <2>8, <3>1 DEF Read, writerVars, IInv, InStep, Written, Consumed
    <3> QED
      BY <2>8, <3>2, <3>3 DEF Read, writerVars, IInv, Rising
  <2>9. CASE EndOfFile
    <3>1. rcall > 0
      BY <2>1, <2>9 DEF EndOfFile, IInv, TypeOK
    <3> QED
      BY <2>1, <2>9, <3>1 DEF EndOfFile, writerVars, IInv, TypeOK, InStep, Written, Consumed,
           Rising, Writing
  <2>10. CASE ReadnReturns \/ KillReader
    BY <2>1, <2>10 DEF ReadnReturns, KillReader, Reading, writerVars, IInv, TypeOK, InStep,
         Written, Consumed, Rising, Writing
  <2>11. CASE UNCHANGED vars
    BY <2>11 DEF vars, IInv, TypeOK, InStep, Written, Consumed, Rising, Writing
  <2> QED
    BY <2>2, <2>3, <2>4, <2>5, <2>6, <2>7, <2>8, <2>9, <2>10, <2>11
       DEF Next, Writer, Reader
<1> QED
  BY <1>1, <1>2, PTL DEF Spec

(* Every variable keeps its type: no call transfers more than it was asked *)
(* for, and the connection never holds more than it can.                   *)
THEOREM TypeCorrect == Spec => []TypeOK
<1>1. IInv => TypeOK
  BY DEF IInv
<1> QED
  BY <1>1, Invariance, PTL

(* A length is never read from the middle of a text. *)
THEOREM StaysInStep == Spec => []InStep
<1>1. IInv => InStep
  BY DEF IInv
<1> QED
  BY <1>1, Invariance, PTL

(* A short readn() means that the writer stopped, and loses nothing that   *)
(* was written.                                                            *)
THEOREM ShortExplained == Spec => []ShortOnlyIfKilled
<1>1. IInv => ShortOnlyIfKilled
  <2> SUFFICES ASSUME IInv, rpc = "short"
               PROVE  ~Writing /\ Consumed = Written /\ wcall <= rcall
    BY DEF ShortOnlyIfKilled
  <2>1. /\ wcall \in 0 .. Calls /\ rcall \in 0 .. Calls /\ rleft > 0 /\ pipe = 0
        /\ wleft \in Nat /\ rleft \in Nat /\ ~Writing
        /\ wcall > 0 => wleft <= Size[wcall]
    BY DEF IInv, TypeOK
  <2>2. /\ Start[wcall + 1] \in Nat /\ Start[rcall + 1] \in Nat
        /\ wcall > 0 => Start[wcall] \in Nat /\ Size[wcall] \in Nat
                        /\ Start[wcall + 1] = Start[wcall] + Size[wcall]
    BY <2>1, StartType
  <2>3. Consumed = Written
    BY <2>1, <2>2 DEF IInv, InStep, Written, Consumed
  <2>4. ASSUME wcall > rcall PROVE FALSE
    <3>1. Start[wcall] <= Start[wcall + 1] - wleft
      BY <2>1, <2>2, <2>4
    <3>2. Start[rcall + 1] <= Start[wcall]
      BY <2>1, <2>4 DEF IInv, Rising
    <3> QED
      BY <2>1, <2>2, <2>3, <2>4, <3>1, <3>2 DEF Written, Consumed
  <2> QED
    BY <2>1, <2>3, <2>4
<1> QED
  BY <1>1, Invariance, PTL

(* A reader that got all its calls answered has read the whole stream. *)
THEOREM EverythingRead == Spec => []AllRead
<1>1. IInv => AllRead
  <2> SUFFICES ASSUME IInv, rpc = "done"
               PROVE  wpc # "failed" /\ Written = Start[Calls + 1] /\ pipe = 0
    BY DEF AllRead
  <2>1. /\ wcall \in 0 .. Calls /\ wleft \in Nat /\ pipe \in Nat
        /\ rcall = Calls /\ rleft = 0 /\ Calls \in Nat
    BY StartType DEF IInv, TypeOK
  <2>2. Start[wcall + 1] \in Nat /\ Start[Calls + 1] \in Nat
    BY <2>1, StartType
  <2>3. Start[wcall + 1] <= Start[Calls + 1]
    BY <2>1 DEF IInv, Rising
  <2>4. Start[Calls + 1] + pipe = Start[wcall + 1] - wleft
    BY <2>1, <2>2 DEF IInv, InStep, Written, Consumed
  <2>5. pipe = 0 /\ wleft = 0
    BY <2>1, <2>2, <2>3, <2>4
  <2> QED
    BY <2>1, <2>2, <2>4, <2>5 DEF IInv, Written
<1> QED
  BY <1>1, Invariance, PTL
=============================================================================
