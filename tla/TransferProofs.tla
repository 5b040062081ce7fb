--------------------------- MODULE TransferProofs ---------------------------
(***************************************************************************)
(* Theorems about Transfer for any number of sources, segments and faults. *)
(* Type correctness, StoredOnce and RunsOfSegments need no hypothesis.     *)
(* The other results are about sources that run one after the other over a *)
(* network that loses and damages datagrams but does not duplicate them,   *)
(* and users who do not kill a running source: hypothesis Orderly.         *)
(***************************************************************************)
EXTENDS Transfer, TLAPS, SequenceTheorems

Orderly == /\ ~Concurrent
           /\ MaxFaults["dup"] = 0
           /\ MaxFaults["kill"] = 0

-----------------------------------------------------------------------------
(* What the operators return. *)

(* The number of a final segment is a number above 1.                      *)
LEMMA LastNat == LAST \in Nat /\ LAST > 1
BY DEF LAST

(* A segment of a file is a well-formed piece of data.                     *)
LEMMA SegmentType ==
  ASSUME NEW p \in Source, NEW k \in 1 .. Count[p]
  PROVE  Segment(p, k) \in DataType
<1>1. Count[p] \in 1 .. (LAST - 1)
  BY TransferAssumption
<1>2. k \in 1 .. LAST /\ k <= Count[p]
  BY <1>1, LastNat
<1>3. Segment(p, k) \in [src : Source, pos : 1 .. LAST, body : {"whole", "marred"}]
  BY <1>2 DEF Segment
<1>4. Segment(p, k).src = p /\ Segment(p, k).pos = k
  BY DEF Segment
<1>. QED
  BY <1>2, <1>3, <1>4 DEF DataType

(* What a source sends is a well-formed datagram.                          *)
LEMMA DatagramTyped ==
  ASSUME NEW p \in Source, NEW k \in 1 .. Count[p]
  PROVE  Datagram(p, k) \in DatagramType
<1>1. SeqNo(p, k) \in 1 .. LAST
  BY TransferAssumption, LastNat DEF SeqNo
<1>. QED
  BY <1>1, SegmentType DEF Datagram, DatagramType

(* Appending the next segment to a prefix of a file gives the next prefix. *)
LEMMA PrefixAppend ==
  ASSUME NEW p \in Source, NEW n \in Nat
  PROVE  Append(Prefix(p, n), Segment(p, n + 1)) = Prefix(p, n + 1)
<1>1. Len(Prefix(p, n)) = n /\ Prefix(p, n) \in Seq({Segment(p, k) : k \in 1 .. n})
  BY DEF Prefix
<1>. QED
  BY <1>1 DEF Prefix

(* Before its first segment a file is empty.                               *)
LEMMA PrefixZero == ASSUME NEW p \in Source PROVE Prefix(p, 0) = <<>>
BY DEF Prefix

(* Removing an element of a queue leaves a queue.                          *)
LEMMA WithoutType ==
  ASSUME NEW S, NEW s \in Seq(S), NEW j \in 1 .. Len(s)
  PROVE  Without(s, j) \in Seq(S)
<1>1. SubSeq(s, 1, j - 1) \in Seq(S) /\ SubSeq(s, j + 1, Len(s)) \in Seq(S)
  BY SubSeqProperties
<1>. QED
  BY <1>1, ConcatProperties DEF Without

(* A queue of one element is empty without it.                             *)
LEMMA TailOnly ==
  ASSUME NEW S, NEW s \in Seq(S), Len(s) = 1
  PROVE  s # <<>> /\ Tail(s) = <<>> /\ Head(s) = s[1] /\ DOMAIN s = {1}
<1>1. s # <<>>
  BY EmptySeq
<1>2. Tail(s) = SubSeq(s, 2, 1)
  BY <1>1, TailIsSubSeq
<1>3. SubSeq(s, 2, 1) = <<>>
  BY SubSeqEmpty
<1>. QED
  BY <1>1, <1>2, <1>3

(* Removing the only element of a queue empties it.                        *)
LEMMA WithoutOnly ==
  ASSUME NEW S, NEW s \in Seq(S), Len(s) = 1
  PROVE  Without(s, 1) = <<>>
BY DEF Without

-----------------------------------------------------------------------------
(* Type correctness. *)

(* The initial state is well typed.                                        *)
LEMMA InitType == Init => TypeOK
<1>. SUFFICES ASSUME Init PROVE TypeOK
  OBVIOUS
<1>1. \A p \in Source : Count[p] \in Nat
  BY TransferAssumption, LastNat
<1>2. MaxFaults \in [FaultKind -> Nat]
  BY TransferAssumption
<1>. QED
  BY <1>1, <1>2, LastNat DEF Init, TypeOK, Active

(* A fault of the environment is counted within its bound.                 *)
LEMMA FaultType ==
  ASSUME TypeOK, NEW f \in FaultKind, Fault(f)
  PROVE  faults' \in [FaultKind -> Nat] /\ \A g \in FaultKind : faults'[g] <= MaxFaults[g]
<1>1. faults[f] \in Nat /\ faults[f] < MaxFaults[f] /\ MaxFaults[f] \in Nat
  BY TransferAssumption DEF TypeOK, Fault
<1>2. faults' = [faults EXCEPT ![f] = faults[f] + 1]
  BY DEF Fault
<1>3. faults \in [FaultKind -> Nat] /\ \A g \in FaultKind : faults[g] <= MaxFaults[g]
  BY DEF TypeOK
<1>4. faults' \in [FaultKind -> Nat]
  BY <1>1, <1>2, <1>3
<1>5. ASSUME NEW g \in FaultKind PROVE faults'[g] <= MaxFaults[g]
  BY <1>1, <1>2, <1>3
<1>. QED
  BY <1>4, <1>5

(* The steps of the sources preserve the types.                            *)
LEMMA SourceType ==
  ASSUME TypeOK, NEW p \in Source, Start(p) \/ SendSegment(p) \/ RecvReply(p)
  PROVE  TypeOK'
<1>. USE DEF TypeOK, Active
<1>0. Count[p] \in Nat /\ 1 <= Count[p]
  BY TransferAssumption, LastNat
<1>1. CASE Start(p)
  BY <1>0, <1>1 DEF Start, netVars, sinkVars
<1>2. CASE SendSegment(p)
  <2>1. i[p] + 1 \in 1 .. Count[p]
    BY <1>0, <1>2 DEF SendSegment
  <2>2. toSink' \in Seq(DatagramType)
    BY <2>1, <1>2, DatagramTyped DEF SendSegment
  <2>. QED
    BY <1>2, <2>2 DEF SendSegment, sinkVars
<1>3. CASE RecvReply(p)
  BY <1>0, <1>3 DEF RecvReply, sinkVars
<1>. QED
  BY <1>1, <1>2, <1>3

(* The steps of the sink preserve the types.                               *)
LEMMA SinkType ==
  ASSUME TypeOK, SinkRecv \/ WriteFile
  PROVE  TypeOK'
<1>. USE DEF TypeOK, Active
<1>1. CASE SinkRecv
  <2>. DEFINE d == Head(toSink)
  <2>1. d \in DatagramType /\ Tail(toSink) \in Seq(DatagramType)
    BY <1>1 DEF SinkRecv
  <2>2. d.seq \in 0 .. LAST /\ d.data \in DataType /\ d.data.src \in Source
    <3>. HIDE DEF TypeOK, Active, d
    <3>1. d.seq \in 1 .. LAST /\ d.data \in DataType
      BY <2>1 DEF DatagramType
    <3>2. d.data.src \in Source
      BY <3>1 DEF DataType
    <3>3. \A n \in 1 .. LAST : n \in 0 .. LAST
      BY LastNat
    <3>. QED
      BY <3>1, <3>2, <3>3
  <2>3. Ignore(d) \/ Accept(d) \/ Refuse(d) \/ Overrun(d)
    <3>. HIDE DEF TypeOK, Active
    <3>. QED
      BY <1>1, Zenon DEF SinkRecv
  <2>4. ASSUME NEW r \in ReplyType, NEW p \in Source, Send(p, r)
        PROVE  toSource' \in [Source -> Seq(ReplyType)]
    BY <2>4 DEF Send
  <2>5. Reply("ack") \in ReplyType /\ Reply("nack") \in ReplyType
    BY DEF Reply, ReplyType
  <2>. HIDE DEF d
  <2>6. CASE Ignore(d)
    BY <2>1, <2>6 DEF Ignore, Receives, sourceVars, sinkVars, d
  <2>7. CASE Accept(d)
    <3>1. toSource' \in [Source -> Seq(ReplyType)]
      BY <2>2, <2>4, <2>5, <2>7 DEF Accept
    <3>. QED
      BY <2>1, <2>2, <2>7, <3>1 DEF Accept, Receives, sourceVars, d
  <2>8. CASE Refuse(d)
    <3>1. toSource' \in [Source -> Seq(ReplyType)]
      BY <2>2, <2>4, <2>5, <2>8 DEF Refuse
    <3>. QED
      BY <2>1, <2>2, <2>8, <3>1 DEF Refuse, Receives, sourceVars, d
  <2>9. CASE Overrun(d)
    BY <2>1, <2>9 DEF Overrun, Receives, sourceVars, d
  <2>. QED
    BY <2>3, <2>6, <2>7, <2>8, <2>9
<1>2. CASE WriteFile
  BY <1>2, LastNat DEF WriteFile, sourceVars, netVars
<1>. QED
  BY <1>1, <1>2

(* So do the network and the users.                                        *)
LEMMA EnvironmentType ==
  ASSUME TypeOK,
         \/ Corrupt \/ LoseData \/ DuplicateData \/ RemoveFile
         \/ \E p \in Source : LoseReply(p) \/ DuplicateReply(p) \/ Kill(p)
  PROVE  TypeOK'
<1>. USE DEF TypeOK, Active
<1>1. CASE Corrupt
  <2>1. faults' \in [FaultKind -> Nat] /\ \A g \in FaultKind : faults'[g] <= MaxFaults[g]
    BY <1>1, FaultType DEF Corrupt, FaultKind
  <2>2. PICK j \in 1 .. Len(toSink) : toSink' = [toSink EXCEPT ![j].crc = "differs"]
    BY <1>1 DEF Corrupt
  <2>3. toSink[j] \in DatagramType
    BY <2>2
  <2>5. [toSink[j] EXCEPT !.crc = "differs"] \in DatagramType
    BY <2>3 DEF DatagramType
  <2>4. toSink' \in Seq(DatagramType)
    BY <2>2, <2>5
  <2>. QED
    BY <1>1, <2>1, <2>4 DEF Corrupt, sourceVars, sinkVars
<1>2. CASE LoseData
  <2>1. faults' \in [FaultKind -> Nat] /\ \A g \in FaultKind : faults'[g] <= MaxFaults[g]
    BY <1>2, FaultType DEF LoseData, FaultKind
  <2>2. toSink' \in Seq(DatagramType)
    BY <1>2, WithoutType DEF LoseData
  <2>. QED
    BY <1>2, <2>1, <2>2 DEF LoseData, sourceVars, sinkVars
<1>3. CASE DuplicateData
  <2>1. faults' \in [FaultKind -> Nat] /\ \A g \in FaultKind : faults'[g] <= MaxFaults[g]
    BY <1>3, FaultType DEF DuplicateData, FaultKind
  <2>. QED
    BY <1>3, <2>1 DEF DuplicateData, sourceVars, sinkVars
<1>4. CASE RemoveFile
  BY <1>4 DEF RemoveFile, sourceVars, netVars
<1>5. ASSUME NEW p \in Source, LoseReply(p) PROVE TypeOK'
  <2>1. faults' \in [FaultKind -> Nat] /\ \A g \in FaultKind : faults'[g] <= MaxFaults[g]
    BY <1>5, FaultType DEF LoseReply, FaultKind
  <2>. QED
    BY <1>5, <2>1 DEF LoseReply, sourceVars, sinkVars
<1>6. ASSUME NEW p \in Source, DuplicateReply(p) PROVE TypeOK'
  <2>1. faults' \in [FaultKind -> Nat] /\ \A g \in FaultKind : faults'[g] <= MaxFaults[g]
    BY <1>6, FaultType DEF DuplicateReply, FaultKind
  <2>. QED
    BY <1>6, <2>1 DEF DuplicateReply, sourceVars, sinkVars
<1>7. ASSUME NEW p \in Source, Kill(p) PROVE TypeOK'
  <2>1. faults' \in [FaultKind -> Nat] /\ \A g \in FaultKind : faults'[g] <= MaxFaults[g]
    BY <1>7, FaultType DEF Kill, FaultKind
  <2>. QED
    BY <1>7, <2>1 DEF Kill, sinkVars
<1>. QED
  BY <1>1, <1>2, <1>3, <1>4, <1>5, <1>6, <1>7

(* So does every step.                                                     *)
LEMMA TypeStep == TypeOK /\ [Next]_vars => TypeOK'
<1>1. TypeOK /\ Next => TypeOK'
  BY SourceType, SinkType, EnvironmentType DEF Next
<1>2. TypeOK /\ UNCHANGED vars => TypeOK'
  BY DEF TypeOK, Active, vars
<1>. QED
  BY <1>1, <1>2

(* Every variable keeps its type, whatever the network and the users do: a *)
(* source never has more segments acknowledged than its file has.          *)
THEOREM TypeCorrect == Spec => []TypeOK
BY InitType, TypeStep, PTL DEF Spec

-----------------------------------------------------------------------------
(* The inductive invariant.  At most one source runs, and between it and   *)
(* the sink there is at most one message.  What matters is whether the     *)
(* sink has taken the segment the source is working on: Before says no,    *)
(* After says yes, and what is under way decides which of them holds.      *)

Before(p) ==
  \/ rpc # "write" /\ buf = Prefix(p, i[p]) /\ seq <= i[p] + 1
  \/ rpc = "write" /\ i[p] = 0

After(p) ==
  \/ rpc # "write" /\ i[p] + 1 < Count[p] /\ buf = Prefix(p, i[p] + 1) /\ seq = i[p] + 1
  \/ rpc = "write" /\ i[p] + 1 = Count[p] /\ buf = Copy(p)
  \/ rpc # "write" /\ i[p] + 1 = Count[p] /\ buf = <<>> /\ seq = 0

OneAtATime == \A p, q \in Source : Active(p) /\ Active(q) => p = q

OneMessage ==
  /\ toSink # <<>> =>
       /\ Len(toSink) = 1
       /\ \E p \in Source :
            /\ spc[p] = "waiting"
            /\ toSink[1].data = Segment(p, i[p] + 1)
            /\ toSink[1].seq = SeqNo(p, i[p] + 1)
  /\ \A p \in Source : toSource[p] # <<>> =>
       spc[p] = "waiting" /\ toSink = <<>> /\ Len(toSource[p]) = 1

Phase ==
  \A p \in Source : Active(p) =>
    /\ Before(p) \/ After(p)
    /\ spc[p] = "sending" \/ toSink # <<>> => Before(p)
    /\ toSource[p] # <<>> =>
         IF toSource[p][1].text = "ack" THEN After(p) ELSE Before(p)

SinkState ==
  /\ (\A p \in Source : ~Active(p)) /\ rpc # "write" => buf = <<>> /\ seq <= 1
  /\ rpc = "write" => seq = LAST /\ \E p \in Source : buf = Copy(p)

(* What is in new_file is what one source sent.                            *)
OneCopy == newFile # <<>> => \E p \in Source : newFile = Copy(p)

IInv == /\ TypeOK
        /\ OneAtATime
        /\ OneMessage
        /\ Phase
        /\ SinkState
        /\ StallCause
        /\ OneCopy

(* A file has at least one segment and fewer than the final number.        *)
LEMMA CountRange ==
  \A p \in Source : Count[p] \in Nat /\ 1 <= Count[p] /\ Count[p] < LAST
BY TransferAssumption, LastNat

(* Only the last segment carries the final number.                         *)
LEMMA SeqNoOf ==
  ASSUME NEW p \in Source, NEW k \in 1 .. Count[p]
  PROVE  SeqNo(p, k) = LAST <=> k = Count[p]
BY CountRange, LastNat DEF SeqNo

(* The invariant holds at first.                                           *)
LEMMA InitInv == Init => IInv
<1>. SUFFICES ASSUME Init PROVE IInv
  OBVIOUS
<1>1. TypeOK
  BY InitType
<1>2. \A p \in Source : ~Active(p)
  BY DEF Init, Active
<1>. QED
  BY <1>1, <1>2 DEF Init, IInv, OneAtATime, OneMessage, Phase, SinkState,
                    StallCause, Excused, Stuck, OneCopy

(* A new source finds an empty sink, or one that is about to be empty.     *)
LEMMA StartInv ==
  ASSUME Orderly, IInv, NEW p \in Source, Start(p)
  PROVE  IInv'
<1>. USE DEF IInv
<1>1. TypeOK'
  BY SourceType
<1>2. \A q \in Source : ~Active(q)
  BY DEF Start, Orderly
<1>3. \A q \in Source : Active(q)' <=> q = p
  BY <1>2 DEF Start, Active, TypeOK
<1>4. toSink = <<>> /\ \A q \in Source : toSource[q] = <<>>
  BY <1>2 DEF OneMessage, Active
<1>5. UNCHANGED <<i, toSink, toSource, rpc, seq, buf, newFile, faults>>
  BY DEF Start, netVars, sinkVars
<1>6. Before(p)'
  BY <1>2, <1>5, PrefixZero DEF Before, SinkState, Start, TypeOK, Prefix
<1>7. spc'[p] = "sending"
  BY DEF Start, TypeOK
<1>8. OneAtATime' /\ OneMessage'
  BY <1>3, <1>4, <1>5 DEF OneAtATime, OneMessage
<1>9. Phase'
  BY <1>3, <1>4, <1>5, <1>6 DEF Phase
<1>10. SinkState'
  BY <1>3, <1>5 DEF SinkState, Copy, Prefix
<1>11. StallCause'
  BY <1>3, <1>7 DEF StallCause, Excused, Stuck, Active
<1>12. OneCopy'
  BY <1>5 DEF OneCopy, Copy, Prefix
<1>. QED
  BY <1>1, <1>8, <1>9, <1>10, <1>11, <1>12

(* Sending does not change what the sink has.                              *)
LEMMA SendSegmentInv ==
  ASSUME Orderly, IInv, NEW p \in Source, SendSegment(p)
  PROVE  IInv'
<1>. USE DEF IInv
<1>1. TypeOK'
  BY SourceType
<1>2. Active(p) /\ \A q \in Source : Active(q) => q = p
  BY DEF SendSegment, Active, OneAtATime
<1>3. \A q \in Source : Active(q)' <=> q = p
  BY <1>2 DEF SendSegment, Active, TypeOK
<1>4. toSink = <<>> /\ \A q \in Source : toSource[q] = <<>>
  BY <1>2 DEF OneMessage, Active, SendSegment
<1>5. UNCHANGED <<i, toSource, rpc, seq, buf, newFile, faults>>
  BY DEF SendSegment, sinkVars
<1>6. spc'[p] = "waiting" /\ toSink' = <<Datagram(p, i[p] + 1)>>
  BY <1>4 DEF SendSegment, TypeOK
<1>7. Before(p)'
  BY <1>2, <1>5 DEF Phase, Before, SendSegment
<1>8. OneAtATime'
  BY <1>3 DEF OneAtATime
<1>9. OneMessage'
  BY <1>4, <1>5, <1>6 DEF OneMessage, Datagram
<1>10. Phase'
  BY <1>3, <1>4, <1>5, <1>7 DEF Phase
<1>11. SinkState'
  BY <1>3, <1>5 DEF SinkState
<1>12. StallCause'
  <2>1. DOMAIN toSink' = {1} /\ toSink'[1].data.src = p
    BY <1>6 DEF Datagram, Segment
  <2>. QED
    BY <1>3, <2>1 DEF StallCause, Excused, Stuck, Active
<1>13. OneCopy'
  BY <1>5 DEF OneCopy
<1>. QED
  BY <1>1, <1>8, <1>9, <1>10, <1>11, <1>12, <1>13

(* An ack moves the source to where the sink is, a nack leaves both.       *)
LEMMA RecvReplyInv ==
  ASSUME Orderly, IInv, NEW p \in Source, RecvReply(p)
  PROVE  IInv'
<1>. USE DEF IInv
<1>1. TypeOK'
  BY SourceType
<1>2. Active(p) /\ \A q \in Source : Active(q) => q = p
  BY DEF RecvReply, Active, OneAtATime
<1>3. toSink = <<>> /\ Len(toSource[p]) = 1 /\ toSource[p] \in Seq(ReplyType)
  BY DEF RecvReply, OneMessage, TypeOK
<1>4. \A q \in Source : toSource[q] # <<>> => q = p
  BY <1>2 DEF OneMessage, Active
<1>5. UNCHANGED <<toSink, rpc, seq, buf, newFile, faults>>
  BY DEF RecvReply, sinkVars
<1>6. toSource'[p] = <<>>
  <2>1. Tail(toSource[p]) = <<>>
    BY <1>3, TailOnly
  <2>. QED
    BY <2>1 DEF RecvReply, TypeOK
<1>7. \A q \in Source : toSource'[q] = <<>>
  BY <1>4, <1>6 DEF RecvReply, TypeOK
<1>8. \A q \in Source : spc'[q] # "waiting"
  BY <1>2 DEF RecvReply, TypeOK, Active
<1>9. \A q \in Source : Active(q)' => q = p
  BY <1>2 DEF RecvReply, TypeOK, Active
<1>10. OneAtATime' /\ OneMessage'
  BY <1>3, <1>5, <1>7, <1>9 DEF OneAtATime, OneMessage
<1>11. StallCause' /\ OneCopy'
  BY <1>5, <1>8 DEF StallCause, Excused, Stuck, OneCopy
<1>12. Count[p] \in Nat /\ i[p] \in Nat /\ i[p] < Count[p]
  BY <1>2, CountRange DEF TypeOK
<1>13. Phase' /\ SinkState'
  <2>1. CASE toSource[p][1].text # "ack"
    <3>1. i' = i /\ Active(p)'
      BY <1>3, <2>1 DEF RecvReply, TypeOK, Active
    <3>2. Before(p)
      BY <1>2, <1>3, <2>1 DEF Phase
    <3>3. Before(p)'
      BY <1>5, <3>1, <3>2 DEF Before
    <3>4. Phase'
      BY <1>7, <1>9, <3>3 DEF Phase
    <3>5. SinkState'
      BY <1>5, <3>1 DEF SinkState
    <3>. QED
      BY <3>4, <3>5
  <2>2. CASE toSource[p][1].text = "ack" /\ i[p] + 1 < Count[p]
    <3>1. i'[p] = i[p] + 1 /\ Active(p)'
      BY <1>3, <2>2 DEF RecvReply, TypeOK, Active
    <3>2. After(p)
      BY <1>2, <1>3, <2>2 DEF Phase
    <3>3. rpc # "write" /\ buf = Prefix(p, i[p] + 1) /\ seq = i[p] + 1
      BY <1>12, <2>2, <3>2 DEF After
    <3>4. Before(p)'
      BY <1>5, <1>12, <3>1, <3>3 DEF Before, Prefix, Segment
    <3>5. Phase'
      BY <1>7, <1>9, <3>4 DEF Phase
    <3>6. SinkState'
      BY <1>5, <3>1 DEF SinkState
    <3>. QED
      BY <3>5, <3>6
  <2>3. CASE toSource[p][1].text = "ack" /\ i[p] + 1 = Count[p]
    <3>1. \A q \in Source : ~Active(q)'
      BY <1>3, <1>9, <2>3 DEF RecvReply, TypeOK, Active
    <3>2. After(p)
      BY <1>2, <1>3, <2>3 DEF Phase
    <3>3. rpc # "write" => buf = <<>> /\ seq <= 1
      BY <1>12, <2>3, <3>2 DEF After
    <3>. QED
      BY <1>5, <3>1, <3>3 DEF Phase, SinkState
  <2>. QED
    BY <1>12, <2>1, <2>2, <2>3
<1>. QED
  BY <1>1, <1>10, <1>11, <1>13

(* What the sink finds when it takes a datagram.                           *)
LEMMA SinkReceives ==
  ASSUME IInv, toSink # <<>>, rpc = "recv"
  PROVE  \E p \in Source :
           /\ spc[p] = "waiting"
           /\ \A q \in Source : Active(q) <=> q = p
           /\ \A q \in Source : toSource[q] = <<>>
           /\ Tail(toSink) = <<>>
           /\ Head(toSink).data = Segment(p, i[p] + 1)
           /\ Head(toSink).data.src = p
           /\ Head(toSink).seq = SeqNo(p, i[p] + 1)
           /\ i[p] \in Nat /\ i[p] + 1 \in 1 .. Count[p]
           /\ buf = Prefix(p, i[p]) /\ seq <= i[p] + 1
<1>. USE DEF IInv
<1>1. Len(toSink) = 1 /\ toSink \in Seq(DatagramType)
  BY DEF OneMessage, TypeOK
<1>2. PICK p \in Source : /\ spc[p] = "waiting"
                         /\ toSink[1].data = Segment(p, i[p] + 1)
                         /\ toSink[1].seq = SeqNo(p, i[p] + 1)
  BY DEF OneMessage
<1>3. Tail(toSink) = <<>> /\ Head(toSink) = toSink[1]
  BY <1>1, TailOnly
<1>4. Active(p) /\ \A q \in Source : Active(q) <=> q = p
  BY <1>2 DEF OneAtATime, Active
<1>5. \A q \in Source : toSource[q] = <<>>
  BY DEF OneMessage
<1>6. i[p] \in Nat /\ i[p] + 1 \in 1 .. Count[p]
  BY <1>4, CountRange DEF TypeOK
<1>7. buf = Prefix(p, i[p]) /\ seq <= i[p] + 1
  BY <1>4 DEF Phase, Before
<1>8. Segment(p, i[p] + 1).src = p
  BY DEF Segment
<1>. QED
  BY <1>2, <1>3, <1>4, <1>5, <1>6, <1>7, <1>8

(* The sink ignores, takes or refuses the one datagram, or dies of it.     *)
LEMMA SinkRecvInv ==
  ASSUME Orderly, IInv, SinkRecv
  PROVE  IInv'
<1>. USE DEF IInv
<1>1. TypeOK'
  BY SinkType
<1>. DEFINE d == Head(toSink)
<1>2. rpc = "recv" /\ toSink # <<>> /\ toSink' = Tail(toSink)
      /\ UNCHANGED <<spc, i, newFile, faults>>
  BY DEF SinkRecv, Ignore, Accept, Refuse, Overrun, Receives, sourceVars, sinkVars
<1>3. PICK p \in Source :
           /\ spc[p] = "waiting"
           /\ \A q \in Source : Active(q) <=> q = p
           /\ \A q \in Source : toSource[q] = <<>>
           /\ Tail(toSink) = <<>>
           /\ d.data = Segment(p, i[p] + 1)
           /\ d.data.src = p
           /\ d.seq = SeqNo(p, i[p] + 1)
           /\ i[p] \in Nat /\ i[p] + 1 \in 1 .. Count[p]
           /\ buf = Prefix(p, i[p]) /\ seq <= i[p] + 1
  BY <1>2, SinkReceives
<1>4. \A q \in Source : Active(q)' <=> q = p
  BY <1>2, <1>3 DEF Active
<1>5. OneAtATime' /\ OneCopy'
  BY <1>2, <1>4 DEF OneAtATime, OneCopy
<1>6. toSink' = <<>>
  BY <1>2, <1>3
<1>7. Count[p] \in Nat /\ Count[p] < LAST /\ seq \in Nat
  BY CountRange, LastNat DEF TypeOK
<1>8. d.seq = LAST <=> i[p] + 1 = Count[p]
  BY <1>3, SeqNoOf
<1>9. i[p] + 1 < Count[p] => d.seq = i[p] + 1
  BY <1>3, <1>7 DEF SeqNo
<1>10. ASSUME NEW r \in ReplyType, Send(p, r)
       PROVE  /\ \A q \in Source : q # p => toSource'[q] = <<>>
              /\ toSource'[p] = <<r>>
              /\ OneMessage'
  <2>1. toSource' = [toSource EXCEPT ![p] = Append(<<>>, r)]
    BY <1>3, <1>10 DEF Send
  <2>2. Append(<<>>, r) = <<r>> /\ Len(<<r>>) = 1
    OBVIOUS
  <2>3. /\ \A q \in Source : q # p => toSource'[q] = <<>>
        /\ toSource'[p] = <<r>>
    BY <1>3, <2>1, <2>2 DEF TypeOK
  <2>. QED
    BY <1>2, <1>3, <1>6, <2>2, <2>3 DEF OneMessage
<1>11. Reply("ack") \in ReplyType /\ Reply("nack") \in ReplyType
       /\ Reply("ack").text = "ack" /\ Reply("nack").text = "nack"
  BY DEF Reply, ReplyType
<1>. HIDE DEF d
<1>12. ASSUME NEW r, toSource'[p] = <<r>>, NEW q \in Source
       PROVE  ~Stuck(q)'
  <2>1. <<r>> # <<>>
    OBVIOUS
  <2>2. CASE q = p
    BY <1>12, <2>1, <2>2 DEF Stuck
  <2>3. CASE q # p
    BY <1>4, <2>3 DEF Stuck, Active
  <2>. QED
    BY <2>2, <2>3
<1>13. CASE Ignore(d)
  <2>1. UNCHANGED <<toSource, rpc, seq, buf>>
    BY <1>13 DEF Ignore, sinkVars
  <2>2. seq = i[p] + 1
    BY <1>3, <1>7, <1>8, <1>9, <1>13, LastNat DEF Ignore
  <2>3. Before(p)'
    BY <1>2, <1>3, <2>1 DEF Before, Prefix, Segment
  <2>4. OneMessage'
    BY <1>3, <1>6, <2>1 DEF OneMessage
  <2>5. Phase'
    BY <1>2, <1>3, <1>4, <1>6, <2>1, <2>3 DEF Phase
  <2>6. SinkState'
    BY <1>2, <1>4, <2>1 DEF SinkState
  <2>7. StallCause'
    BY <1>2, <1>3, <1>4, <2>1, <2>2 DEF StallCause, Excused, Stuck, Active
  <2>. QED
    BY <1>1, <1>5, <2>4, <2>5, <2>6, <2>7
<1>14. CASE Accept(d)
  <2>1. /\ seq' = d.seq
        /\ buf' = Append(buf, d.data)
        /\ Send(p, Reply("ack"))
        /\ rpc' = IF d.seq = LAST THEN "write" ELSE "recv"
    BY <1>3, <1>14 DEF Accept
  <2>2. buf' = Prefix(p, i[p] + 1)
    BY <1>3, <2>1, PrefixAppend
  <2>3. OneMessage' /\ toSource'[p] = <<Reply("ack")>>
        /\ \A q \in Source : q # p => toSource'[q] = <<>>
    BY <1>10, <1>11, <2>1
  <2>4. After(p)'
    BY <1>2, <1>3, <1>7, <1>8, <1>9, <2>1, <2>2 DEF After, Copy, Prefix, Segment
  <2>5. Phase'
    BY <1>2, <1>3, <1>4, <1>6, <1>11, <2>3, <2>4 DEF Phase
  <2>6. SinkState'
    BY <1>3, <1>4, <1>8, <2>1, <2>2 DEF SinkState, Copy, Prefix, Segment
  <2>7. StallCause'
    BY <1>12, <2>3 DEF StallCause, Excused
  <2>. QED
    BY <1>1, <1>5, <2>3, <2>5, <2>6, <2>7
<1>15. CASE Refuse(d)
  <2>1. /\ seq' = IF d.seq = LAST THEN 0 ELSE d.seq
        /\ Send(p, Reply("nack"))
        /\ UNCHANGED <<rpc, buf>>
    BY <1>3, <1>15 DEF Refuse
  <2>2. OneMessage' /\ toSource'[p] = <<Reply("nack")>>
        /\ \A q \in Source : q # p => toSource'[q] = <<>>
    BY <1>10, <1>11, <2>1
  <2>3. seq' <= i[p] + 1
    BY <1>3, <1>7, <1>8, <1>9, <2>1
  <2>4. Before(p)'
    BY <1>2, <1>3, <2>1, <2>3 DEF Before, Prefix, Segment
  <2>5. Phase'
    BY <1>2, <1>3, <1>4, <1>6, <1>11, <2>2, <2>4 DEF Phase
  <2>6. SinkState'
    BY <1>2, <1>4, <2>1 DEF SinkState
  <2>7. StallCause'
    BY <1>12, <2>2 DEF StallCause, Excused
  <2>. QED
    BY <1>1, <1>5, <2>2, <2>5, <2>6, <2>7
<1>16. CASE Overrun(d)
  <2>1. rpc' = "crashed" /\ UNCHANGED <<toSource, seq, buf>>
    BY <1>16 DEF Overrun
  <2>2. Before(p)'
    BY <1>2, <1>3, <2>1 DEF Before, Prefix, Segment
  <2>3. OneMessage'
    BY <1>3, <1>6, <2>1 DEF OneMessage
  <2>4. Phase'
    BY <1>2, <1>3, <1>4, <1>6, <2>1, <2>2 DEF Phase
  <2>5. SinkState'
    BY <1>2, <1>4, <2>1 DEF SinkState
  <2>6. StallCause'
    BY <2>1 DEF StallCause, Excused
  <2>. QED
    BY <1>1, <1>5, <2>3, <2>4, <2>5, <2>6
<1>. QED
  BY <1>13, <1>14, <1>15, <1>16 DEF SinkRecv, d

(* Writing new_file empties the sink.                                      *)
LEMMA WriteFileInv ==
  ASSUME Orderly, IInv, WriteFile
  PROVE  IInv'
<1>. USE DEF IInv
<1>1. TypeOK'
  BY SinkType
<1>2. /\ rpc = "write" /\ rpc' = "recv" /\ buf' = <<>> /\ seq' = 0
      /\ newFile' = IF newFile # <<>> THEN newFile ELSE buf
      /\ UNCHANGED <<spc, i, toSink, toSource, faults>>
  BY DEF WriteFile, sourceVars, netVars
<1>3. \A p \in Source : Active(p)' <=> Active(p)
  BY <1>2 DEF Active
<1>4. seq = LAST
  BY <1>2 DEF SinkState
<1>5. ASSUME NEW p \in Source, Active(p)
      PROVE  /\ Before(p) => Before(p)'
             /\ After(p) => After(p)'
  <2>1. i[p] \in Nat
    BY DEF TypeOK
  <2>2. Before(p) => Before(p)'
    BY <1>2, <2>1, PrefixZero DEF Before, Prefix
  <2>3. After(p) => After(p)'
    BY <1>2 DEF After
  <2>. QED
    BY <2>2, <2>3
<1>6. OneAtATime' /\ OneMessage'
  BY <1>2, <1>3 DEF OneAtATime, OneMessage
<1>7. Phase'
  BY <1>2, <1>3, <1>5 DEF Phase
<1>8. SinkState'
  BY <1>2 DEF SinkState
<1>9. StallCause'
  <2>1. ASSUME NEW p \in Source, Stuck(p)
        PROVE  faults["loss"] > 0
    <3>1. i[p] < Count[p] /\ i[p] \in Nat /\ Count[p] \in Nat /\ Count[p] < LAST
      BY <2>1, CountRange DEF Stuck, TypeOK, Active
    <3>2. seq # i[p] + 1
      BY <1>4, <3>1, LastNat
    <3>. QED
      BY <1>2, <2>1, <3>2 DEF StallCause, Excused
  <2>. QED
    BY <1>2, <2>1 DEF StallCause, Excused, Stuck
<1>10. OneCopy'
  BY <1>2 DEF OneCopy, SinkState
<1>. QED
  BY <1>1, <1>6, <1>7, <1>8, <1>9, <1>10

(* Orderly excludes duplicates and kills.                                  *)
LEMMA NoFault ==
  ASSUME Orderly, TypeOK
  PROVE  ~Fault("dup") /\ ~Fault("kill")
BY DEF Orderly, TypeOK, Fault, FaultKind

(* Damage changes only the CRC of the one datagram.                        *)
LEMMA CorruptInv ==
  ASSUME Orderly, IInv, Corrupt
  PROVE  IInv'
<1>. USE DEF IInv
<1>1. TypeOK'
  BY EnvironmentType
<1>2. PICK j \in 1 .. Len(toSink) : toSink' = [toSink EXCEPT ![j].crc = "differs"]
  BY DEF Corrupt
<1>3. UNCHANGED <<spc, i, toSource, rpc, seq, buf, newFile>>
  BY DEF Corrupt, sourceVars, sinkVars
<1>4. faults'["loss"] = faults["loss"]
  BY DEF Corrupt, Fault, FaultKind, TypeOK
<1>5. toSink \in Seq(DatagramType) /\ toSink # <<>>
  BY <1>2 DEF TypeOK
<1>6. j = 1 /\ Len(toSink) = 1
  <2>1. Len(toSink) = 1
    BY <1>5, Zenon DEF OneMessage
  <2>. QED
    BY <1>2, <2>1
<1>7. /\ Len(toSink') = 1 /\ toSink' # <<>> /\ DOMAIN toSink' = DOMAIN toSink
      /\ toSink'[1] = [toSink[1] EXCEPT !.crc = "differs"]
  BY <1>2, <1>5, <1>6
<1>8. toSink'[1].data = toSink[1].data /\ toSink'[1].seq = toSink[1].seq
  <2>1. toSink[1] \in DatagramType
    BY <1>5, <1>6
  <2>. QED
    BY <1>7, <2>1 DEF DatagramType
<1>9. OneAtATime' /\ Phase' /\ SinkState' /\ OneCopy'
  BY <1>3, <1>5, <1>7 DEF OneAtATime, Active, Phase, Before, After, SinkState, OneCopy
<1>10. OneMessage'
  BY <1>3, <1>5, <1>7, <1>8 DEF OneMessage
<1>11. StallCause'
  <2>1. DOMAIN toSink = {1}
    BY <1>5, <1>6, TailOnly
  <2>2. ASSUME NEW p \in Source
        PROVE  Stuck(p)' <=> Stuck(p)
    <3>1. (\A k \in DOMAIN toSink : toSink[k].data.src # p) <=> toSink[1].data.src # p
      BY <2>1
    <3>2. (\A k \in DOMAIN toSink' : toSink'[k].data.src # p) <=> toSink'[1].data.src # p
      BY <1>7, <2>1
    <3>3. toSink'[1].data.src = toSink[1].data.src
      BY <1>8
    <3>. QED
      BY <1>3, <3>1, <3>2, <3>3 DEF Stuck
  <2>. QED
    BY <1>3, <1>4, <2>2 DEF StallCause, Excused
<1>. QED
  BY <1>1, <1>9, <1>10, <1>11

(* A loss leaves the source waiting for ever.                              *)
LEMMA LossInv ==
  ASSUME Orderly, IInv, LoseData \/ \E p \in Source : LoseReply(p)
  PROVE  IInv'
<1>. USE DEF IInv
<1>1. TypeOK'
  BY EnvironmentType
<1>2. UNCHANGED <<spc, i, rpc, seq, buf, newFile>>
  BY DEF LoseData, LoseReply, sourceVars, sinkVars
<1>3. faults'["loss"] > 0
  BY DEF LoseData, LoseReply, Fault, FaultKind, TypeOK
<1>4. OneAtATime' /\ SinkState' /\ OneCopy' /\ StallCause'
  BY <1>2, <1>3 DEF OneAtATime, Active, SinkState, OneCopy, StallCause, Excused
<1>5. toSink' = <<>> /\ \A q \in Source : toSource'[q] = <<>>
  <2>1. CASE LoseData
    <3>1. PICK j \in 1 .. Len(toSink) : toSink' = Without(toSink, j)
      BY <2>1 DEF LoseData
    <3>2. toSink \in Seq(DatagramType) /\ toSink # <<>>
      BY <3>1 DEF TypeOK
    <3>3. Len(toSink) = 1 /\ \A q \in Source : toSource[q] = <<>>
      BY <3>2 DEF OneMessage
    <3>4. j = 1
      BY <3>1, <3>3
    <3>5. toSink' = <<>>
      BY <3>1, <3>2, <3>3, <3>4, WithoutOnly
    <3>. QED
      BY <2>1, <3>3, <3>5 DEF LoseData
  <2>2. ASSUME NEW p \in Source, LoseReply(p)
        PROVE  toSink' = <<>> /\ \A q \in Source : toSource'[q] = <<>>
    <3>1. toSource[p] \in Seq(ReplyType) /\ Len(toSource[p]) = 1 /\ toSink = <<>>
      BY <2>2 DEF LoseReply, OneMessage, TypeOK
    <3>2. Tail(toSource[p]) = <<>>
      BY <3>1, TailOnly
    <3>3. \A q \in Source : q # p => toSource[q] = <<>>
      BY <2>2 DEF LoseReply, OneMessage, OneAtATime, Active
    <3>. QED
      BY <2>2, <3>1, <3>2, <3>3 DEF LoseReply, TypeOK
  <2>. QED
    BY <2>1, <2>2
<1>6. OneMessage'
  BY <1>5 DEF OneMessage
<1>7. Phase'
  BY <1>2, <1>5 DEF Phase, Active, Before, After
<1>. QED
  BY <1>1, <1>4, <1>6, <1>7

(* Removing new_file concerns nobody else.                                 *)
LEMMA RemoveFileInv ==
  ASSUME Orderly, IInv, RemoveFile
  PROVE  IInv'
<1>. USE DEF IInv
<1>1. TypeOK'
  BY EnvironmentType
<1>2. UNCHANGED <<spc, i, toSink, toSource, rpc, seq, buf, faults>> /\ newFile' = <<>>
  BY DEF RemoveFile, sourceVars, netVars
<1>3. OneAtATime' /\ OneMessage' /\ Phase' /\ SinkState' /\ StallCause' /\ OneCopy'
  BY <1>2 DEF OneAtATime, OneMessage, Phase, Active, Before, After, SinkState,
              StallCause, Excused, Stuck, OneCopy
<1>. QED
  BY <1>1, <1>3

(* The invariant is inductive.                                             *)
LEMMA NextInv ==
  ASSUME Orderly, IInv, [Next]_vars
  PROVE  IInv'
<1>1. CASE Next
  <2>1. ~DuplicateData /\ \A p \in Source : ~DuplicateReply(p) /\ ~Kill(p)
    BY NoFault DEF IInv, DuplicateData, DuplicateReply, Kill
  <2>. QED
    BY <1>1, <2>1, StartInv, SendSegmentInv, RecvReplyInv, SinkRecvInv, WriteFileInv,
       CorruptInv, LossInv, RemoveFileInv DEF Next
<1>2. CASE UNCHANGED vars
  BY <1>2 DEF vars, IInv, TypeOK, OneAtATime, OneMessage, Phase, Active, Before, After,
              SinkState, StallCause, Excused, Stuck, OneCopy
<1>. QED
  BY <1>1, <1>2

(* In every orderly behaviour the sink has taken the segment a source      *)
(* works on exactly when the message under way says so.                    *)
THEOREM Invariance == ASSUME Orderly PROVE Spec => []IInv
<1>1. Init => IInv
  BY InitInv
<1>2. IInv /\ [Next]_vars => IInv'
  BY NextInv
<1>. QED
  BY <1>1, <1>2, PTL DEF Spec

(* A file the sink has written is byte for byte the file of one source,    *)
(* but for the segments that strncpy() marred.                             *)
THEOREM Integrity == ASSUME Orderly PROVE Spec => []FileIntegrity
<1>1. IInv => FileIntegrity
  <2>. SUFFICES ASSUME IInv, newFile # <<>> PROVE FileIntegrity
    BY DEF FileIntegrity
  <2>1. PICK p \in Source : newFile = Copy(p)
    BY DEF IInv, OneCopy
  <2>2. Count[p] \in Nat
    BY CountRange
  <2>3. newFile = [k \in 1 .. Count[p] |-> Segment(p, k)]
    BY <2>1 DEF Copy, Prefix
  <2>4. Len(newFile) = Count[p]
    BY <2>2, <2>3
  <2>5. ASSUME NEW k \in 1 .. Count[p], ~Marred(p, k)
        PROVE  newFile[k] = Original(p)[k]
    BY <2>3, <2>5 DEF Original, Segment
  <2>6. ASSUME NEW k \in 1 .. Count[p], Marred(p, k)
        PROVE  newFile[k] = Segment(p, k)
    BY <2>3
  <2>7. \A k \in 1 .. Count[p] :
          newFile[k] = Original(p)[k] \/ (Marred(p, k) /\ newFile[k] = Segment(p, k))
    BY <2>5, <2>6, Zenon
  <2>. QED
    BY <2>4, <2>7, Zenon DEF FileIntegrity
<1>. QED
  BY <1>1, Invariance, PTL

(* Where strncpy() mars nothing, diff finds no difference: what            *)
(* answers.txt says, under hypotheses it does not state.                   *)
THEOREM NothingDiffers ==
  ASSUME Orderly, \A p \in Source : \A k \in 1 .. Count[p] : ~Marred(p, k)
  PROVE  Spec => []DiffIsEmpty
<1>1. IInv => DiffIsEmpty
  <2>. SUFFICES ASSUME IInv, newFile # <<>> PROVE DiffIsEmpty
    BY DEF DiffIsEmpty
  <2>1. PICK p \in Source : newFile = Copy(p)
    BY DEF IInv, OneCopy
  <2>2. Copy(p) = Original(p)
    BY DEF Copy, Prefix, Segment, Original
  <2>. QED
    BY <2>1, <2>2 DEF DiffIsEmpty
<1>. QED
  BY <1>1, Invariance, PTL

(* While a source runs, the sink is never behind it and at most one        *)
(* segment ahead.                                                          *)
THEOREM InLockstep == ASSUME Orderly PROVE Spec => []Lockstep
<1>1. IInv => Lockstep
  BY DEF IInv, Phase, Before, After, Lockstep, Copy
<1>. QED
  BY <1>1, Invariance, PTL

(* A source waits in vain only after a loss, a crash of the sink, or the   *)
(* refusal of a segment that is not the last.                              *)
THEOREM StallOnlyThen == ASSUME Orderly PROVE Spec => []StallCause
<1>1. IInv => StallCause
  BY DEF IInv
<1>. QED
  BY <1>1, Invariance, PTL

-----------------------------------------------------------------------------
(* Refinement. *)

(* Every step is a step of the file copier or leaves its variables alone.  *)
LEMMA StepRefines ==
  ASSUME Orderly, IInv, [Next]_vars
  PROVE  [FC!Next]_<<buf, newFile>>
<1>. USE DEF IInv
<1>1. CASE SinkRecv
  <2>. DEFINE d == Head(toSink)
  <2>1. newFile' = newFile /\ (buf' = buf \/ Accept(d))
    BY <1>1 DEF SinkRecv, Ignore, Accept, Refuse, Overrun, sinkVars
  <2>2. CASE Accept(d)
    <3>1. toSink # <<>> /\ rpc = "recv" /\ buf' = Append(buf, d.data)
      BY <1>1, <2>2 DEF SinkRecv, Accept, Receives
    <3>2. PICK p \in Source : /\ d.data = Segment(p, i[p] + 1)
                             /\ i[p] \in Nat /\ i[p] + 1 \in 1 .. Count[p]
                             /\ buf = Prefix(p, i[p])
      BY <3>1, SinkReceives
    <3>3. buf' = Prefix(p, i[p] + 1)
      BY <3>1, <3>2, PrefixAppend
    <3>4. i[p] \in 0 .. Count[p] - 1
      BY <3>2, CountRange
    <3>5. FC!Take
      BY <2>1, <3>2, <3>3, <3>4 DEF FC!Take
    <3>. QED
      BY <3>5 DEF FC!Next
  <2>. QED
    BY <2>1, <2>2
<1>2. CASE WriteFile
  <2>1. FC!Keep
    BY <1>2 DEF WriteFile, FC!Keep, SinkState, Copy
  <2>. QED
    BY <2>1 DEF FC!Next
<1>3. CASE RemoveFile
  BY <1>3 DEF RemoveFile, FC!Next, FC!Remove
<1>4. CASE \/ \E p \in Source : Start(p) \/ SendSegment(p) \/ RecvReply(p)
           \/ Corrupt \/ LoseData \/ DuplicateData
           \/ \E p \in Source : LoseReply(p) \/ DuplicateReply(p) \/ Kill(p)
  BY <1>4 DEF Start, SendSegment, RecvReply, Corrupt, LoseData, DuplicateData,
              LoseReply, DuplicateReply, Kill, sinkVars
<1>5. CASE UNCHANGED vars
  BY <1>5 DEF vars
<1>. QED
  BY <1>1, <1>2, <1>3, <1>4, <1>5 DEF Next

(* The protocol implements the file copier: the sink's memory grows by the *)
(* next segment of one file, and only a complete file is written.          *)
THEOREM Refinement == ASSUME Orderly PROVE Spec => Implements
<1>1. Init => FC!Init
  BY DEF Init, FC!Init
<1>2. IInv /\ [Next]_vars => [FC!Next]_<<buf, newFile>>
  BY StepRefines
<1>. QED
  BY <1>1, <1>2, Invariance, PTL DEF Spec, Implements, FC!Spec

-----------------------------------------------------------------------------
(* Sources at the same time.  The two invariants below need no Orderly.    *)

(* A fault that has not happened had not happened before.                  *)
LEMMA FaultsGrow ==
  ASSUME TypeOK, [Next]_vars, NEW f \in FaultKind, faults'[f] = 0
  PROVE  faults[f] = 0
<1>1. ASSUME NEW g \in FaultKind, Fault(g) PROVE faults[f] = 0
  BY <1>1 DEF Fault, TypeOK
<1>2. CASE UNCHANGED faults
  BY <1>2
<1>3. ASSUME NEW g \in {"corrupt", "final", "loss", "dup", "kill"}, Fault(g) PROVE faults[f] = 0
  BY <1>1, <1>3 DEF FaultKind
<1>4. CASE Corrupt \/ LoseData \/ DuplicateData
  BY <1>3, <1>4 DEF Corrupt, LoseData, DuplicateData
<1>5. ASSUME NEW p \in Source, LoseReply(p) \/ DuplicateReply(p) \/ Kill(p) PROVE faults[f] = 0
  BY <1>3, <1>5 DEF LoseReply, DuplicateReply, Kill
<1>6. ASSUME NEW p \in Source, Start(p) \/ SendSegment(p) \/ RecvReply(p) PROVE faults[f] = 0
  BY <1>2, <1>6 DEF Start, SendSegment, RecvReply
<1>7. CASE SinkRecv \/ WriteFile \/ RemoveFile
  <2>1. UNCHANGED faults
    BY <1>7, Zenon DEF SinkRecv, Ignore, Accept, Refuse, Overrun, WriteFile, RemoveFile
  <2>. QED
    BY <1>2, <2>1
<1>8. CASE UNCHANGED vars
  BY <1>2, <1>8 DEF vars
<1>. QED
  BY <1>4, <1>5, <1>6, <1>7, <1>8 DEF Next

(* Where the elements of a queue are after the first one, or any one, left *)
(* it, and after one was appended.                                         *)
LEMMA TailAt ==
  ASSUME NEW S, NEW s \in Seq(S), s # <<>>
  PROVE  /\ Head(s) = s[1] /\ 1 \in DOMAIN s
         /\ \A j \in DOMAIN Tail(s) :
              j \in Int /\ j + 1 # 1 /\ j + 1 \in DOMAIN s /\ Tail(s)[j] = s[j + 1]
OBVIOUS

LEMMA WithoutAt ==
  ASSUME NEW S, NEW s \in Seq(S), NEW n \in 1 .. Len(s)
  PROVE  \A j \in DOMAIN Without(s, n) : LET m == IF j < n THEN j ELSE j + 1
           IN  j \in Int /\ m \in DOMAIN s /\ Without(s, n)[j] = s[m]
<1>. DEFINE before == SubSeq(s, 1, n - 1)
            after  == SubSeq(s, n + 1, Len(s))
<1>1. /\ before \in Seq(S) /\ Len(before) = n - 1
      /\ \A j \in 1 .. n - 1 : before[j] = s[j]
  BY SubSeqProperties
<1>2. /\ after \in Seq(S) /\ Len(after) = Len(s) - n
      /\ \A j \in 1 .. Len(s) - n : after[j] = s[n + j]
  BY SubSeqProperties
<1>3. /\ DOMAIN Without(s, n) = 1 .. Len(s) - 1
      /\ \A j \in 1 .. Len(s) - 1 :
           Without(s, n)[j] = IF j <= n - 1 THEN before[j] ELSE after[j - (n - 1)]
  <2>. HIDE DEF before, after
  <2>1. before \o after \in Seq(S) /\ Len(before \o after) = Len(s) - 1
    <3>1. before \o after \in Seq(S) /\ Len(before \o after) = Len(before) + Len(after)
      BY <1>1, <1>2, ConcatProperties, Zenon
    <3>2. Len(s) \in Nat /\ n \in Int
      OBVIOUS
    <3>. QED
      BY <1>1, <1>2, <3>1, <3>2
  <2>2. \A j \in 1 .. Len(before) + Len(after) :
          (before \o after)[j] = IF j <= Len(before) THEN before[j] ELSE after[j - Len(before)]
    BY <1>1, <1>2, ConcatProperties
  <2>3. Without(s, n) = before \o after
    BY Zenon DEF Without, before, after
  <2>4. /\ n - 1 \in Int /\ Len(before) + Len(after) = Len(s) - 1
        /\ DOMAIN Without(s, n) = 1 .. Len(s) - 1
    BY <1>1, <1>2, <2>1, <2>3
  <2>. QED
    BY <1>1, <2>2, <2>3, <2>4
<1>. HIDE DEF before, after
<1>4. ASSUME NEW j \in 1 .. Len(s) - 1, j < n PROVE Without(s, n)[j] = s[j]
  <2>1. j \in 1 .. n - 1 /\ j <= n - 1
    BY <1>4
  <2>. QED
    BY <1>1, <1>3, <2>1
<1>5. ASSUME NEW j \in 1 .. Len(s) - 1, ~(j < n) PROVE Without(s, n)[j] = s[j + 1]
  <2>1. j - (n - 1) \in 1 .. Len(s) - n /\ n + (j - (n - 1)) = j + 1 /\ ~(j <= n - 1)
    BY <1>5
  <2>. QED
    BY <1>2, <1>3, <2>1
<1>6. ASSUME NEW j \in 1 .. Len(s) - 1 PROVE j \in Int /\ (IF j < n THEN j ELSE j + 1) \in DOMAIN s
  OBVIOUS
<1>. QED
  BY <1>3, <1>4, <1>5, <1>6

LEMMA AppendAt ==
  ASSUME NEW S, NEW s \in Seq(S), NEW x \in S
  PROVE  /\ DOMAIN s = 1 .. Len(s) /\ Len(s) \in Nat
         /\ DOMAIN Append(s, x) = 1 .. Len(s) + 1
         /\ Append(s, x)[Len(s) + 1] = x
         /\ \A j \in DOMAIN s : Append(s, x)[j] = s[j]
OBVIOUS

-----------------------------------------------------------------------------
(***************************************************************************)
(* The numbers the sink has stored are at most the last one it saw, which  *)
(* a final segment cannot set back as long as none is damaged.             *)
(***************************************************************************)
NumberOf(x) == SeqNo(x.src, x.pos)

Numbered ==
  \A j \in DOMAIN toSink : toSink[j].seq = NumberOf(toSink[j].data)

FinalWhole ==
  faults["final"] = 0 =>
    \A j \in DOMAIN toSink : toSink[j].seq = LAST => toSink[j].crc = "matches"

UpToSeq == \A k \in DOMAIN buf : NumberOf(buf[k]) <= seq

NumberInv ==
  /\ TypeOK /\ Numbered /\ FinalWhole
  /\ faults["final"] = 0 => UpToSeq /\ Increasing(buf) /\ Increasing(newFile)

(* A stored segment's number is a natural number.                          *)
LEMMA NumberNat ==
  ASSUME NEW x \in DataType
  PROVE  NumberOf(x) \in Int
BY LastNat DEF NumberOf, SeqNo, DataType

(* A sequence of increasing numbers is extended by a higher one.           *)
LEMMA IncreasingAppend ==
  ASSUME NEW b \in Seq(DataType), NEW x \in DataType, Increasing(b),
         \A k \in DOMAIN b : NumberOf(b[k]) < NumberOf(x)
  PROVE  Increasing(Append(b, x))
<1>1. /\ DOMAIN b = 1 .. Len(b) /\ Len(b) \in Nat
      /\ DOMAIN Append(b, x) = 1 .. Len(b) + 1
      /\ Append(b, x)[Len(b) + 1] = x
      /\ \A j \in DOMAIN b : Append(b, x)[j] = b[j]
  BY AppendAt
<1>2. SUFFICES ASSUME NEW j \in 1 .. Len(b) + 1, NEW k \in 1 .. Len(b) + 1, j < k
               PROVE  NumberOf(Append(b, x)[j]) < NumberOf(Append(b, x)[k])
  BY <1>1 DEF Increasing, NumberOf
<1>3. j \in DOMAIN b
  BY <1>1, <1>2
<1>4. CASE k \in DOMAIN b
  BY <1>1, <1>2, <1>3, <1>4 DEF Increasing, NumberOf
<1>5. CASE k = Len(b) + 1
  BY <1>1, <1>3, <1>5
<1>. QED
  BY <1>1, <1>2, <1>4, <1>5

(* Steps that do not touch the sink's memory, and keep the faults.         *)
LEMMA StoredUnchanged ==
  ASSUME NumberInv, TypeOK', Numbered', FinalWhole', UNCHANGED <<seq, buf, newFile>>,
         faults'["final"] = 0 => faults["final"] = 0
  PROVE  NumberInv'
BY DEF NumberInv, UpToSeq, Increasing

LEMMA SourceNumber ==
  ASSUME NumberInv, TypeOK', NEW p \in Source, Start(p) \/ SendSegment(p) \/ RecvReply(p)
  PROVE  NumberInv'
<1>1. UNCHANGED <<seq, buf, newFile, faults>>
  BY DEF Start, SendSegment, RecvReply, sinkVars
<1>2. CASE UNCHANGED toSink
  <2>1. Numbered' /\ FinalWhole'
    BY <1>1, <1>2 DEF NumberInv, Numbered, FinalWhole
  <2>. QED
    BY <1>1, <2>1, StoredUnchanged
<1>3. CASE SendSegment(p)
  <2>. DEFINE d == Datagram(p, i[p] + 1)
  <2>1. toSink' = Append(toSink, d) /\ i[p] + 1 \in 1 .. Count[p] /\ toSink \in Seq(DatagramType)
    BY <1>3, CountRange DEF NumberInv, TypeOK, Active, SendSegment
  <2>2. d \in DatagramType /\ d.seq = NumberOf(d.data) /\ d.crc = "matches"
    BY <2>1, DatagramTyped DEF Datagram, NumberOf, Segment
  <2>. HIDE DEF d
  <2>3. ASSUME NEW j \in DOMAIN toSink'
        PROVE  (j \in DOMAIN toSink /\ toSink'[j] = toSink[j]) \/ toSink'[j] = d
    BY <2>1, <2>2, AppendAt
  <2>4. Numbered'
    BY <2>2, <2>3 DEF NumberInv, Numbered
  <2>5. FinalWhole'
    BY <1>1, <2>2, <2>3 DEF NumberInv, FinalWhole
  <2>. QED
    BY <1>1, <2>4, <2>5, StoredUnchanged
<1>. QED
  BY <1>2, <1>3 DEF Start, RecvReply, netVars

LEMMA SinkNumber ==
  ASSUME NumberInv, TypeOK', SinkRecv \/ WriteFile
  PROVE  NumberInv'
<1>1. CASE SinkRecv
  <2>. DEFINE d == Head(toSink)
  <2>1. /\ toSink \in Seq(DatagramType) /\ toSink # <<>> /\ toSink' = Tail(toSink)
        /\ UNCHANGED <<newFile, faults>>
    <3>1. toSink \in Seq(DatagramType)
      BY DEF NumberInv, TypeOK
    <3>. QED
      BY <1>1, <3>1, Zenon DEF SinkRecv, Ignore, Accept, Refuse, Overrun, Receives, sinkVars
  <2>2. /\ d = toSink[1] /\ 1 \in DOMAIN toSink /\ d \in DatagramType
        /\ \A j \in DOMAIN toSink' : \E k \in DOMAIN toSink : toSink'[j] = toSink[k]
    BY <2>1, TailAt
  <2>3. d.seq = NumberOf(d.data) /\ d.data \in DataType /\ seq \in Int
    BY <2>2 DEF NumberInv, Numbered, DatagramType, TypeOK
  <2>4. faults["final"] = 0 => ~(d.seq = LAST /\ d.crc = "differs")
    BY <2>2 DEF NumberInv, FinalWhole
  <2>5. Numbered'
    BY <2>2 DEF NumberInv, Numbered
  <2>6. FinalWhole'
    BY <2>1, <2>2 DEF NumberInv, FinalWhole
  <2>. HIDE DEF d
  <2>7. buf \in Seq(DataType)
    BY DEF NumberInv, TypeOK
  <2>8. \A k \in DOMAIN buf : NumberOf(buf[k]) \in Int
    BY <2>7, NumberNat
  <2>9. CASE UNCHANGED <<seq, buf>>
    BY <2>1, <2>5, <2>6, <2>9, StoredUnchanged
  <2>10. CASE Accept(d)
    <3>1. d.seq > seq /\ seq' = d.seq /\ buf' = Append(buf, d.data)
      BY <2>10 DEF Accept
    <3>2. faults["final"] = 0 => \A k \in DOMAIN buf : NumberOf(buf[k]) < NumberOf(d.data)
      BY <2>3, <2>8, <3>1, NumberNat DEF NumberInv, UpToSeq
    <3>3. faults["final"] = 0 => Increasing(buf')
      BY <2>3, <2>7, <3>1, <3>2, IncreasingAppend DEF NumberInv
    <3>4. \A k \in DOMAIN buf' : (k \in DOMAIN buf /\ buf'[k] = buf[k]) \/ buf'[k] = d.data
      BY <2>3, <2>7, <3>1, AppendAt
    <3>5. faults["final"] = 0 => UpToSeq'
      BY <2>3, <2>8, <3>1, <3>2, <3>4, NumberNat DEF UpToSeq
    <3>6. Increasing(newFile)' <=> Increasing(newFile)
      BY <2>1
    <3>7. Increasing(buf)' <=> Increasing(buf')
      OBVIOUS
    <3>. QED
      BY <2>1, <2>5, <2>6, <3>3, <3>5, <3>6, <3>7 DEF NumberInv
  <2>11. CASE Refuse(d)
    <3>1. d.seq > seq /\ d.crc = "differs" /\ UNCHANGED buf /\ (d.seq # LAST => seq' = d.seq)
      BY <2>11 DEF Refuse
    <3>2. faults["final"] = 0 => seq' = d.seq
      BY <2>4, <3>1
    <3>3. faults["final"] = 0 => UpToSeq'
      <4>1. d.seq \in Int
        BY <2>3, NumberNat
      <4>. QED
        BY <2>3, <2>8, <3>1, <3>2, <4>1 DEF NumberInv, UpToSeq
    <3>4. (Increasing(newFile)' <=> Increasing(newFile)) /\ (Increasing(buf)' <=> Increasing(buf))
      BY <2>1, <3>1
    <3>. QED
      BY <2>1, <2>5, <2>6, <3>3, <3>4 DEF NumberInv
  <2>12. Ignore(d) \/ Accept(d) \/ Refuse(d) \/ Overrun(d)
    BY <1>1, Zenon DEF SinkRecv, d
  <2>. QED
    BY <2>9, <2>10, <2>11, <2>12 DEF Ignore, Overrun, sinkVars
<1>2. CASE WriteFile
  <2>1. /\ buf' = <<>> /\ newFile' \in {newFile, buf} /\ UNCHANGED <<toSink, faults>>
    BY <1>2 DEF WriteFile, netVars
  <2>2. Numbered' /\ FinalWhole'
    BY <2>1 DEF NumberInv, Numbered, FinalWhole
  <2>3. UpToSeq' /\ Increasing(buf)'
    BY <2>1 DEF UpToSeq, Increasing
  <2>4. faults["final"] = 0 => Increasing(newFile)'
    BY <2>1 DEF NumberInv, Increasing
  <2>. QED
    BY <2>1, <2>2, <2>3, <2>4 DEF NumberInv
<1>. QED
  BY <1>1, <1>2

LEMMA EnvironmentNumber ==
  ASSUME NumberInv, TypeOK', [Next]_vars,
         \/ Corrupt \/ LoseData \/ DuplicateData \/ RemoveFile
         \/ \E p \in Source : LoseReply(p) \/ DuplicateReply(p) \/ Kill(p)
  PROVE  NumberInv'
<1>1. faults'["final"] = 0 => faults["final"] = 0
  BY FaultsGrow DEF NumberInv, FaultKind
<1>2. toSink \in Seq(DatagramType)
  BY DEF NumberInv, TypeOK
<1>3. CASE Corrupt
  <2>1. PICK j \in 1 .. Len(toSink) :
          /\ Fault(IF toSink[j].seq = LAST THEN "final" ELSE "corrupt")
          /\ toSink' = [toSink EXCEPT ![j].crc = "differs"]
    BY <1>3 DEF Corrupt
  <2>2. UNCHANGED <<seq, buf, newFile>>
    BY <1>3 DEF Corrupt, sinkVars
  <2>3. /\ DOMAIN toSink' = DOMAIN toSink
        /\ toSink'[j] = [toSink[j] EXCEPT !.crc = "differs"]
        /\ \A k \in DOMAIN toSink : k # j => toSink'[k] = toSink[k]
    BY <1>2, <2>1
  <2>4. toSink[j] \in DatagramType /\ j \in DOMAIN toSink
    BY <1>2, <2>1
  <2>5. toSink'[j].seq = toSink[j].seq /\ toSink'[j].data = toSink[j].data
    BY <2>3, <2>4 DEF DatagramType
  <2>6. Numbered'
    BY <2>3, <2>4, <2>5 DEF NumberInv, Numbered
  <2>7. toSink[j].seq = LAST => faults'["final"] # 0
    <3>1. faults \in [FaultKind -> Nat] /\ "final" \in FaultKind
      BY DEF NumberInv, TypeOK, FaultKind
    <3>2. toSink[j].seq = LAST => faults' = [faults EXCEPT !["final"] = @ + 1]
      BY <2>1 DEF Fault
    <3>. QED
      BY <3>1, <3>2
  <2>8. FinalWhole'
    <3>1. SUFFICES ASSUME faults'["final"] = 0, NEW k \in DOMAIN toSink, toSink'[k].seq = LAST
                   PROVE  toSink'[k].crc = "matches"
      BY <2>3 DEF FinalWhole
    <3>2. k # j
      BY <2>5, <2>7, <3>1
    <3>. QED
      BY <1>1, <2>3, <3>1, <3>2 DEF NumberInv, FinalWhole
  <2>. QED
    BY <1>1, <2>2, <2>6, <2>8, StoredUnchanged
<1>4. CASE \A j \in DOMAIN toSink' : \E k \in DOMAIN toSink : toSink'[j] = toSink[k]
  <2>1. Numbered'
    BY <1>4 DEF NumberInv, Numbered
  <2>2. FinalWhole'
    BY <1>1, <1>4 DEF NumberInv, FinalWhole
  <2>3. CASE UNCHANGED <<seq, buf, newFile>>
    BY <1>1, <2>1, <2>2, <2>3, StoredUnchanged
  <2>4. CASE RemoveFile
    <3>1. UNCHANGED <<seq, buf, faults>> /\ newFile' = <<>>
      BY <2>4 DEF RemoveFile
    <3>2. Increasing(newFile)' /\ (Increasing(buf)' <=> Increasing(buf)) /\ (UpToSeq' <=> UpToSeq)
      BY <3>1 DEF Increasing, UpToSeq
    <3>. QED
      BY <3>1, <3>2, <2>1, <2>2 DEF NumberInv
  <2>5. UNCHANGED <<seq, buf, newFile>> \/ RemoveFile
    BY DEF Corrupt, LoseData, DuplicateData, LoseReply, DuplicateReply, Kill, sinkVars
  <2>. QED
    BY <2>3, <2>4, <2>5
<1>5. CASE LoseData
  <2>1. PICK n \in 1 .. Len(toSink) : toSink' = Without(toSink, n)
    BY <1>5 DEF LoseData
  <2>2. \A j \in DOMAIN toSink' : \E k \in DOMAIN toSink : toSink'[j] = toSink[k]
    BY <1>2, <2>1, WithoutAt
  <2>. QED
    BY <1>4, <2>2
<1>6. CASE DuplicateData
  <2>1. PICK n \in 1 .. Len(toSink) : toSink' = Append(toSink, toSink[n])
    BY <1>6 DEF DuplicateData
  <2>2. toSink[n] \in DatagramType /\ n \in DOMAIN toSink
    BY <1>2, <2>1
  <2>3. \A j \in DOMAIN toSink' : \/ j \in DOMAIN toSink /\ toSink'[j] = toSink[j]
                                  \/ toSink'[j] = toSink[n]
    BY <1>2, <2>1, <2>2, AppendAt
  <2>4. \A j \in DOMAIN toSink' : \E k \in DOMAIN toSink : toSink'[j] = toSink[k]
    BY <2>2, <2>3
  <2>. QED
    BY <1>4, <2>4
<1>7. CASE UNCHANGED toSink
  BY <1>4, <1>7
<1>8. CASE RemoveFile \/ \E p \in Source : LoseReply(p) \/ DuplicateReply(p) \/ Kill(p)
  BY <1>7, <1>8 DEF RemoveFile, LoseReply, DuplicateReply, Kill, netVars
<1>. QED
  BY <1>3, <1>5, <1>6, <1>8

(* The numbers the sink stores increase, whatever the number of sources,   *)
(* whether or not they run at the same time, however much the network      *)
(* loses, duplicates and damages, and whoever is killed, unless a final    *)
(* segment is damaged: nothing is in new_file twice.                       *)
THEOREM StoredOnce == Spec => []NoSegmentTwice
<1>1. Init => NumberInv
  <2>. SUFFICES ASSUME Init PROVE NumberInv
    OBVIOUS
  <2>1. TypeOK
    BY InitType
  <2>. QED
    BY <2>1 DEF Init, NumberInv, Numbered, FinalWhole, UpToSeq, Increasing
<1>2. NumberInv /\ [Next]_vars => NumberInv'
  <2>. SUFFICES ASSUME NumberInv, [Next]_vars PROVE NumberInv'
    OBVIOUS
  <2>1. TypeOK'
    BY TypeStep DEF NumberInv
  <2>2. CASE UNCHANGED vars
    <3>1. Numbered' /\ FinalWhole'
      BY <2>2 DEF vars, NumberInv, Numbered, FinalWhole
    <3>. QED
      BY <2>1, <2>2, <3>1, StoredUnchanged DEF vars
  <2>. QED
    BY <2>1, <2>2, SourceNumber, SinkNumber, EnvironmentNumber DEF Next
<1>3. NumberInv => NoSegmentTwice
  BY DEF NumberInv, NoSegmentTwice
<1>. QED
  BY <1>1, <1>2, <1>3, PTL DEF Spec

-----------------------------------------------------------------------------
(***************************************************************************)
(* Between a source and the sink there is at most one message, unless the  *)
(* network duplicates one.  Upto(b, p, n): the last segment b has of p, if *)
(* it has one, is the n-th.  Which n that is depends on what is under way: *)
(* before an ack is sent it is i[p], when an ack is under way it is one    *)
(* more, and when a message was lost it may be either.                     *)
(***************************************************************************)
Pending(q, p) == {j \in DOMAIN q : q[j].data.src = p}

Alone(q, p, n) ==
  /\ \A j, k \in Pending(q, p) : j = k
  /\ \A j \in Pending(q, p) : q[j].data.pos = n

Upto(b, p, n) == \A j \in Held(b, p) : Latest(b, p, j) => b[j].pos = n

OneUnderWay(p) ==
  /\ Alone(toSink, p, i[p] + 1)
  /\ Pending(toSink, p) # {} => spc[p] \in {"waiting", "killed"} /\ toSource[p] = <<>>
  /\ toSource[p] # <<>> => spc[p] = "waiting" /\ Len(toSource[p]) = 1

Reached(p) ==
  /\ Pending(toSink, p) # {} \/ spc[p] \in {"new", "sending", "done"} => Upto(buf, p, i[p])
  /\ toSource[p] # <<>> =>
       Upto(buf, p, IF toSource[p][1].text = "ack" THEN i[p] + 1 ELSE i[p])
  /\ Upto(buf, p, i[p]) \/ Upto(buf, p, i[p] + 1)

Fits(p) == OneUnderWay(p) /\ Reached(p) /\ Consecutive(buf, p)

OrderInv == TypeOK /\ (faults["dup"] = 0 => \A p \in Source : Fits(p))

(* The next segment of a source extends its run, another's does not        *)
(* disturb it, and nothing is a run.                                       *)
LEMMA RunAppend ==
  ASSUME NEW b \in Seq(DataType), NEW x \in DataType, NEW p \in Source, NEW n \in Nat,
         x.src = p, x.pos = n + 1, Upto(b, p, n), Consecutive(b, p)
  PROVE  Upto(Append(b, x), p, n + 1) /\ Consecutive(Append(b, x), p)
<1>. DEFINE c == Append(b, x)
            l == Len(b) + 1
<1>1. /\ DOMAIN b = 1 .. Len(b) /\ Len(b) \in Nat /\ DOMAIN c = 1 .. l /\ c[l] = x
      /\ \A j \in DOMAIN b : c[j] = b[j]
  BY AppendAt
<1>. HIDE DEF c
<1>2. Held(c, p) = Held(b, p) \cup {l} /\ \A j \in Held(b, p) : j \in DOMAIN b /\ j < l /\ j \in Int
  BY <1>1 DEF Held
<1>3. \A j \in Held(c, p) : Latest(c, p, j) => j = l
  BY <1>1, <1>2 DEF Latest
<1>4. Upto(c, p, n + 1)
  BY <1>1, <1>3 DEF Upto
<1>5. ASSUME NEW j \in Held(c, p), NEW k \in Held(c, p), Adjacent(c, p, j, k)
      PROVE  c[k].pos = c[j].pos + 1
  <2>1. j < k /\ j \in Held(b, p)
    BY <1>1, <1>2, <1>5 DEF Adjacent
  <2>2. CASE k = l
    <3>1. \A m \in Held(b, p) : m <= j
      BY <1>1, <1>2, <1>5, <2>2 DEF Adjacent
    <3>. QED
      BY <1>1, <1>2, <2>1, <2>2, <3>1 DEF Upto, Latest
  <2>3. CASE k \in Held(b, p)
    <3>1. Adjacent(b, p, j, k)
      BY <1>2, <1>5 DEF Adjacent
    <3>. QED
      BY <1>1, <1>2, <2>1, <2>3, <3>1 DEF Consecutive
  <2>. QED
    BY <1>2, <2>2, <2>3
<1>. QED
  BY <1>4, <1>5 DEF Consecutive, c

LEMMA RunOther ==
  ASSUME NEW b \in Seq(DataType), NEW x \in DataType, NEW p \in Source, x.src # p
  PROVE  /\ Consecutive(Append(b, x), p) <=> Consecutive(b, p)
         /\ \A n \in Nat : Upto(Append(b, x), p, n) <=> Upto(b, p, n)
<1>1. /\ DOMAIN b = 1 .. Len(b) /\ Len(b) \in Nat /\ DOMAIN Append(b, x) = 1 .. Len(b) + 1
      /\ Append(b, x)[Len(b) + 1] = x
      /\ \A j \in DOMAIN b : Append(b, x)[j] = b[j]
  BY AppendAt
<1>2. Held(Append(b, x), p) = Held(b, p) /\ \A j \in Held(b, p) : Append(b, x)[j] = b[j]
  BY <1>1 DEF Held
<1>. QED
  BY <1>2 DEF Consecutive, Upto, Adjacent, Latest

LEMMA RunOfNone ==
  ASSUME NEW p \in Source, NEW n \in Nat
  PROVE  Consecutive(<<>>, p) /\ Upto(<<>>, p, n)
BY DEF Consecutive, Upto, Held

(* A message that is taken or lost leaves the others of a source alone,    *)
(* and a damaged one keeps its data.                                       *)
Thins(t, s) ==
  \E f \in [DOMAIN t -> DOMAIN s] :
    /\ \A j, k \in DOMAIN t : f[j] = f[k] => j = k
    /\ \A j \in DOMAIN t : t[j].data = s[f[j]].data

LEMMA StillAlone ==
  ASSUME NEW t, NEW s, NEW p \in Source, NEW n \in Nat, Thins(t, s), Alone(s, p, n)
  PROVE  Alone(t, p, n) /\ (Pending(t, p) # {} => Pending(s, p) # {})
<1>1. PICK f \in [DOMAIN t -> DOMAIN s] :
        /\ \A j, k \in DOMAIN t : f[j] = f[k] => j = k
        /\ \A j \in DOMAIN t : t[j].data = s[f[j]].data
  BY DEF Thins
<1>2. \A j \in Pending(t, p) : f[j] \in Pending(s, p) /\ j \in DOMAIN t
  BY <1>1 DEF Pending
<1>3. \A j, k \in Pending(t, p) : f[j] = f[k]
  BY <1>2 DEF Alone
<1>4. \A j \in Pending(t, p) : t[j].data.pos = n
  BY <1>1, <1>2 DEF Alone
<1>. QED
  BY <1>1, <1>2, <1>3, <1>4 DEF Alone

LEMMA TailThins ==
  ASSUME NEW s \in Seq(DatagramType), s # <<>>
  PROVE  Thins(Tail(s), s)
<1>. DEFINE f == [j \in DOMAIN Tail(s) |-> j + 1]
<1>1. \A j \in DOMAIN Tail(s) : j \in Int /\ j + 1 \in DOMAIN s /\ Tail(s)[j] = s[j + 1]
  BY TailAt
<1>2. f \in [DOMAIN Tail(s) -> DOMAIN s]
  BY <1>1
<1>3. \A j, k \in DOMAIN Tail(s) : f[j] = f[k] => j = k
  BY <1>1
<1>4. \A j \in DOMAIN Tail(s) : Tail(s)[j].data = s[f[j]].data
  BY <1>1
<1>. HIDE DEF f
<1>. QED
  BY <1>2, <1>3, <1>4 DEF Thins

LEMMA WithoutThins ==
  ASSUME NEW s \in Seq(DatagramType), NEW n \in 1 .. Len(s)
  PROVE  Thins(Without(s, n), s)
<1>. DEFINE t == Without(s, n)
            f == [j \in DOMAIN t |-> IF j < n THEN j ELSE j + 1]
<1>1. \A j \in DOMAIN t : LET m == IF j < n THEN j ELSE j + 1
                          IN  j \in Int /\ m \in DOMAIN s /\ t[j] = s[m]
  BY WithoutAt
<1>. HIDE DEF t
<1>2. f \in [DOMAIN t -> DOMAIN s]
  BY <1>1
<1>3. \A j, k \in DOMAIN t : f[j] = f[k] => j = k
  BY <1>1
<1>4. \A j \in DOMAIN t : t[j].data = s[f[j]].data
  BY <1>1
<1>. HIDE DEF f
<1>. QED
  BY <1>2, <1>3, <1>4 DEF Thins, t

LEMMA DamageThins ==
  ASSUME NEW s \in Seq(DatagramType), NEW n \in 1 .. Len(s)
  PROVE  Thins([s EXCEPT ![n].crc = "differs"], s)
<1>. DEFINE t == [s EXCEPT ![n].crc = "differs"]
            f == [j \in DOMAIN t |-> j]
<1>1. s[n] \in DatagramType /\ DOMAIN t = DOMAIN s
  OBVIOUS
<1>2. \A j \in DOMAIN t : t[j].data = s[j].data
  <2>1. \A j \in DOMAIN s : j # n => t[j] = s[j]
    OBVIOUS
  <2>2. t[n].data = s[n].data
    <3>1. t[n] = [s[n] EXCEPT !.crc = "differs"]
      OBVIOUS
    <3>. QED
      BY <1>1, <3>1 DEF DatagramType
  <2>. QED
    BY <1>1, <2>1, <2>2
<1>. HIDE DEF t
<1>3. f \in [DOMAIN t -> DOMAIN s] /\ \A j \in DOMAIN t : f[j] = j
  BY <1>1
<1>. HIDE DEF f
<1>. QED
  BY <1>2, <1>3 DEF Thins, t

(* A source that a step is not about keeps what fits.                      *)
LEMMA Bystander ==
  ASSUME TypeOK, NEW q \in Source, Fits(q),
         spc'[q] = spc[q], i'[q] = i[q], toSource'[q] = toSource[q],
         Pending(toSink', q) # {} => Pending(toSink, q) # {},
         Alone(toSink', q, i[q] + 1),
         \/ buf' = buf
         \/ \E x \in DataType : x.src # q /\ buf' = Append(buf, x)
         \/ buf' = <<>>
  PROVE  Fits(q)'
<1>1. i[q] \in Nat /\ i[q] + 1 \in Nat /\ buf \in Seq(DataType)
  BY DEF TypeOK
<1>2. /\ Consecutive(buf, q) => Consecutive(buf', q)
      /\ \A n \in Nat : Upto(buf, q, n) => Upto(buf', q, n)
  <2>1. CASE buf' = buf
    BY <2>1
  <2>2. CASE \E x \in DataType : x.src # q /\ buf' = Append(buf, x)
    BY <1>1, <2>2, RunOther
  <2>3. CASE buf' = <<>>
    BY <2>3, RunOfNone
  <2>. QED
    BY <2>1, <2>2, <2>3
<1>3. OneUnderWay(q)'
  BY DEF Fits, OneUnderWay
<1>4. Reached(q)'
  BY <1>1, <1>2 DEF Fits, Reached
<1>5. Consecutive(buf, q)'
  BY <1>2 DEF Fits
<1>. QED
  BY <1>3, <1>4, <1>5 DEF Fits

(* The queue to the sink is the same, or thinner.                          *)
LEMMA BystanderQueue ==
  ASSUME TypeOK, NEW q \in Source, Fits(q), toSink' = toSink \/ Thins(toSink', toSink)
  PROVE  /\ Pending(toSink', q) # {} => Pending(toSink, q) # {}
         /\ Alone(toSink', q, i[q] + 1)
<1>1. Alone(toSink, q, i[q] + 1)
  BY DEF Fits, OneUnderWay
<1>2. i[q] + 1 \in Nat
  BY DEF TypeOK
<1>3. CASE toSink' = toSink
  BY <1>1, <1>3
<1>4. CASE Thins(toSink', toSink)
  BY <1>1, <1>2, <1>4, StillAlone
<1>. QED
  BY <1>3, <1>4

(* The source: what it sends is the only message between it and the sink.  *)
LEMMA SourceOrder ==
  ASSUME TypeOK, faults["dup"] = 0, \A q \in Source : Fits(q),
         NEW p \in Source, Start(p) \/ SendSegment(p) \/ RecvReply(p)
  PROVE  \A q \in Source : Fits(q)'
<1>1. /\ spc \in [Source -> {"new", "sending", "waiting", "done", "killed"}]
      /\ i \in [Source -> Nat] /\ toSource \in [Source -> Seq(ReplyType)]
      /\ toSink \in Seq(DatagramType)
  BY DEF TypeOK
<1>2. buf' = buf
  BY DEF Start, SendSegment, RecvReply, sinkVars
<1>3. OneUnderWay(p) /\ Reached(p) /\ Consecutive(buf, p)
  BY DEF Fits
<1>4. CASE Start(p)
  <2>1. /\ spc[p] = "new" /\ spc' = [spc EXCEPT ![p] = "sending"]
        /\ UNCHANGED <<i, toSink, toSource>>
    BY <1>4 DEF Start, netVars
  <2>2. ASSUME NEW q \in Source, q # p PROVE Fits(q)'
    BY <1>1, <1>2, <2>1, <2>2, Bystander, BystanderQueue
  <2>3. Pending(toSink, p) = {} /\ toSource[p] = <<>> /\ Upto(buf, p, i[p])
    BY <1>3, <2>1 DEF OneUnderWay, Reached
  <2>4. Fits(p)'
    BY <1>1, <1>2, <1>3, <2>1, <2>3 DEF Fits, OneUnderWay, Reached
  <2>. QED
    BY <2>2, <2>4
<1>5. CASE SendSegment(p)
  <2>. DEFINE d == Datagram(p, i[p] + 1)
  <2>1. /\ spc[p] = "sending" /\ spc' = [spc EXCEPT ![p] = "waiting"]
        /\ toSink' = Append(toSink, d) /\ UNCHANGED <<i, toSource>>
        /\ i[p] + 1 \in 1 .. Count[p]
    BY <1>5, CountRange DEF SendSegment, TypeOK, Active
  <2>2. d \in DatagramType /\ d.data.src = p /\ d.data.pos = i[p] + 1
    BY <2>1, DatagramTyped DEF Datagram, Segment
  <2>. HIDE DEF d
  <2>3. /\ DOMAIN toSink' = DOMAIN toSink \cup {Len(toSink) + 1}
        /\ toSink'[Len(toSink) + 1] = d
        /\ \A j \in DOMAIN toSink : toSink'[j] = toSink[j]
    BY <1>1, <2>1, <2>2, AppendAt
  <2>4. ASSUME NEW q \in Source, q # p PROVE Fits(q)'
    <3>1. /\ Pending(toSink', q) = Pending(toSink, q)
          /\ \A j \in Pending(toSink, q) : toSink'[j] = toSink[j]
      BY <2>2, <2>3, <2>4 DEF Pending
    <3>2. Alone(toSink', q, i[q] + 1)
      BY <3>1 DEF Fits, OneUnderWay, Alone
    <3>. QED
      BY <1>1, <1>2, <2>1, <2>4, <3>1, <3>2, Bystander
  <2>5. Pending(toSink, p) = {} /\ toSource[p] = <<>> /\ Upto(buf, p, i[p])
    BY <1>3, <2>1 DEF OneUnderWay, Reached
  <2>6. Pending(toSink', p) = {Len(toSink) + 1}
    BY <2>2, <2>3, <2>5 DEF Pending
  <2>7. Alone(toSink', p, i[p] + 1)
    BY <2>2, <2>3, <2>6 DEF Alone
  <2>8. Fits(p)'
    BY <1>1, <1>2, <1>3, <2>1, <2>5, <2>7 DEF Fits, OneUnderWay, Reached
  <2>. QED
    BY <2>4, <2>8
<1>6. CASE RecvReply(p)
  <2>. DEFINE acked == Head(toSource[p]).text = "ack"
  <2>1. /\ spc[p] = "waiting" /\ toSource[p] # <<>>
        /\ i' = [i EXCEPT ![p] = IF acked THEN @ + 1 ELSE @]
        /\ \E r \in {"sending", "done"} : spc' = [spc EXCEPT ![p] = r]
        /\ \E r \in {<<>>, Tail(toSource[p])} : toSource' = [toSource EXCEPT ![p] = r]
        /\ UNCHANGED toSink
    BY <1>6 DEF RecvReply
  <2>2. ASSUME NEW q \in Source, q # p PROVE Fits(q)'
    BY <1>1, <1>2, <2>1, <2>2, Bystander, BystanderQueue
  <2>3. /\ toSource[p] \in Seq(ReplyType) /\ Len(toSource[p]) = 1 /\ Pending(toSink, p) = {}
        /\ Upto(buf, p, IF toSource[p][1].text = "ack" THEN i[p] + 1 ELSE i[p])
    BY <1>1, <1>3, <2>1 DEF OneUnderWay, Reached
  <2>4. Tail(toSource[p]) = <<>> /\ Head(toSource[p]) = toSource[p][1]
    BY <2>3, TailOnly
  <2>5. i'[p] = (IF toSource[p][1].text = "ack" THEN i[p] + 1 ELSE i[p]) /\ toSource'[p] = <<>>
        /\ spc'[p] \in {"sending", "done"}
    BY <1>1, <2>1, <2>4
  <2>6. Upto(buf', p, i'[p])
    BY <1>2, <2>3, <2>5
  <2>7. OneUnderWay(p)'
    BY <2>1, <2>3, <2>5 DEF OneUnderWay, Alone
  <2>8. Fits(p)'
    BY <1>2, <1>3, <2>1, <2>5, <2>6, <2>7 DEF Fits, Reached
  <2>. QED
    BY <2>2, <2>8
<1>. QED
  BY <1>4, <1>5, <1>6

(* The sink: it takes the only message of a source, and if it answers the  *)
(* answer is the only one.                                                 *)
LEMMA SinkOrder ==
  ASSUME TypeOK, faults["dup"] = 0, \A q \in Source : Fits(q), SinkRecv
  PROVE  \A q \in Source : Fits(q)'
<1>1. PICK d : d = Head(toSink) /\ (Ignore(d) \/ Accept(d) \/ Refuse(d) \/ Overrun(d))
  BY Zenon DEF SinkRecv
<1>. PICK p : p = d.data.src
  OBVIOUS
<1>2. toSink # <<>> /\ toSink' = Tail(toSink) /\ UNCHANGED <<spc, i>>
  BY <1>1, Zenon DEF SinkRecv, Ignore, Accept, Refuse, Overrun, Receives, sourceVars
<1>3. /\ spc \in [Source -> {"new", "sending", "waiting", "done", "killed"}]
      /\ i \in [Source -> Nat] /\ toSource \in [Source -> Seq(ReplyType)]
      /\ toSink \in Seq(DatagramType) /\ buf \in Seq(DataType)
  BY DEF TypeOK
<1>4. /\ d = toSink[1] /\ 1 \in DOMAIN toSink
      /\ \A j \in DOMAIN toSink' :
           j \in Int /\ j + 1 # 1 /\ j + 1 \in DOMAIN toSink /\ toSink'[j] = toSink[j + 1]
  BY <1>1, <1>2, <1>3, TailAt
<1>5. d \in DatagramType
  BY <1>3, <1>4
<1>6. d.data \in DataType /\ p \in Source
  BY <1>5 DEF DatagramType, DataType
<1>7. OneUnderWay(p) /\ Reached(p) /\ Consecutive(buf, p) /\ 1 \in Pending(toSink, p)
  BY <1>4, <1>6 DEF Fits, Pending
<1>8. /\ d.data.pos = i[p] + 1 /\ \A j \in Pending(toSink, p) : j = 1
      /\ spc[p] \in {"waiting", "killed"} /\ toSource[p] = <<>> /\ Upto(buf, p, i[p])
  BY <1>4, <1>7 DEF OneUnderWay, Reached, Alone
<1>9. Pending(toSink', p) = {}
  BY <1>4, <1>8 DEF Pending
<1>10. Thins(toSink', toSink)
  BY <1>2, <1>3, TailThins
<1>11. i[p] \in Nat
  BY <1>3, <1>6
<1>12. CASE Ignore(d) \/ Overrun(d)
  <2>1. UNCHANGED <<toSource, buf>>
    BY <1>12 DEF Ignore, Overrun, sinkVars
  <2>2. ASSUME NEW q \in Source PROVE Fits(q)'
    BY <1>2, <1>10, <2>1, Bystander, BystanderQueue
  <2>. QED
    BY <2>2
<1>13. ASSUME NEW r \in ReplyType, Send(p, r),
              \/ buf' = buf /\ r.text # "ack"
              \/ buf' = Append(buf, d.data) /\ r.text = "ack"
       PROVE  \A q \in Source : Fits(q)'
  <2>1. /\ \A q \in Source : q # p => toSource'[q] = toSource[q]
        /\ toSource'[p] = <<>> \/ (toSource'[p] = <<r>> /\ spc[p] = "waiting")
    <3>1. toSource' = [toSource EXCEPT ![p] = IF Active(p) THEN Append(@, r) ELSE @]
      BY <1>13 DEF Send
    <3>2. Append(<<>>, r) = <<r>>
      OBVIOUS
    <3>3. toSource' = [toSource EXCEPT ![p] = IF Active(p) THEN <<r>> ELSE <<>>]
      BY <1>8, <3>1, <3>2
    <3>4. toSource'[p] = IF Active(p) THEN <<r>> ELSE <<>>
      BY <1>3, <1>6, <3>3
    <3>5. toSource'[p] = <<>> \/ (toSource'[p] = <<r>> /\ spc[p] = "waiting")
      <4>1. CASE Active(p)
        BY <1>8, <3>4, <4>1 DEF Active
      <4>2. CASE ~Active(p)
        BY <3>4, <4>2
      <4>. QED
        BY <4>1, <4>2
    <3>6. \A q \in Source : q # p => toSource'[q] = toSource[q]
      BY <1>3, <3>3
    <3>. QED
      BY <3>5, <3>6
  <2>2. ASSUME NEW q \in Source, q # p PROVE Fits(q)'
    <3>1. buf' = buf \/ \E x \in DataType : x.src # q /\ buf' = Append(buf, x)
      BY <1>6, <1>13, <2>2
    <3>. QED
      BY <1>2, <1>10, <2>1, <2>2, <3>1, Bystander, BystanderQueue
  <2>3. OneUnderWay(p)'
    <3>1. toSource'[p] # <<>> => spc[p] = "waiting" /\ Len(toSource'[p]) = 1
      BY <2>1
    <3>. QED
      BY <1>2, <1>9, <3>1 DEF OneUnderWay, Alone
  <2>4. /\ Consecutive(buf', p)
        /\ Upto(buf', p, IF r.text = "ack" THEN i[p] + 1 ELSE i[p])
    <3>1. CASE buf' = buf /\ r.text # "ack"
      BY <1>7, <1>8, <3>1
    <3>2. CASE buf' = Append(buf, d.data) /\ r.text = "ack"
      <4>1. Upto(Append(buf, d.data), p, i[p] + 1) /\ Consecutive(Append(buf, d.data), p)
        BY <1>3, <1>6, <1>7, <1>8, <1>11, RunAppend
      <4>. QED
        BY <3>2, <4>1
    <3>. QED
      BY <1>13, <3>1, <3>2
  <2>5. Reached(p)'
    <3>1. toSource'[p] # <<>> => toSource'[p][1] = r
      BY <2>1
    <3>2. spc[p] \notin {"new", "sending", "done"}
      BY <1>8
    <3>3. Upto(buf', p, i[p]) \/ Upto(buf', p, i[p] + 1)
      BY <2>4
    <3>. QED
      BY <1>2, <1>9, <2>4, <3>1, <3>2, <3>3 DEF Reached
  <2>6. Fits(p)'
    BY <2>3, <2>4, <2>5 DEF Fits
  <2>. QED
    BY <2>2, <2>6
<1>14. Reply("ack") \in ReplyType /\ Reply("ack").text = "ack"
       /\ Reply("nack") \in ReplyType /\ Reply("nack").text # "ack"
  BY DEF Reply, ReplyType
<1>15. CASE Accept(d)
  BY <1>13, <1>14, <1>15 DEF Accept
<1>16. CASE Refuse(d)
  BY <1>13, <1>14, <1>16 DEF Refuse
<1>. QED
  BY <1>1, <1>12, <1>15, <1>16

(* WriteFile, RemoveFile, Corrupt and LoseData leave the sources alone.    *)
LEMMA OtherOrder ==
  ASSUME TypeOK, faults["dup"] = 0, \A q \in Source : Fits(q),
         WriteFile \/ RemoveFile \/ Corrupt \/ LoseData
  PROVE  \A q \in Source : Fits(q)'
<1>1. toSink \in Seq(DatagramType)
  BY DEF TypeOK
<1>2. UNCHANGED <<spc, i, toSource>> /\ (buf' = buf \/ buf' = <<>>)
  BY DEF WriteFile, RemoveFile, Corrupt, LoseData, sourceVars, sinkVars, netVars
<1>3. toSink' = toSink \/ Thins(toSink', toSink)
  <2>1. CASE WriteFile \/ RemoveFile
    BY <2>1 DEF WriteFile, RemoveFile, netVars
  <2>2. CASE Corrupt
    BY <1>1, <2>2, DamageThins DEF Corrupt
  <2>3. CASE LoseData
    BY <1>1, <2>3, WithoutThins DEF LoseData
  <2>. QED
    BY <2>1, <2>2, <2>3
<1>4. ASSUME NEW q \in Source PROVE Fits(q)'
  BY <1>2, <1>3, Bystander, BystanderQueue
<1>. QED
  BY <1>4

(* A reply that is lost, or a source that is killed: no message is added.  *)
LEMMA LostOrder ==
  ASSUME TypeOK, faults["dup"] = 0, \A q \in Source : Fits(q),
         NEW p \in Source, LoseReply(p) \/ Kill(p)
  PROVE  \A q \in Source : Fits(q)'
<1>1. /\ spc \in [Source -> {"new", "sending", "waiting", "done", "killed"}]
      /\ toSource \in [Source -> Seq(ReplyType)]
      /\ UNCHANGED <<i, toSink, buf>>
  BY DEF TypeOK, LoseReply, Kill, sourceVars, sinkVars
<1>2. /\ spc' = spc \/ spc' = [spc EXCEPT ![p] = "killed"]
      /\ \E r \in {<<>>, Tail(toSource[p])} : toSource' = [toSource EXCEPT ![p] = r]
      /\ toSource[p] # <<>> \/ toSource'[p] = <<>>
  <2>1. CASE LoseReply(p)
    <3>1. toSource[p] # <<>> /\ toSource' = [toSource EXCEPT ![p] = Tail(@)] /\ spc' = spc
      BY <2>1 DEF LoseReply, sourceVars
    <3>. QED
      BY <3>1
  <2>2. CASE Kill(p)
    <3>1. spc' = [spc EXCEPT ![p] = "killed"] /\ toSource' = [toSource EXCEPT ![p] = <<>>]
      BY <2>2 DEF Kill
    <3>2. toSource'[p] = <<>>
      BY <1>1, <3>1
    <3>. QED
      BY <3>1, <3>2
  <2>. QED
    BY <2>1, <2>2
<1>3. ASSUME NEW q \in Source, q # p PROVE Fits(q)'
  BY <1>1, <1>2, <1>3, Bystander, BystanderQueue
<1>4. OneUnderWay(p) /\ Reached(p) /\ Consecutive(buf, p)
  BY DEF Fits
<1>5. toSource'[p] = <<>>
  <2>1. CASE toSource[p] # <<>>
    <3>1. toSource[p] \in Seq(ReplyType) /\ Len(toSource[p]) = 1
      BY <1>1, <1>4, <2>1 DEF OneUnderWay
    <3>2. Tail(toSource[p]) = <<>>
      BY <3>1, TailOnly
    <3>. QED
      BY <1>1, <1>2, <3>2
  <2>. QED
    BY <1>2, <2>1
<1>6. spc'[p] = spc[p] \/ spc'[p] = "killed"
  BY <1>1, <1>2
<1>7. OneUnderWay(p)'
  BY <1>1, <1>4, <1>5, <1>6 DEF OneUnderWay
<1>8. Reached(p)'
  BY <1>1, <1>4, <1>5, <1>6 DEF Reached
<1>9. Fits(p)'
  BY <1>1, <1>4, <1>7, <1>8 DEF Fits
<1>. QED
  BY <1>3, <1>9

(* A duplicate is the end of it.                                           *)
LEMMA Duplicated ==
  ASSUME TypeOK, DuplicateData \/ \E p \in Source : DuplicateReply(p)
  PROVE  faults'["dup"] # 0
<1>1. Fault("dup") /\ "dup" \in FaultKind /\ faults \in [FaultKind -> Nat]
  BY DEF TypeOK, DuplicateData, DuplicateReply, FaultKind
<1>2. faults' = [faults EXCEPT !["dup"] = @ + 1]
  BY <1>1 DEF Fault
<1>. QED
  BY <1>1, <1>2

LEMMA OrderStep == OrderInv /\ [Next]_vars => OrderInv'
<1>. SUFFICES ASSUME OrderInv, [Next]_vars PROVE OrderInv'
  OBVIOUS
<1>1. TypeOK /\ TypeOK'
  BY TypeStep DEF OrderInv
<1>2. SUFFICES ASSUME faults'["dup"] = 0 PROVE \A q \in Source : Fits(q)'
  BY <1>1 DEF OrderInv
<1>3. faults["dup"] = 0 /\ \A q \in Source : Fits(q)
  BY <1>1, <1>2, FaultsGrow DEF OrderInv, FaultKind
<1>4. CASE UNCHANGED vars
  BY <1>3, <1>4 DEF vars, Fits, OneUnderWay, Reached
<1>5. CASE \E p \in Source : Start(p) \/ SendSegment(p) \/ RecvReply(p)
  BY <1>1, <1>3, <1>5, SourceOrder
<1>6. CASE SinkRecv
  BY <1>1, <1>3, <1>6, SinkOrder
<1>7. CASE WriteFile \/ RemoveFile \/ Corrupt \/ LoseData
  BY <1>1, <1>3, <1>7, OtherOrder
<1>8. CASE \E p \in Source : LoseReply(p) \/ Kill(p)
  BY <1>1, <1>3, <1>8, LostOrder
<1>9. CASE DuplicateData \/ \E p \in Source : DuplicateReply(p)
  BY <1>1, <1>2, <1>9, Duplicated
<1>. QED
  BY <1>4, <1>5, <1>6, <1>7, <1>8, <1>9 DEF Next

(* Unless the network duplicates a message, what the sink has collected of *)
(* each source is a run of its segments that ends where the source is, for *)
(* any number of sources at the same time, whatever else goes wrong.       *)
THEOREM RunsOfSegments == Spec => []InOrderPerSource
<1>1. Init => OrderInv
  <2>. SUFFICES ASSUME Init PROVE OrderInv
    OBVIOUS
  <2>1. TypeOK
    BY InitType
  <2>2. ASSUME NEW p \in Source PROVE Fits(p)
    <3>1. /\ toSink = <<>> /\ buf = <<>> /\ i[p] = 0 /\ toSource[p] = <<>>
      BY DEF Init
    <3>2. Pending(toSink, p) = {}
      BY <3>1 DEF Pending
    <3>3. OneUnderWay(p)
      BY <3>1, <3>2 DEF OneUnderWay, Alone
    <3>. QED
      BY <3>1, <3>3, RunOfNone DEF Fits, Reached
  <2>. QED
    BY <2>1, <2>2 DEF OrderInv
<1>2. OrderInv => InOrderPerSource
  BY DEF OrderInv, InOrderPerSource, Fits, Reached, Upto
<1>. QED
  BY <1>1, <1>2, OrderStep, PTL DEF Spec
=============================================================================
