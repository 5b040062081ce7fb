------------------------------ MODULE Transfer ------------------------------
(***************************************************************************)
(* projects/project2: source.c sends a file to sink.c over UDP, one        *)
(* segment at a time.  The source puts a CRC in the header, sends, and     *)
(* blocks in recvfrom() until the text "ack" or "nack" comes back.  The    *)
(* sink collects the segments in memory and, after the one numbered 65534, *)
(* writes them to "new_file".  Neither side has a timer.                   *)
(*                                                                         *)
(* A segment of a file is a value: whose file it is, its place, and        *)
(* whether its bytes are those of the file or what the source's strncpy()  *)
(* made of them.  Damage on the way shows as a CRC that differs: errors    *)
(* the CRC cannot see are not modelled.  Even an empty file has one segment, so newFile = <<>> says   *)
(* that there is no new_file.  The number of segments of a file is a constant here; *)
(* module Segmentation is about how source.c computes it.                  *)
(***************************************************************************)
EXTENDS Integers, Sequences, FiniteSets

CONSTANTS
  Source,       \* the source processes, one per run of ./source
  Count,        \* Count[p]: how many segments p's file is cut into
  Unclean,      \* Unclean[p]: the segments of p that strncpy() cannot copy
  Concurrent,   \* may two sources run at the same time?
  Capacity,     \* segments that fit in the sink's BUFSIZE bytes
  MaxFaults     \* bounds on the faults of the environment, by kind

LAST == 65534                                \* number of a final segment

(* "corrupt" is damage to a segment that is not the final one.             *)
FaultKind == {"corrupt", "final", "loss", "dup", "kill"}

ASSUME TransferAssumption ==
  /\ Count \in [Source -> 1 .. (LAST - 1)]
  /\ Unclean \in [Source -> SUBSET Nat]
  /\ Concurrent \in BOOLEAN
  /\ Capacity \in Nat
  /\ MaxFaults \in [FaultKind -> Nat]

VARIABLES
  spc,        \* spc[p]: where the source p is
  i,          \* i[p]: segments acknowledged so far (the loop's i)
  toSink,     \* datagrams in the sink's socket
  toSource,   \* toSource[p]: replies in the socket of p
  rpc,        \* where the sink is
  seq,        \* the sink's seq: the number it saw last in this round
  buf,        \* the sink's data[0 .. count)
  newFile,    \* the file "new_file"
  faults      \* how many faults of each kind happened

sourceVars == <<spc, i>>
sinkVars   == <<rpc, seq, buf, newFile>>
netVars    == <<toSink, toSource>>
vars       == <<spc, i, toSink, toSource, rpc, seq, buf, newFile, faults>>

Active(p) == spc[p] \in {"sending", "waiting"}

(* A file of several segments goes through strncpy() of 65486 bytes, a     *)
(* short one through memcpy().  A segment with a NUL and other bytes       *)
(* behind it arrives with NULs in their place; so does, with garbage at    *)
(* its end, a last one of more than 65486 bytes (Segmentation's LongLast). *)
Marred(p, k) == Count[p] > 1 /\ k \in Unclean[p]

Segment(p, k) ==                 \* what p sends as its k-th segment
  [src |-> p, pos |-> k, body |-> IF Marred(p, k) THEN "marred" ELSE "whole"]

Prefix(p, n) == [k \in 1 .. n |-> Segment(p, k)]
Copy(p) == Prefix(p, Count[p])

SeqNo(p, k) == IF k = Count[p] THEN LAST ELSE k

Datagram(p, k) ==
  [id |-> 103, seq |-> SeqNo(p, k), data |-> Segment(p, k), crc |-> "matches"]

Reply(text) == [type |-> 1, text |-> text]

Init ==
  /\ spc = [p \in Source |-> "new"]
  /\ i = [p \in Source |-> 0]
  /\ toSink = <<>>
  /\ toSource = [p \in Source |-> <<>>]
  /\ rpc = "recv" /\ seq = 0 /\ buf = <<>>
  /\ newFile = <<>>
  /\ faults = [f \in FaultKind |-> 0]

-----------------------------------------------------------------------------
(* The source: main() and send_data(). *)

Start(p) ==
  /\ spc[p] = "new"
  /\ Concurrent \/ \A q \in Source : ~Active(q)
  /\ spc' = [spc EXCEPT ![p] = "sending"]
  /\ UNCHANGED <<i, netVars, sinkVars, faults>>

SendSegment(p) ==
  /\ spc[p] = "sending"
  /\ toSink' = Append(toSink, Datagram(p, i[p] + 1))
  /\ spc' = [spc EXCEPT ![p] = "waiting"]
  /\ UNCHANGED <<i, toSource, sinkVars, faults>>

(* Slip: the loop of send_data() goes on whatever the reply says.          *)
RecvReplyAny(p) ==
  /\ spc[p] = "waiting" /\ toSource[p] # <<>>
  /\ i' = [i EXCEPT ![p] = @ + 1]
  /\ spc' = [spc EXCEPT ![p] = IF i[p] + 1 = Count[p] THEN "done" ELSE "sending"]
  /\ toSource' = [toSource EXCEPT ![p] = Tail(@)]
  /\ UNCHANGED <<toSink, sinkVars, faults>>

(* Recvfrom() returned: only the text "ack" lets the loop go on, anything  *)
(* else sends the same segment again.                                      *)
RecvReply(p) ==
  /\ spc[p] = "waiting" /\ toSource[p] # <<>>
  /\ LET acked == Head(toSource[p]).text = "ack"
         last  == acked /\ i[p] + 1 = Count[p]
     IN  /\ i' = [i EXCEPT ![p] = IF acked THEN @ + 1 ELSE @]
         /\ spc' = [spc EXCEPT ![p] = IF last THEN "done" ELSE "sending"]
         /\ toSource' = [toSource EXCEPT ![p] = IF last THEN <<>> ELSE Tail(@)]
  /\ UNCHANGED <<toSink, sinkVars, faults>>

-----------------------------------------------------------------------------
(* The sink: recv_data().  A reply goes to the socket the datagram came    *)
(* from; it vanishes if that process is gone.                              *)

Send(p, r) ==
  toSource' = [toSource EXCEPT ![p] = IF Active(p) THEN Append(@, r) ELSE @]

Receives(d) ==
  /\ rpc = "recv"
  /\ toSink' = Tail(toSink)

(* A number not above the last one seen is dropped without a reply. *)
Ignore(d) ==
  /\ Receives(d) /\ d.seq <= seq
  /\ UNCHANGED <<sourceVars, toSource, sinkVars, faults>>

(* Slip: a number seen before is taken again.                              *)
AcceptAgain(d) ==
  /\ Receives(d) /\ d.crc = "matches"
  /\ seq' = d.seq
  /\ buf' = Append(buf, d.data)
  /\ Send(d.data.src, Reply("ack"))
  /\ rpc' = IF d.seq = LAST THEN "write" ELSE "recv"
  /\ UNCHANGED <<sourceVars, newFile, faults>>

(* seq is recorded, the data appended, the ack sent; a final segment still *)
(* has to be written.                                                      *)
Accept(d) ==
  /\ Receives(d) /\ d.seq > seq /\ d.crc = "matches"
  /\ seq' = d.seq
  /\ buf' = Append(buf, d.data)
  /\ Send(d.data.src, Reply("ack"))
  /\ rpc' = IF d.seq = LAST THEN "write" ELSE "recv"
  /\ UNCHANGED <<sourceVars, newFile, faults>>

(* Slips: the damaged data is kept; a damaged final segment does not end   *)
(* the inner loop.                                                         *)
RefuseKeepsData(d) ==
  /\ Receives(d) /\ d.seq > seq /\ d.crc = "differs"
  /\ seq' = IF d.seq = LAST THEN 0 ELSE d.seq
  /\ buf' = Append(buf, d.data)
  /\ Send(d.data.src, Reply("nack"))
  /\ UNCHANGED <<sourceVars, rpc, newFile, faults>>

RefuseStaysInLoop(d) ==
  /\ Receives(d) /\ d.seq > seq /\ d.crc = "differs"
  /\ seq' = d.seq
  /\ Send(d.data.src, Reply("nack"))
  /\ UNCHANGED <<sourceVars, rpc, buf, newFile, faults>>

(* The CRC differs: seq is recorded all the same.  After a final segment   *)
(* the inner loop ends and the outer one sets seq to 0 but keeps count.    *)
Refuse(d) ==
  /\ Receives(d) /\ d.seq > seq /\ d.crc = "differs"
  /\ seq' = IF d.seq = LAST THEN 0 ELSE d.seq
  /\ Send(d.data.src, Reply("nack"))
  /\ UNCHANGED <<sourceVars, rpc, buf, newFile, faults>>

(* memcpy() past the end of data is undefined: it may go unnoticed (Accept *)
(* above) or kill the sink before the ack is sent.                         *)
Overrun(d) ==
  /\ Receives(d) /\ d.seq > seq /\ d.crc = "matches" /\ Len(buf) >= Capacity
  /\ rpc' = "crashed"
  /\ UNCHANGED <<sourceVars, toSource, seq, buf, newFile, faults>>

(* Slips: count, or the outer loop's seq, is not set back to 0. *)
WriteFileKeepsCount ==
  /\ rpc = "write"
  /\ newFile' = IF newFile # <<>> THEN newFile ELSE buf
  /\ seq' = 0 /\ rpc' = "recv"
  /\ UNCHANGED <<sourceVars, netVars, buf, faults>>

WriteFileKeepsSeq ==
  /\ rpc = "write"
  /\ newFile' = IF newFile # <<>> THEN newFile ELSE buf
  /\ buf' = <<>> /\ rpc' = "recv"
  /\ UNCHANGED <<sourceVars, netVars, seq, faults>>

(* new_file is created with mode 0444: a second open() for writing fails,  *)
(* and so does the write(), whose result is only printed.                  *)
WriteFile ==
  /\ rpc = "write"
  /\ newFile' = IF newFile # <<>> THEN newFile ELSE buf
  /\ buf' = <<>> /\ seq' = 0 /\ rpc' = "recv"
  /\ UNCHANGED <<sourceVars, netVars, faults>>

SinkRecv ==
  /\ toSink # <<>>
  /\ LET d == Head(toSink)
     IN  Ignore(d) \/ Accept(d) \/ Refuse(d) \/ Overrun(d)

-----------------------------------------------------------------------------
(* The environment: the network and the user. *)

Fault(f) == /\ faults[f] < MaxFaults[f]
            /\ faults' = [faults EXCEPT ![f] = @ + 1]

Without(s, j) == SubSeq(s, 1, j - 1) \o SubSeq(s, j + 1, Len(s))

Corrupt == /\ \E j \in 1 .. Len(toSink) :
                /\ Fault(IF toSink[j].seq = LAST THEN "final" ELSE "corrupt")
                /\ toSink' = [toSink EXCEPT ![j].crc = "differs"]
           /\ UNCHANGED <<sourceVars, toSource, sinkVars>>

LoseData == /\ Fault("loss")
            /\ \E j \in 1 .. Len(toSink) : toSink' = Without(toSink, j)
            /\ UNCHANGED <<sourceVars, toSource, sinkVars>>

LoseReply(p) == /\ Fault("loss") /\ toSource[p] # <<>>
                /\ toSource' = [toSource EXCEPT ![p] = Tail(@)]
                /\ UNCHANGED <<sourceVars, toSink, sinkVars>>

(* A duplicate goes to the end of the queue, so it may also come late. *)
DuplicateData == /\ Fault("dup")
                 /\ \E j \in 1 .. Len(toSink) : toSink' = Append(toSink, toSink[j])
                 /\ UNCHANGED <<sourceVars, toSource, sinkVars>>

DuplicateReply(p) == /\ Fault("dup") /\ toSource[p] # <<>>
                     /\ toSource' = [toSource EXCEPT ![p] = Append(@, Head(@))]
                     /\ UNCHANGED <<sourceVars, toSink, sinkVars>>

Kill(p) == /\ Fault("kill") /\ Active(p)
           /\ spc' = [spc EXCEPT ![p] = "killed"]
           /\ toSource' = [toSource EXCEPT ![p] = <<>>]
           /\ UNCHANGED <<i, toSink, sinkVars>>

(* "Please remove new_file in directory before running program" *)
RemoveFile == /\ newFile # <<>> /\ \A p \in Source : ~Active(p)
              /\ newFile' = <<>>
              /\ UNCHANGED <<sourceVars, netVars, rpc, seq, buf, faults>>

-----------------------------------------------------------------------------
Next ==
  \/ \E p \in Source : Start(p) \/ SendSegment(p) \/ RecvReply(p)
  \/ SinkRecv \/ WriteFile
  \/ Corrupt \/ LoseData \/ DuplicateData
  \/ \E p \in Source : LoseReply(p) \/ DuplicateReply(p) \/ Kill(p)
  \/ RemoveFile

Spec == Init /\ [][Next]_vars

(* A process that can run is scheduled in the end.  Starting, killing and  *)
(* removing are the user's; faults need not happen.                        *)
Fairness ==
  /\ \A p \in Source : WF_vars(SendSegment(p)) /\ WF_vars(RecvReply(p))
  /\ WF_vars(SinkRecv) /\ WF_vars(WriteFile)

FairSpec == Spec /\ Fairness

-----------------------------------------------------------------------------
(* Properties. *)

(* The variables keep their types: counters within the file's segments,    *)
(* queues of well-formed datagrams and replies.                            *)
DataType ==
  {x \in [src : Source, pos : 1 .. LAST, body : {"whole", "marred"}] : x.pos <= Count[x.src]}
DatagramType ==
  [id : {103}, seq : 1 .. LAST, data : DataType, crc : {"matches", "differs"}]
ReplyType == [type : {1}, text : {"ack", "nack"}]

TypeOK ==
  /\ spc \in [Source -> {"new", "sending", "waiting", "done", "killed"}]
  /\ i \in [Source -> Nat]
  /\ \A p \in Source : /\ i[p] <= Count[p]
                       /\ Active(p) => i[p] < Count[p]
                       /\ spc[p] = "new" => i[p] = 0
  /\ toSink \in Seq(DatagramType)
  /\ toSource \in [Source -> Seq(ReplyType)]
  /\ rpc \in {"recv", "write", "crashed"}
  /\ seq \in 0 .. LAST
  /\ buf \in Seq(DataType)
  /\ newFile \in Seq(DataType)
  /\ faults \in [FaultKind -> Nat]
  /\ \A f \in FaultKind : faults[f] <= MaxFaults[f]

(* new_file, once written, is byte for byte the file of one source, every  *)
(* segment once and in order, whatever was damaged or lost on the way,     *)
(* with one exception: a segment that strncpy() marred is at its place     *)
(* with the bytes strncpy() left of it, and nothing else differs.          *)
Original(p) == [k \in 1 .. Count[p] |-> [src |-> p, pos |-> k, body |-> "whole"]]
FileIntegrity ==
  newFile # <<>> => \E p \in Source :
    /\ Len(newFile) = Count[p]
    /\ \A k \in 1 .. Count[p] :
         newFile[k] = Original(p)[k] \/ (Marred(p, k) /\ newFile[k] = Segment(p, k))

(* While a source runs, the sink holds what that source knows to be        *)
(* acknowledged or exactly one segment more: it is never behind it.  (The  *)
(* exceptions: the file before is still to be written, or this one just    *)
(* was.)                                                                   *)
Lockstep ==
  \A p \in Source : Active(p) =>
    \/ buf = Prefix(p, i[p])
    \/ buf = Prefix(p, i[p] + 1)
    \/ i[p] = 0 /\ rpc = "write"
    \/ i[p] + 1 = Count[p] /\ buf = <<>>

(* A source waits for a reply and nothing that could bring one is under    *)
(* way: it will wait for ever, there being no timer.                       *)
Stuck(p) ==
  /\ spc[p] = "waiting" /\ toSource[p] = <<>>
  /\ \A j \in DOMAIN toSink : toSink[j].data.src # p

(* The only ways to get stuck: the network lost a datagram, the sink died, *)
(* or the sink has recorded the number of a damaged segment that is not    *)
(* the last one and so ignores the segment when it comes again.            *)
Excused(p) ==
  \/ faults["loss"] > 0
  \/ rpc = "crashed"
  \/ seq = i[p] + 1 /\ buf = Prefix(p, i[p])
StallCause == \A p \in Source : Stuck(p) => Excused(p)

(* Whatever else the network and the users do, as long as no final segment *)
(* is damaged: what the sink collects, and what it wrote, has strictly     *)
(* increasing segment numbers, so no segment is ever stored twice.         *)
Increasing(s) ==
  \A j, k \in DOMAIN s : j < k => SeqNo(s[j].src, s[j].pos) < SeqNo(s[k].src, s[k].pos)
NoSegmentTwice == faults["final"] = 0 => Increasing(buf) /\ Increasing(newFile)

(* Sources at the same time, some killed, messages damaged and lost but    *)
(* not duplicated: what the sink holds of each source, at the places       *)
(* Held(buf, p), is a run of consecutive segments that ends with the one   *)
(* the source is about to know of or knows of, however others interleave.  *)
Held(b, p) == {j \in DOMAIN b : b[j].src = p}
Latest(b, p, j) == \A m \in Held(b, p) : m <= j
Adjacent(b, p, j, k) == j < k /\ \A m \in Held(b, p) : m <= j \/ k <= m
Consecutive(b, p) ==
  \A j, k \in Held(b, p) : Adjacent(b, p, j, k) => b[k].pos = b[j].pos + 1
InOrderPerSource ==
  faults["dup"] = 0 => \A p \in Source :
    /\ Consecutive(buf, p)
    /\ \A j \in Held(buf, p) : Latest(buf, p, j) => buf[j].pos \in {i[p], i[p] + 1}

(* Every source that is started gets all of its segments acknowledged, and *)
(* then there is a new_file, or it is stuck for one of these reasons:      *)
(* damage to a final segment is none.                                      *)
GaveUp(p) == Stuck(p) /\ Excused(p)
Completes ==
  \A p \in Source : spc[p] = "sending" ~> (spc[p] = "done" /\ newFile # <<>>) \/ GaveUp(p)

(* The sink's memory and new_file behave as a file copier's: see FileCopy. *)
FC == INSTANCE FileCopy WITH got <- buf, store <- newFile
Implements == FC!Spec

(* What the repository says of the program.                                *)

(* answers.txt: after a run with new_file removed before it, diff finds    *)
(* that new_file is the file that was sent.                                *)
DiffIsEmpty == newFile # <<>> => \E p \in Source : newFile = Original(p)
=============================================================================
