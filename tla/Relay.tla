-------------------------------- MODULE Relay -------------------------------
(***************************************************************************)
(* labs/lab08: source.c sends a file and its CRC in one datagram, gateway.c *)
(* passes it on and may damage it, sink.c checks the CRC and prints the    *)
(* text or an error.  Each program does this once and ends.  A datagram to *)
(* a port that nobody has opened is lost.                                  *)
(***************************************************************************)
EXTENDS Crc, FiniteSetsExt

CONSTANT Message      \* contents of files, sequences of bytes

ConstantsOK == CrcConstantsOK /\ cm_width = 16 /\ Message \subseteq Seq(Byte)

VARIABLES
  file,      \* what the source has read
  spc,       \* the source: "start" or "done"
  gpc,       \* the gateway: "start", "recv" or "done"
  kpc,       \* the sink: "start", "recv", "accepted" or "rejected"
  toGateway, \* datagrams in the gateway's socket
  toSink,    \* datagrams in the sink's socket
  msg,       \* the datagram the sink has received
  shown      \* the text it has printed

vars == <<file, spc, gpc, kpc, toGateway, toSink, msg, shown>>

Init ==
  /\ file = <<>>
  /\ spc = "start" /\ gpc = "start" /\ kpc = "start"
  /\ toGateway = <<>> /\ toSink = <<>>
  /\ msg = <<>> /\ shown = <<>>

Datagram(f) == f \o BytesOf(generate_crc(f), 2)

-----------------------------------------------------------------------------
Source ==
  /\ spc = "start"
  /\ file' \in Message
  /\ toGateway' = IF gpc = "recv" THEN <<Datagram(file')>> ELSE <<>>
  /\ spc' = "done"
  /\ UNCHANGED <<gpc, kpc, toSink, msg, shown>>

OpenGateway ==
  /\ gpc = "start"
  /\ gpc' = "recv"
  /\ UNCHANGED <<file, spc, kpc, toGateway, toSink, msg, shown>>

FirstNul(m) == Min({k \in DOMAIN m : m[k] = 0})

(* strcat(msg, "!") puts a "!" in place of the first NUL and a NUL after   *)
(* it.  Without a NUL in the datagram that happens behind its end, in      *)
(* bytes that are not sent.                                                *)
Strcat(m) ==
  IF \A k \in DOMAIN m : m[k] # 0 THEN m
  ELSE [k \in DOMAIN m |-> IF k = FirstNul(m) THEN 33
                           ELSE IF k = FirstNul(m) + 1 THEN 0 ELSE m[k]]

(* random_num is what random() returned, modulo 10. *)
Gateway(random_num) ==
  /\ gpc = "recv" /\ toGateway # <<>>
  /\ LET m == Head(toGateway)
         sent == IF random_num \in {1, 2} THEN Strcat(m) ELSE m
     IN  toSink' = IF kpc = "recv" THEN <<sent>> ELSE <<>>
  /\ gpc' = "done" /\ toGateway' = <<>>
  /\ UNCHANGED <<file, spc, kpc, msg, shown>>

OpenSink ==
  /\ kpc = "start"
  /\ kpc' = "recv"
  /\ UNCHANGED <<file, spc, gpc, toGateway, toSink, msg, shown>>

(* printf("%s") stops at the first NUL. *)
Printed(m) ==
  IF \A k \in DOMAIN m : m[k] # 0 THEN m ELSE SubSeq(m, 1, FirstNul(m) - 1)

(* Slip: the CRC is not cut off. *)
SinkKeepsCrc ==
  /\ kpc = "recv" /\ toSink # <<>>
  /\ msg' = Head(toSink) /\ toSink' = <<>>
  /\ IF generate_crc(Head(toSink)) = {}
     THEN kpc' = "accepted" /\ shown' = Printed(Head(toSink))
     ELSE kpc' = "rejected" /\ UNCHANGED shown
  /\ UNCHANGED <<file, spc, gpc, toGateway>>

Sink ==
  /\ kpc = "recv" /\ toSink # <<>>
  /\ msg' = Head(toSink) /\ toSink' = <<>>
  /\ LET m == Head(toSink)
     IN  IF generate_crc(m) = {}
         THEN kpc' = "accepted" /\ shown' = Printed(SubSeq(m, 1, Len(m) - 2))
         ELSE kpc' = "rejected" /\ UNCHANGED shown
  /\ UNCHANGED <<file, spc, gpc, toGateway>>

-----------------------------------------------------------------------------
Next ==
  \/ Source \/ OpenGateway \/ OpenSink \/ Sink
  \/ \E n \in 0 .. 9 : Gateway(n)

Spec == Init /\ [][Next]_vars

-----------------------------------------------------------------------------
(* Properties. *)

TypeOK ==
  /\ file \in Message \cup {<<>>}
  /\ spc \in {"start", "done"}
  /\ gpc \in {"start", "recv", "done"}
  /\ kpc \in {"start", "recv", "accepted", "rejected"}
  /\ toGateway \in Seq(Seq(Byte)) /\ toSink \in Seq(Seq(Byte))
  /\ msg \in Seq(Byte) /\ shown \in Seq(Byte)

(* crctest.c: the CRC of "123456789" is "check-sum 0xbb3d".                *)
TestVector == BytesOf(generate_crc([k \in 1 .. 9 |-> 48 + k]), 2) = <<61, 187>>

(* With the polynomial of lab08 the CRC is that of crctest.c, and the sink *)
(* accepts a datagram only if the gateway did not change it: the CRC       *)
(* misses none of the changes that strcat() makes, not even one that       *)
(* reaches into the CRC itself.  The sink then prints the file as far as a *)
(* C string reaches.                                                       *)
DamageSeen ==
  /\ TestVector
  /\ kpc = "accepted" => msg = Datagram(file) /\ shown = Printed(file)

(* With any polynomial a datagram that was not changed is never taken for  *)
(* a damaged one: the CRC over a file and its own two bytes is 0.  Bytes   *)
(* above 127 are negative chars, and the ones they are extended with go    *)
(* through reflect() and into the register: they do not change the CRC,    *)
(* which stays within its width.                                           *)
CrcRight ==
  /\ TypeOK
  /\ kpc = "rejected" => msg # Datagram(file)
  /\ generate_crc(file) = CrcOf([k \in DOMAIN file |-> Unsigned(file[k])])
  /\ generate_crc(file) \subseteq 0 .. cm_width - 1
=============================================================================
