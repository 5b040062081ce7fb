# A formal model of the csci363 network programs

The repository holds the programs of a course on computer networks: small C
programs that talk over UDP, TCP and pipes, written lab by lab, and one larger
project. This directory holds TLA+ modules of those programs, configurations
that let TLC check them on small instances, and proofs that the TLA+ proof
system (TLAPS) checks for every instance.

    tlc  -config MCTransfer_faults.cfg MCTransfer     # one of the runs below
    tlapm TransferProofs.tla                          # one of the proof modules

Contents: 1 Inventory, 2 Plan, 3 Modules and code, 4 Runs, 5 Proofs,
6 Disagreements found, 7 What is not modelled.

Paths are relative to `src/`. PROJECT.json names for each definition the lines it
stands for, for each property a mutated definition that breaks it, and the
hazards at their lines.

## 1 Inventory

| component | state it keeps | operations | talks to |
|---|---|---|---|
| **File transfer** `projects/project2/source.c`, `sink.c` | source: loop counter `i`; sink: `seq`, the collected bytes and their `count`, the file `new_file` | send a segment, wait for ack or nack; receive, check, collect, acknowledge, write the file | each other, over UDP, without a timer on either side |
| **Segmentation** `source.c` 128-166 | offset and number of the segment | number, length, offset and header of each segment | the file transfer |
| **readn / writen** `labs/lab02/readn.c`, `writen.c` | bytes left in the call | loops around `read()` and `write()` | fortune programs, through a TCP connection |
| **Fortune server** and clients `labs/lab02/fortune-server.c`, `fortune-client.c`, `stats-client.c` | table of cookies given out: two arrays and a counter | accept, read "cook" or "stat", answer in two writes, close | clients, one connection at a time |
| **Forking fortune server** `labs/lab02/fortune-serverd.c` | the same table, copied by `fork()`; number of connections | the same in one child per connection; ends after 10 | clients, all at once |
| **Super server** and clients `labs/lab05` | `readmask`, the sockets, the children | `select()`, accept, fork; time, echo and getwho in the child | time clients over UDP, echo and getwho clients over TCP; all children share the UDP socket |
| **Relay with CRC** `labs/lab08/source.c`, `gateway.c`, `sink.c`, `crcmodel.c` | a datagram; the 16-bit CRC register | send with CRC, damage, check | each other, over UDP, one datagram |
| **Web server** and client `labs/lab01/simple-web-server-client` | document root, the connection | GET, HEAD, POST, one connection at a time | web clients, and its file system |
| **Doubly linked list** `labs/lab01/dlist.c` | head, tail, links | insert, remove, traverse | its driver `test_dlist.c` |
| **Cookies** `labs/lab02/cookies.c` | the text, the number of cookies | split a text at `%` lines | fortune servers |
| **List service** `labs/lab04/list*.c` | a linked list | send the records of a list over TCP, build it again | sender and receiver |
| **Reflector and Internet checksum** `labs/lab04/reflectord.c`, `udp-sender.c`, `inet-checksum-skeleton.c` | the packet variable of the reflector, never cleared | send a packet with its checksum, append a dot, send it back, compare | each other, through one TCP connection per packet |
| **Remote shell** `labs/lab06/native/rshd.c`, `rshClient.c` | children, one per connection | authenticate, run a command | its client, the password file |
| **Password tools** `labs/lab06/native/mypasswd.c`, `login.c`, `pwd.c`, `shadow.c` | the password file | look up, rewrite a line in place | remote shell, through the file |
| **Traceroute** `labs/lab07/traceroute.c` | hop, probe | probe with rising TTL, take replies | ICMP |
| **RSA echo** `labs/lab11/rsa-app` | two keys per connection | exchange keys, echo in encrypted blocks | client and server over TCP |
| **Packet tracers** `labs/lab09`, `labs/lab10` | none | format captured packets | libpcap |

How they behave when it is hard, and what makes each one correct:

* **File transfer.** No timer, acks without a number, a sink with one buffer for
  all senders that it resets only after a final segment, a final ack that leaves
  before the file is written. Correct: the file written is one whole file; sink
  and source agree on the place; a source stops only for a reason that can be
  named; damage is repaired by a retry.
* **Segmentation.** 16-bit header fields, segments of 65486 bytes, a remainder
  taken modulo 65536. Correct: the segments tile the file, nothing is truncated.
* **readn / writen.** Short counts, peers that die. Correct: both sides agree on
  where a length starts, and nobody hangs.
* **Fortune server.** Parallel arrays, a search that looks one entry too far, a
  client gone between two writes. Correct: counts are of the cookies given out,
  indexes stay inside the arrays, each client is served.
* **Forking server.** Copies of the table, a parent that ends before its
  children. Correct: who is turned away, and that everybody hears something.
* **Super server.** A datagram seen by the parent and read by any child, three
  blocking services in one child, zombies. Correct: no connection is held twice
  or forgotten, and requests are answered.
* **Relay.** A damage that reaches into the CRC, sign extension. Correct: damage
  and only damage is reported.
* **Web server.** Words scanned into arrays that outlive the request, a form read
  with one `recv()`, files that change between `stat()` and `fopen()`,
  connections that are shut down and never closed, clients that never send.
  Correct: each client is answered for what it asked, and what ends the server or
  keeps a client waiting can be named.
* **Dlist, cookies, checksum.** The last element, an empty text, odd lengths.
  Correct: the list is the sequence of its words, the cookies are the pieces of
  the file, the checksum is that of the test vectors.
* **List service, RSA echo.** Records and blocks read with boundaries other than
  those they were written with. Correct: what arrives is what was sent, exactly
  when each `read()` takes one record.
* **Remote shell, password tools.** Children that go back to `accept()`, a
  limit on processes, a name and a password in one read; a file rewritten in place
  at an offset found earlier, names that begin other names. Correct: whoever logs
  in is answered; each user has one password, the one set last.
* **Traceroute.** Late and foreign answers, no timer. Correct: the lines name
  the routers of their hops.

## 2 Plan

Order of the work: 1. `Transfer`, `FileCopy`, proofs; 2. `Segmentation`, proofs;
3. `StreamIO`, proofs; 4. `FortuneTable`, `FortuneServer`, proofs,
`FortuneServerd`; 5. `SuperServer`; 6. `Crc`, `Relay`; 7. `WebServer`;
8. `Rshd`, `Passwd`; 9. `BareRead`, `SecureEcho`, `ListTransfer`; 10. `Reflector`,
`Dlist`, `Traceroute`, `Cookies`; 11. `Labs`, which puts the small programs of 6 and
8 to 10 side by side, and `MCLabs`, its instance; 12. the proofs of 4, 5, 7 and of
the nine programs of `Labs`.

All of this is done. Every safety property that a run checks is also a theorem; the
liveness properties are left to TLC.

Which module composes which: `TransferProofs` instantiates `FileCopy` through
`Transfer`; `CountFits` in `SegmentationProofs` discharges what `Transfer`
assumes of `Count`; the two fortune servers share `FortuneTable`, and their
reads and writes are those of `StreamIO`, whose theorem (a reader is never out
of step) is why the servers may treat a length and a text as one message each.
The programs of lab04 and lab11 read without such a loop: `SecureEcho` and
`ListTransfer` are written on top of `BareRead`, which says what one `read()` may
return. `Relay` is written on top of `Crc`. `Labs` instantiates nine of the modules with
one set of variables: a behaviour is one of theirs, chosen by `program`.

## 3 Modules and code

### Transfer and FileCopy (project2)

`Transfer` has the variables of both programs: `i` of the loop in `send_data()`,
`seq`, `buf` (`data[0..count)`) and the file of `recv_data()`, a program counter
for each process, and the sockets as queues.

| action | code |
|---|---|
| `Start`, `SendSegment`, `RecvReply` | source.c `send_data()`: the head of the loop with its header, `sendto()`, and what follows `recvfrom()` |
| `Ignore`, `Accept`, `Refuse` | sink.c: number not above `seq`; CRC right; CRC wrong |
| `WriteFile` | sink.c after a final segment: `open()`, `write()`, `count = 0`, and `seq = 0` at the head of the outer loop |
| `Overrun` | `memcpy()` past the buffer, which the process may or may not survive |
| `Corrupt` ... `DuplicateReply` | the network |
| `Kill`, `RemoveFile` | the user |

A segment is abstract: whose it is, its place, and whether it has the bytes of the file
or those that `strncpy()` made of them (`Marred`): of a segment with a NUL in it the bytes
after the NUL are gone, and of a last one of more than 65486 bytes those beyond. The file
itself is `Original`, which `FileIntegrity` compares new_file with. The CRC is a flag, so an error that a CRC cannot see is not
in the model. In the header, `id` is the constant 103: `random()` is never
seeded, so every run of the source draws the same number. `new_file` is created
with mode 0444, and a second `open()` for writing fails without anyone looking;
the model keeps the old file.

`FileCopy` is what the pair is for: memory grows by the next piece of one file,
and a complete file is stored unless there is one already.

### Segmentation (project2)

The numbers as they are: segments of 65486 bytes, headers with 16-bit fields
(`% 65536`), a datagram of at most 65507 bytes. `SendSegment`, `Refused`
(`sendto()` fails, `Sendto()` exits), `Acked`, `Nacked`. `Copied` is how much of a segment
`strncpy()` brings into the datagram, 65486 bytes at most; `sound` counts the bytes at the
sink that are the file's. Of all lengths that fit an `int`, two (`LongLast`) have a last segment of a
few bytes more that `sendto()` still takes: they end in memory that was never set.

### StreamIO (lab02)

A writer that calls `writen()` and a reader that calls `readn()` with the same
sizes, and the bytes between them. One action per iteration of each loop; the
number of bytes moved is chosen freely. An interrupted call moves nothing and is
a stuttering step. Bytes are counted, not named, since a stream keeps their order.

### FortuneTable, FortuneServer, FortuneServerd (lab02)

`FortuneTable` is the table as a record and the two pieces of
`process_request()` that use it. `Found` is `searchArray()` with its `i <= count`:
the entry behind those in use is looked at as well, and holds the 0 that
`fillArray()` left there.

`FortuneServer` is the loop of `main()`: `Accept`, `Cook`, `Stats`,
`NeitherRequest`, `WriteLen`, `WriteText`, `BrokenPipe`, with clients that are
run again and again and may be killed. `given` is a history variable: what was
really given out.

`FortuneServerd` forks: `Accept`, `Fork`, `ForkFails`, `Return` are the parent's,
`Cook`, `Stats`, `NeitherRequest`, `WriteLen`, `WriteText` those of a child with its
copy of the table. A parent whose `fork()` fails exits, as one does that has
served MAX_REQ connections. Children inherit the listening socket and do not close
it, so connections are taken (and never accepted) as long as one child lives;
`GetNothing` is a client whose connection nobody holds any more.

### SuperServer (lab05)

`readmask` holds the descriptors to look at, and after `Select` those that are
ready: the three sockets are set again at the head of each round, descriptor 0
only once before the loop. `Fork` is `acceptConn()` for what is ready and `fork()`; a
child gets a list of services in the order time, echo, who. Nobody waits for a
child and the parent closes nothing, so both the forks that can succeed (`MaxProc`)
and the connections that can be accepted (`room`) are used up: `accept()` then
fails, the connection stays in its queue, and the loop forks for it again and
again. `TimeService` reads the shared socket, so it answers whoever is first there.

### Crc and Relay (lab08)

`Crc` is `crcmodel.c` bit by bit, a word being the set of its bits that are set,
with the parameters of `generate_crc()`; a byte passes through a signed `char`
(`Char`), which fills the higher bits. `Relay` is one run of each of the three
programs, started in any order; what the gateway's `strcat()` does to the
datagram is `Strcat`. `Gateway(n)` leaves `n`, what `random()` returned, open:
the library decides it (with the generator of glibc and no seed it is 3, and the
datagram is not touched). `Relay` fixes `cm_width` at the 16 of `setup()`; polynomial and
`Ulong` are free.

### WebServer (lab01)

A request is the number of words of its first line, the words, and the form that
a POST sends. `ReadRequest` scans the line into `scanned`, the arrays of `main()`,
which keep what the line does not bring (`Scan`); `BadRequest`, `process_get`,
`process_head`, `process_post` are the branches of `Serve`. A GET or HEAD that found its file
goes on in `read_file`, a step later, as the owner may remove the file in between
(`ChangeFile`). `TakeForm` is the one `recv()` of a form that `SendForm` delivers in
pieces. `skips` is what the compiler makes of `fname = fname++`, chosen once.
Nothing is closed: `fds` only grows, and `Accept` exits when it is at `limit`. The connection
that takes the last descriptor leaves none for `fopen()` (`CannotOpen`), whose result is used unseen.

### Rshd and Passwd (lab06)

`Rshd` has the processes of rshd as a number of acceptors and the stage of each
connection. `Connect`, `WriteName`, `WritePassword`, `Kill` are rshClient and its user;
`Accept` is `accept()` with `fork()` by any acceptor, `Read` one of the two reads, which
takes all that has come, `Succeed` and `Refuse` what follows. A child that has
refused is one acceptor more. Of an empty password no byte is written, so nothing arrives for the
second read; the client has made the write all the same (`wrote`).

`Passwd` is the file shadow as a sequence of tokens of the same width. `Locate` finds the
record by the first line that begins with what was typed, `WriteBack` writes over
the bytes at that place, or at the end, when the user has typed a password; other
invocations come in between. `spoilt` is a history variable: the users whose record a write may
have cost, by where it went (`Spoils`). `Login` is login.c. `ConstantsOK` asks that the first file has the form of one that
these tools write and read (`ShadowFile`), as those kept in the repository have.

### BareRead, SecureEcho, ListTransfer (lab11, lab04)

A stream is a sequence of halves of parts; `Takes` is what one `read()` may return: any
beginning of what has come. `SecureEcho` has one action per `reads()` or `writes()` of
both programs; after a `read()` that took more or less than a block, the block that
is missing, or the rest that is dropped, is gone for good. `odd` is the set of
clients this has happened to. `Die` is the server killed by SIGPIPE. `ListTransfer` is
`MakeList`, `SendLength`, `SendNode` of the sender and `ReadLength`, `ReadNode` of the receiver,
with memory from `malloc()` that may hold anything (0 stands for junk); of a node whose end is missing
all that is printed may have come (`Shown`).

### Reflector, Dlist, Traceroute, Cookies

`Reflector`: `Send` builds a packet with `Checksum`, `Reflect` reads it over the packet of
the time before and appends the dot, `Judge` reads it back and compares. The
numbers are those of the code. `Dlist`: `Insert`, `dlist_remove` with its walk along `next`
(`Visited`) and what it links (`Unlink`), in the order of the driver; a use of a
freed node ends in `stray`, a null pointer that is followed in `crash`. `StopsAt` is the node at
which the walk ends. The operators on sequences that these modules need are short and
written out: every module that an instance extends is copied into each step of the proofs. `Traceroute`:
`SendProbe`, `Receive`, and the network that delivers, loses or brings what is for
others. `Cookies`: `Walk` is the loop of `get_i_th_cookie()` as a recursive function.

A definition marked "slip" is not in the code: it is the mistake a property would
catch, and is used only by the mutants of PROJECT.json.

## 4 Runs

Every run checks what its `.cfg` lists. They take between
a few seconds and about two minutes (`super`).

| run | instance and bounds | what it shows |
|---|---|---|
| `transfer_faults` | sources of 4 and 3 segments, one after the other, NUL in the first segment of each, up to 2 damaged segments and 3 damaged final ones, 1 loss | `FileIntegrity`: the file is one whole file, byte for byte but in segments that `strncpy()` marred, and these are at their places. `Lockstep`: the sink is never behind, at most one ahead. `StallCause`, `Completes`: a source finishes and its file is there, or it waits for ever for one of three causes: a loss, a sink that died, or a *refused segment that is not the last one*, whose number the sink has already recorded and will not take again. `Implements`: FileCopy |
| `transfer_chaos` | sources of 3 and 2 segments at the same time, 1 of each damage, 1 loss, 2 duplicates, 1 kill, a sink with room for 4 | `InOrderPerSource`: without duplicates, what the sink holds of a source is a run of consecutive segments up to its last. `NoSegmentTwice`: none is stored twice unless a final segment was damaged |
| `transfer_restart` | one kill | `DiffIsEmpty` is violated, see 6 |
| `segmentation` | about 430 lengths: 6 below to 6 above each of the first 16 multiples of 65486 and 65536, the files kept in the repository, and two multiples of 65536 with more than a thousand segments | `WholeFile`: the sink gets the bytes of the file, all and in order, but for the last 1 to 5 of a file of 944177152 or of 1545011200 bytes. `Carried`: no number is truncated in the header, only the last segment is marked. `FailsOnlyAt`: the source gives up only at the last segment of a file whose length is a multiple of 65536, 6 bytes or more over full segments |
| `stream` | 3 lengths and 3 texts, one of them empty, a connection of 3 bytes, either side killed anywhere | `InStep`, `ShortOnlyIfKilled`, `NobodyHangs`, `GetsThrough` |
| `fortune` | 2 clients, one of which may stop before it sends, 3 cookies in arrays of 3, 4 cookies given out, 1 kill | `EntriesDiffer`: the search stays inside arrays that are exactly full. `EveryCookieCounted`. `StatsTrue`: answers are right until cookie 0 is given out. `Served` |
| `fortune_stats` | the same, smaller | violated, see 6 |
| `fortune_fork` | 3 clients, 1 kill, server of 2 connections, a `fork()` that may fail | `NoStatistics`: no answer of a child ever names a cookie. `TurnedAwayLate`: who is turned away. `Heard` |
| `super` | 2 time clients, 1 echo client that may be killed and may never type, 1 who client, 4 forks, descriptors for 1 or 2 connections, somebody who may type | `HeldOnce`: an unanswered connection is in one place, and without typing there are children enough for the datagrams. `TimeAnswered`: unless somebody types or descriptors run out, every time request is answered. `ServedWithoutTime`: who else waits, waits for a user who never types |
| `super_handled` | one client of each kind | violated, see 6 |
| `web` | 2 clients, one of which may stay silent, 16 requests that reach every branch, 3 files, 1 to 3 descriptors, 1 kill, 1 changed file | `OwnAnswer`: each client is answered for its own line. `DiesOnlyOf`: what ends the server, the want of a descriptor for the file included. `Answered`: what keeps a client waiting |
| `labs` | the nine small programs of `Labs`, one chosen by the first state | see below |

The parts of `labs`, with their instances in `MCLabs`:

| program | instance | what it shows |
|---|---|---|
| `rshd` | 2 users, 2 logins each, 3 processes, a right and a wrong password, an empty one, for an account without password and for another, a name without account, one unknown | `Processes`: a refusal costs a process for good. `LoginAnswered`: who waits for ever and why |
| `echo` | a client with a short text and one with a text of 3 blocks | `EchoRight`, `Ends`: right if and only if the text is short, every read took a block and the server lived |
| `list` | 4 nodes | `PrintedOnce`: no node twice or out of order; the whole list if each read took one part, and only if, but for the end of the last node |
| `reflector` | an odd and an even text, 2 runs, two kinds of garbage | `DotNoticed`: the test vectors, and that an appended dot is seen behind odd texts and not behind even ones |
| `dlist` | 5 words of 5 letters, equal ones included | `ListRight`: what is left, what is freed, and for which nodes the driver fails |
| `traceroute` | 3 hops of 5, 2 foreign messages | `RouteTrue` |
| `cookies` | every file of up to 5 characters that does not begin with a percent sign | `CookieRight`: the cookies are the pieces of the file |
| `passwd` | 3 invocations, 6 names, one of which begins another, two new ones, one without password in the middle and one at the end | `ShadowIntact`: every way in which a change of a password can cost somebody the record, and no other. `LetIn`: who is let in knows the password last set for the user found, who may be another one whose name begins with what was typed |
| `relay` | files of one byte, of NUL and a byte, of a byte, NUL and a byte, for every byte, and a few others | `DamageSeen`: the number crctest.c states; the CRC misses none of the changes, what is printed is the file up to a NUL. `CrcRight`: what was not changed is not rejected, sign extension does no harm |

Why the bounds are enough. In `Transfer` a state is about one segment and the
next one; files of 3 and 4 segments have a first, a middle, a last but one and a
last, and two sources one after the other have the sink used again. The faults
are counted so that each kind may meet each other kind and the damage can repeat
at the final segment, the only one that may be damaged again and again. In
`FortuneServer` arrays as long as the number of cookies are the tight case of
`TableAssumption`, and 4 cookies given out include every order of new,
known and zeroth ones. In `SuperServer` there are as many forks as clients, the
least that `TimeAnswered` asks for; somebody who types, or a connection that cannot
be accepted, uses them up, so `fork()` also fails in the run; with descriptors for
two connections all are accepted, with one the other waits. `Ulong` is 24 in the relay of `labs`, one byte more than the
register, which is what the sign extension and a missing mask need to show;
TLC would compute the same with 64, more slowly. In `web` two clients suffice: one
leaves its words behind, dies or never sends, the other meets what it left; with one descriptor the first file cannot be opened and the second `accept()` fails, with two
the second file cannot, with three there are enough. Three processes in
`rshd` are fewer than its four logins need. Five nodes have a first, a second, a
middle, a last but one and a last. Three invocations of mypasswd are the fewest in
which one finds a place, another moves what stands there, and a third one follows. What the bounds leave out, the proofs below cover
where they exist.

`CHECK_DEADLOCK FALSE` is set wherever the programs may come to rest: the
sources are done or wait for ever, the clients have all been served, the server
is dead.

Fairness. Each process that can run is scheduled (`WF` on its steps), which is
what an operating system gives; the network is not obliged to lose or damage
anything, and no user is obliged to start, kill or type. `Silent` names the
clients that may connect and then never send: in `SuperServer` echo clients whose
user never types, in `FortuneServer` clients that are stopped before the next
statement of their `main()`, in `WebServer` any client. All others send in the
end, and the liveness properties say exactly whom a silent one keeps waiting.
In `WebServer` a client that is not in `Silent` sends what its next statement sends, and a browser
the rest of its form. In `Rshd` a user who is asked for a name and a password types
them; the clients and the server of `SecureEcho` run. The other parts of `labs` have
no liveness property and no fairness. No strong fairness is used anywhere.

## 5 Proofs

| module | theorems | from |
|---|---|---|
| `TransferProofs` | `TypeCorrect` | nothing |
| | `StoredOnce`, `RunsOfSegments` | nothing (the properties name the faults they exclude) |
| | `Integrity`, `NothingDiffers`, `InLockstep`, `StallOnlyThen`, `Refinement` | `Orderly`: sources one after the other, no duplicates, no kills; any number of losses and damages, any number of sources and segments; `NothingDiffers` also that `strncpy()` mars no segment |
| `SegmentationProofs` | `TypeCorrect`, `WholeFileArrives`, `CarriedRight` with its parts `NeverTruncated`, `FilledRight`, `PlacedRight`, `FinalMarked`, then `InSequence`, `FailureExplained`, `CountFits` | lengths that one `read()` takes |
| `StreamIOProofs` | `TypeCorrect`, `StaysInStep`, `ShortExplained`, `EverythingRead` | `Start[j+1] = Start[j] + Size[j]` |
| `FortuneProofs` | `TypeCorrect`, `EntriesStayDifferent`, `StatisticsAreTrue`, `EveryOneCounted` | at least one cookie, arrays as long as there are cookies |
| `FortuneServerdProofs` | `TypeCorrect`, `StatisticsEmpty`, `LateRefusal` | the same |
| `SuperServerProofs` | `ConnectionsHeldOnce` | finitely many clients |
| `WebServerProofs` | `AnsweredForItself`, `CauseOfDeath` | nothing but the types of the constants |
| `LabsProofs` | `ProcessesCounted` (rshd) | finitely many users |
| | `LinesTrue` (traceroute), `NodesPrintedOnce` (list) | nothing but the types of the constants |
| | `EchoIsRight` (echo) | a long text has at least one block |
| | `PasswordsKept`, `OnlyLetIn` (password tools) | a first file shadow with lines of a name, at most one password and the rest, one for each user (`ShadowFile`); every name begins with itself |
| | `WordsLeft` (dlist) | any number of words and any words, equal ones included |
| | `CookiesFound` (cookies) | a file of any length that does not begin with a percent sign |
| | `DotSeenIfOdd` (reflector) | texts without NUL that fit the packet, any size of it, any garbage |
| | `SoundIsAccepted` (relay) | a 16-bit register, any polynomial, an unsigned long of at least 16 bits, any files |
| | `DamageIsSeen` (relay) | the same, and a polynomial that has its lowest bit and passes the test of crctest.c |

**Transfer.** `Lockstep` is not inductive: whether the sink has taken segment
`i[p] + 1` cannot be read off the two counters, only off what is under way. The
invariant says that at most one source is active (`OneAtATime`), that at most one
message is on its way (`OneMessage`), and that the sink has not taken the segment
(`Before`) while the source is to send it or it is still on its way, and has taken it
(`After`) when the message is an ack (`Phase`). `Orderly` is needed: a duplicate ack
takes the source past a segment the sink has not seen, and a killed source leaves
a buffer behind (run `transfer_restart` shows it). `Refinement` maps `Accept` of a
segment to `Take`, `WriteFile` to `Keep`, `RemoveFile` to `Remove`, and all else
to stuttering. The two theorems without `Orderly` are about what `transfer_chaos`
checks. `StoredOnce`: the numbers in the buffer are at most `seq`, which only a final
segment sets back, and one that is whole empties the buffer as well (`NumberInv`).
`RunsOfSegments`: between a source and the sink there is at most one message
(`OneUnderWay`), and which segment of the source the sink has taken last follows from
what is under way (`Reached`); a source that was killed is never heard again.

**Segmentation.** `count = i * SEG` while the source runs, all of these bytes are the
file's (`sound`), and the datagram under way is that of `i` or of the segment before. Only two lengths
are `LongLast`, but the proofs need no list of them: what matters is that a multiple of
65536 with 1 to 5 bytes over full segments has a last segment of so many bytes too many. The arithmetic of
`NoOfSegments` is in the lemma `Segments`; `CountFits` shows that every file
that one `read()` takes satisfies `TransferAssumption`.

**StreamIO.** `InStep` with the calls it is about. `ShortExplained` needs that
`Start` never goes down; instead of an induction over the calls, the invariant
carries it along (`Rising`), one call further with every call.

**Fortune.** The invariant on the table (`TableInv`): entries differ and are not
0, the free entries hold 0 and have frequency 0 but for the first of them, which
collects the counts of cookie 0; as long as cookie 0 was not given out, the
frequencies are the true ones. That the arrays never overflow is a pigeonhole
argument (`RoomLeft`): different entries, none of them 0, are fewer than
`NumCookies`. Where an induction would be used, the proof takes the least element
of a set of naturals (`LeastNat`), which the library gives by well-foundedness.
`EveryOneCounted` is about sums over sets, which the library folds in an order that
`CHOOSE` picks: the lemmas show that a sum does not depend on it, so that one count more
is one more in the sum, in the table as in what was given out.

**Forking server.** The table of the parent is never written, so every copy is made from
an empty one (`Fresh`); a child has read its request before it answers (`Sent`); a
connection is in the queue, in the parent's hand or has a child (`OnePlace`), and the
children number as many as the requests counted, less the one in hand (`Forked`).

**Super server.** A connection is in its queue, in the work of one child, dropped, or
nowhere (`OnePlace`), once each (`InLine`, `InWork`). What `select()` found is still
there when the parent accepts it, except for the datagram, which a child may have
taken (`Selected`). `Counted` is the argument for the children: each was forked for the
time service, or has accepted a connection, or its datagram has been answered, so there are no more of
them than clients served so far. It compares the cardinality of a set of children
with that of a set of clients.

**Web server.** A client waits once in the queue or is the one served, and has no
answer then (`Waiting`, `Serving`); the scanned words agree with its request as far as
its line goes, whatever was left from the client before (`Scanned`).

**Labs.** *rshd*: processes are counted by two sets that stay disjoint, the connections
refused (each has made an acceptor) and those served (`Counts`). *traceroute*: what is
under way, at the socket or printed answers different probes (`Once`), and until a
foreign message is taken the lines name the hops in turn, so that only the answer to
the last probe is new (`OwnHop`). *list*: how many halves of parts were written
and read, and that the number of a half is that of its place (`Flow`); then as
long as each read took a part the next one begins at the next part (`Even`), and once one did not
a node is wrong already or cannot come right any more, unless all that is missing is the end of the
node printed last (`Uneven`). *echo*: which halves of
blocks the server and the client have taken says what is under way, as long as
every read took a block; once one did not, or the text is long, the invariant
names what makes a right answer impossible. *passwd*: the name of a user who is not in
`spoilt` stands once in the file, at the beginning of a line that has the password set last (`Kept`). Where
an invocation is to write, no such name stands one token further, nor, if it found a password there, two
tokens further (`ClearOf`): so what it writes goes over a whole record or over lines that `Spoils` names,
whatever has been written meanwhile; and as long as its place is the end of the file its user, unless in
`spoilt`, has no record (`Placed`).
`Overwritten` says what a write leaves of the file, line by line.

*dlist*: the list is described without the walk, as a sequence of nodes that go
upwards, each linked to the next, and each linked back to the one before or to a node that
is freed (`Linked`); the walk of `Chain` gives this sequence, and a removal takes one
element out of it. *cookies*: the k-th round of `Walk` stops at the separator with k others
before it, counted by a cardinality (`Rounded`), and the pieces joined up to there are the text
up to there (`JoinedUpTo`). *reflector*: packets whose words agree have like sums; behind an
odd text the dot and what follows change the sum by a number that is not a multiple
of 65535. *relay*: what a step of the CRC does is said of each bit (`NextBitIs`). What stands
above the eight bits of a byte is cut off (`NxtSame`). A byte that cancels the upper half of
the register shifts its lower half up, so the two bytes of the CRC bring it to 0
(`CrcCancels`). For `DamageIsSeen` two registers are compared: `strcat()` changes two neighbouring
bytes at most, the first from 0 to 33. Bytes that differ leave registers that differ in
the lower half, because the lowest bit in which they differ moves up until it leaves on top
and comes in below (`BytesDiffer`); the second byte enters the upper half; and from then on no step
makes the registers equal (`StepsKeep`). This needs the lowest bit of the polynomial, and
no other. Loops over numbers are recursive functions in the modules: that such a function
exists (`Loop`), and what it computes, follows from the least number for which it would fail
(`NatSteps`).

**Only model-checked**: all liveness (`Completes`, `Served`, `Heard`, `GetsThrough`,
`NobodyHangs`, `TimeAnswered`, `ServedWithoutTime`, `Answered`, `LoginAnswered`, `Ends`),
since the prover does not reason about ENABLED and fairness here. The number that crctest.c
states for one text (`TestVector`) is computed by TLC and a hypothesis of `DamageIsSeen`.

## 6 Disagreements found

Three runs check what the repository says of a program and find it violated.

* `transfer_restart`, `DiffIsEmpty`. answers.txt of project2 asks only that
  new_file be removed before a run, and shows an empty diff. A source killed in
  mid-transfer leaves its segments in the sink, and the next file is written
  behind them.
* `fortune_stats`, `NamedStatsTrue`. The search looks at one entry too many, so
  cookie 0 is never entered and its count goes to the next new cookie: the reply
  "The cookie with the highest frequency is" names a cookie given out once
  with a frequency of two.
* `super_handled`, `RequestHandled`. Every request is said to be handled by a
  process. If the datagram a child was forked for is read by another child, it
  waits in `recvfrom()` and the connections it holds are never served.

Facts the models state as exceptions of a property rather than as a run of their
own: the fortune server, whose comment says it goes back to step (1) for ever, is
ended by SIGPIPE when a client is gone before its second write (`BrokenPipe`; `Served`
allows for a dead server); the echo server of lab11 is ended by its own long answer
(`ServerAnswer`); rshd waits for ever if name and password come in one read or the password is empty
(`LoginAnswered`); test_dlist fails for three of the words it may pick (`ListRight`).

## 7 What is not modelled

* Contents of memory beyond what is named above: uninitialised buffers (the
  `strcat()` of `getwhoService()` and of the statistics), `free()` of a pointer into a
  buffer, the byte `memcpy()` copies too many in source.c of project2, what
  its `strncpy()` reads behind the file at a last segment (none of it is sent), buffers smaller
  than what may arrive (the fortune servers' 32 bytes, the sinks' 1000). That the
  buffer of project2's sink overflows is an action of `Transfer` (`Overrun`).
* Arguments of `main()`, names and ports, failing `socket()`, `bind()` and
  `malloc()`: the programs print a message and exit before anything happens.
* Texts: which cookie, node, page or user is meant is kept, how it reads is not.
  A password in `Passwd` stands for what `crypt()` makes of it, and fields have equal widths; a locked account
  ("*" or "!") is taken as one without password. What is typed into a remote shell
  is passed on unseen. rshd is linked with the shadow functions of the system,
  so `Rshd` has a table and `Passwd` a file.
* Files of cookies that begin with "%": `cookies.c` then skips two characters of the
  first cookie, or more than it has.
* `cm_blk()` and `cm_tab()` of crcmodel.c, which have no caller.
* Killed time clients of lab05: their datagram is already sent, and nothing depends
  on who reads the answer. Clients of lab11, lab04 and the relay that are killed.
* Packet tracers of lab09 and lab10, tables of names and hexdumps: output only.
* The `.nfs*` files and copies of a program in other directories, such as
  `projects/project2/crcmodel.c`: the same text as one that is modelled.
