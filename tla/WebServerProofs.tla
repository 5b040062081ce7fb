--------------------------- MODULE WebServerProofs --------------------------
(***************************************************************************)
(* WebServer for any clients, requests, files, bounds and descriptors.     *)
(***************************************************************************)
EXTENDS WebServer, TLAPS

(***************************************************************************)
(* The inductive invariant.  A client waits in the queue once, or is the   *)
(* one the server is busy with, and has no answer then; what the server    *)
(* has scanned for it agrees with its request as far as its line goes.     *)
(***************************************************************************)
Busy == spc \in {"read", "serve", "fetch"}

Waiting ==
  /\ \A j, k \in DOMAIN queue : queue[j] = queue[k] => j = k
  /\ \A j \in DOMAIN queue : answer[queue[j]] = NoAnswer /\ cst[queue[j]] # "new"
  /\ \A c \in Client : answer[c] # NoAnswer => cst[c] = "sent"

Serving ==
  Busy => /\ conn \in Client /\ answer[conn] = NoAnswer /\ cst[conn] # "new"
          /\ \A j \in DOMAIN queue : queue[j] # conn

Agrees(w, r) ==
  /\ r.words >= 1 => w.cmd = r.cmd
  /\ r.words >= 2 => w.path = r.path
  /\ r.words = 3  => w.vers = r.vers

Scanned ==
  /\ spc \in {"serve", "fetch"} => cst[conn] = "sent" /\ Agrees(scanned, asked[conn])
  /\ spc = "fetch" => /\ is_valid_http_req(scanned) /\ scanned.cmd \in {"GET", "HEAD"}
                      /\ scanned.path \in Page

IInv == TypeOK /\ Waiting /\ Serving /\ Scanned /\ OwnAnswer /\ DiesOnlyOf

-----------------------------------------------------------------------------
LEMMA InitInv == Init => IInv
<1>. SUFFICES ASSUME Init PROVE IInv
  OBVIOUS
<1>1. (CHOOSE r \in Request : TRUE) \in Request
  BY WebAssumption
<1>2. NoAnswer \in AnswerType /\ Junk \in Words
  <2>1. "?" \in Word /\ "" \in Word
    BY DEF Word
  <2>. QED
    <3>1. NoAnswer \in AnswerType
      BY <2>1 DEF NoAnswer, AnswerType
    <3>2. Junk \in Words
      BY <2>1 DEF Junk, Words
    <3>. QED
      BY <3>1, <3>2
<1>3. /\ asked \in [Client -> Request] /\ answer \in [Client -> AnswerType] /\ scanned \in Words
      /\ limit \in Nat /\ 0 \in 0 .. limit /\ 0 \in 0 .. MaxChanges
  BY <1>1, <1>2, WebAssumption DEF Init
<1>4. /\ arrived \in [Client -> 0 .. 3] /\ taken \in [Client -> 0 .. 3]
      /\ file \in [Page -> {"absent", "private", "public"}]
      /\ cst \in [Client -> {"new", "connected", "sent"}] /\ queue \in Seq(Client)
  BY DEF Init
<1>5. TypeOK
  BY <1>3, <1>4 DEF Init, TypeOK
<1>. QED
  BY <1>5 DEF Init, IInv, Waiting, Serving, Busy, Scanned, OwnAnswer, DiesOnlyOf

(* A client's steps before its request, and the end of a client or of a    *)
(* file: the server's own state and all answers stay.                      *)
LEMMA ConnectInv ==
  ASSUME IInv, NEW c \in Client, Connect(c), Alive
  PROVE  IInv'
<1>1. /\ cst[c] = "new" /\ cst' = [cst EXCEPT ![c] = "connected"] /\ queue' = Append(queue, c)
      /\ UNCHANGED <<asked, gone, arrived, diskVars, spc, conn, scanned, taken, fds, answer, ended>>
  BY DEF Connect
<1>2. /\ queue \in Seq(Client) /\ cst \in [Client -> {"new", "connected", "sent"}]
  BY DEF IInv, TypeOK
<1>3. /\ DOMAIN queue' = 1 .. Len(queue) + 1 /\ DOMAIN queue = 1 .. Len(queue)
      /\ \A j \in DOMAIN queue : queue'[j] = queue[j] /\ queue[j] \in Client
      /\ queue'[Len(queue) + 1] = c /\ Len(queue) \in Nat
  BY <1>1, <1>2
<1>4. \A j \in DOMAIN queue' : j \in DOMAIN queue \/ j = Len(queue) + 1
  BY <1>3
<1>5. TypeOK'
  <2>1. queue' \in Seq(Client) /\ cst' \in [Client -> {"new", "connected", "sent"}]
    BY <1>1, <1>2
  <2>. QED
    BY <1>1, <2>1 DEF IInv, TypeOK, diskVars
<1>6. answer[c] = NoAnswer /\ \A j \in DOMAIN queue : queue[j] # c
  BY <1>1 DEF IInv, Waiting
<1>7. /\ \A d \in Client : cst'[d] = "new" => cst[d] = "new" /\ d # c
      /\ \A d \in Client : d # c => cst'[d] = cst[d]
  BY <1>1, <1>2
<1>8. Waiting'
  <2>1. \A j, k \in DOMAIN queue' : queue'[j] = queue'[k] => j = k
    <3>1. \A j, k \in DOMAIN queue : queue[j] = queue[k] => j = k
      BY DEF IInv, Waiting
    <3>. QED
      BY <1>3, <1>4, <1>6, <3>1
  <2>2. \A j \in DOMAIN queue' : answer[queue'[j]] = NoAnswer /\ cst'[queue'[j]] # "new"
    <3>1. \A j \in DOMAIN queue : answer[queue[j]] = NoAnswer /\ cst[queue[j]] # "new"
      BY DEF IInv, Waiting
    <3>2. cst'[c] # "new"
      BY <1>7
    <3>. QED
      BY <1>3, <1>4, <1>6, <1>7, <3>1, <3>2
  <2>3. \A d \in Client : answer[d] # NoAnswer => cst'[d] = "sent"
    BY <1>6, <1>7 DEF IInv, Waiting
  <2>. QED
    BY <1>1, <2>1, <2>2, <2>3 DEF Waiting
<1>9. Busy => conn # c
  BY <1>1 DEF IInv, Serving
<1>10. Serving'
  <2>1. Busy => \A j \in DOMAIN queue' : queue'[j] # conn
    BY <1>3, <1>4, <1>9 DEF IInv, Serving
  <2>. QED
    BY <1>1, <1>7, <1>9, <2>1 DEF IInv, Serving, Busy
<1>11. Scanned'
  BY <1>1, <1>7, <1>9 DEF IInv, Scanned, Serving, Busy
<1>12. OwnAnswer' /\ DiesOnlyOf'
  BY <1>1, <1>5 DEF IInv, OwnAnswer, DiesOnlyOf, Alive
<1>. QED
  BY <1>5, <1>8, <1>10, <1>11, <1>12 DEF IInv

LEMMA MakeRequestInv ==
  ASSUME IInv, NEW c \in Client, MakeRequest(c), Alive
  PROVE  IInv'
<1>1. PICK r \in Request :
        /\ cst[c] = "connected" /\ cst' = [cst EXCEPT ![c] = "sent"]
        /\ asked' = [asked EXCEPT ![c] = r]
        /\ UNCHANGED <<gone, arrived, queue, diskVars, spc, conn, scanned, taken, fds, answer,
                       ended>>
  BY DEF MakeRequest
<1>2. cst \in [Client -> {"new", "connected", "sent"}] /\ asked \in [Client -> Request]
      /\ \A j \in DOMAIN queue : queue[j] \in Client
  BY DEF IInv, TypeOK
<1>3. /\ \A d \in Client : d # c => cst'[d] = cst[d] /\ asked'[d] = asked[d]
      /\ cst'[c] = "sent" /\ answer[c] = NoAnswer
  BY <1>1, <1>2 DEF IInv, Waiting
<1>4. \A d \in Client : cst'[d] = "new" => cst[d] = "new"
  BY <1>3
<1>5. TypeOK'
  BY <1>1 DEF IInv, TypeOK, diskVars
<1>6. Waiting' /\ Serving'
  BY <1>1, <1>2, <1>3, <1>4 DEF IInv, Waiting, Serving, Busy
<1>7. spc \in {"serve", "fetch"} => conn # c /\ conn \in Client
  BY <1>1 DEF IInv, Scanned, Serving, Busy
<1>8. Scanned'
  BY <1>1, <1>3, <1>7 DEF IInv, Scanned
<1>9. OwnAnswer' /\ DiesOnlyOf'
  BY <1>1, <1>3, <1>5 DEF IInv, OwnAnswer, DiesOnlyOf, Alive
<1>. QED
  BY <1>5, <1>6, <1>8, <1>9 DEF IInv

LEMMA OutsideInv ==
  ASSUME IInv, Alive,
         \/ \E c \in Client : SendForm(c) \/ Kill(c)
         \/ \E p \in Page : ChangeFile(p)
  PROVE  IInv'
<1>1. UNCHANGED <<cst, asked, queue, spc, conn, scanned, taken, fds, answer, ended, skips, limit>>
  BY DEF SendForm, Kill, ChangeFile, clientVars, diskVars
<1>2. /\ gone' \subseteq Client /\ arrived' \in [Client -> 0 .. 3]
      /\ file' \in [Page -> {"absent", "private", "public"}] /\ changes' \in 0 .. MaxChanges
  <2>1. ASSUME NEW c \in Client, SendForm(c) PROVE arrived' \in [Client -> 0 .. 3]
    <3>1. arrived \in [Client -> 0 .. 3] /\ asked[c].form \in Form
      BY WebAssumption DEF IInv, TypeOK
    <3>2. Pieces(asked[c].form) \in 0 .. 3
      BY <3>1 DEF Pieces, Form
    <3>3. \A n \in arrived[c] + 1 .. Pieces(asked[c].form) : n \in 0 .. 3
      BY <3>1, <3>2
    <3>. QED
      BY <2>1, <3>1, <3>3 DEF SendForm
  <2>2. ASSUME NEW p \in Page, ChangeFile(p)
        PROVE  /\ file' \in [Page -> {"absent", "private", "public"}]
               /\ changes' \in 0 .. MaxChanges
    BY <2>2, WebAssumption DEF ChangeFile, IInv, TypeOK
  <2>3. ASSUME NEW c \in Client, Kill(c) PROVE gone' \subseteq Client
    BY <2>3 DEF Kill, IInv, TypeOK
  <2>4. \A c \in Client : SendForm(c) => UNCHANGED <<gone, file, changes>>
    BY DEF SendForm, diskVars
  <2>5. \A c \in Client : Kill(c) => UNCHANGED <<arrived, file, changes>>
    BY DEF Kill, diskVars
  <2>6. \A p \in Page : ChangeFile(p) => UNCHANGED <<gone, arrived>>
    BY DEF ChangeFile, clientVars
  <2>. QED
    BY <2>1, <2>2, <2>3, <2>4, <2>5, <2>6 DEF IInv, TypeOK
<1>3. TypeOK'
  BY <1>1, <1>2 DEF IInv, TypeOK
<1>4. Waiting' /\ Serving' /\ Scanned'
  BY <1>1 DEF IInv, Waiting, Serving, Busy, Scanned
<1>5. OwnAnswer' /\ DiesOnlyOf'
  BY <1>1, <1>3 DEF IInv, OwnAnswer, DiesOnlyOf, Alive
<1>. QED
  BY <1>3, <1>4, <1>5 DEF IInv

LEMMA AcceptInv ==
  ASSUME IInv, Accept
  PROVE  IInv'
<1>1. /\ spc = "accept"
      /\ UNCHANGED <<cst, asked, gone, arrived, diskVars, scanned, taken, answer, ended>>
  BY DEF Accept
<1>2. CASE spc' = "exit" /\ UNCHANGED <<queue, conn, fds>>
  <2>1. TypeOK'
    BY <1>1, <1>2 DEF IInv, TypeOK, diskVars
  <2>. QED
    BY <1>1, <1>2, <2>1 DEF IInv, Waiting, Serving, Busy, Scanned, OwnAnswer, DiesOnlyOf
<1>3. CASE /\ fds < limit /\ queue # <<>>
           /\ conn' = Head(queue) /\ queue' = Tail(queue)
           /\ fds' = fds + 1 /\ spc' = "read"
  <2>1. queue \in Seq(Client) /\ fds \in 0 .. limit /\ limit \in Nat
    BY WebAssumption DEF IInv, TypeOK
  <2>2. /\ Head(queue) = queue[1] /\ 1 \in DOMAIN queue /\ queue[1] \in Client
        /\ Tail(queue) \in Seq(Client)
        /\ \A j \in DOMAIN Tail(queue) :
             j \in Int /\ j + 1 # 1 /\ j + 1 \in DOMAIN queue /\ Tail(queue)[j] = queue[j + 1]
    BY <1>3, <2>1
  <2>3. TypeOK'
    BY <1>1, <1>3, <2>1, <2>2 DEF IInv, TypeOK, diskVars
  <2>4. \A j, k \in DOMAIN queue : queue[j] = queue[k] => j = k
    BY DEF IInv, Waiting
  <2>5. \A j \in DOMAIN queue : answer[queue[j]] = NoAnswer /\ cst[queue[j]] # "new"
    BY DEF IInv, Waiting
  <2>6. Waiting'
    <3>1. \A j, k \in DOMAIN queue' : queue'[j] = queue'[k] => j = k
      BY <1>3, <2>2, <2>4
    <3>2. \A j \in DOMAIN queue' : answer[queue'[j]] = NoAnswer /\ cst[queue'[j]] # "new"
      BY <1>3, <2>2, <2>5
    <3>. QED
      BY <1>1, <3>1, <3>2 DEF IInv, Waiting
  <2>7. Serving'
    <3>1. \A j \in DOMAIN queue' : queue'[j] # conn'
      BY <1>3, <2>2, <2>4
    <3>2. conn' \in Client /\ answer[conn'] = NoAnswer /\ cst[conn'] # "new"
      BY <1>3, <2>2, <2>5
    <3>. QED
      BY <1>1, <3>1, <3>2 DEF Serving
  <2>8. Scanned' /\ OwnAnswer' /\ DiesOnlyOf'
    BY <1>1, <1>3, <2>3 DEF IInv, Scanned, OwnAnswer, DiesOnlyOf
  <2>. QED
    BY <2>3, <2>6, <2>7, <2>8 DEF IInv
<1>. QED
  BY <1>2, <1>3 DEF Accept

LEMMA ReadRequestInv ==
  ASSUME IInv, ReadRequest
  PROVE  IInv'
<1>1. spc = "read" /\ UNCHANGED <<clientVars, diskVars, conn, taken, fds, answer>>
  BY DEF ReadRequest
<1>2. UNCHANGED <<cst, asked, gone, arrived, queue, file, changes, skips, limit>>
  BY <1>1 DEF clientVars, diskVars
<1>3. conn \in Client /\ asked[conn] \in Request
  BY <1>1 DEF IInv, Serving, Busy, TypeOK
<1>4. CASE cst[conn] = "sent" /\ scanned' = Scan(asked[conn]) /\ spc' = "serve" /\ UNCHANGED ended
  <2>1. Scan(asked[conn]) \in Words
    <3>1. scanned.cmd \in Word /\ scanned.path \in Word /\ scanned.vers \in Word
      BY DEF IInv, TypeOK, Words
    <3>2. /\ asked[conn].cmd \in Word /\ asked[conn].path \in Word
          /\ asked[conn].vers \in Word
      BY <1>3 DEF Word
    <3>. QED
      BY <3>1, <3>2 DEF Scan, Words
  <2>2. Agrees(Scan(asked[conn]), asked[conn])
    BY <1>3, WebAssumption DEF Scan, Agrees
  <2>3. TypeOK'
    BY <1>1, <1>2, <1>4, <2>1 DEF IInv, TypeOK
  <2>4. Waiting' /\ Serving'
    BY <1>1, <1>2, <1>4 DEF IInv, Waiting, Serving, Busy
  <2>5. Scanned'
    BY <1>1, <1>2, <1>4, <2>2 DEF Scanned
  <2>6. OwnAnswer' /\ DiesOnlyOf'
    BY <1>1, <1>2, <1>4, <2>3 DEF IInv, OwnAnswer, DiesOnlyOf
  <2>. QED
    BY <2>3, <2>4, <2>5, <2>6 DEF IInv
<1>5. CASE ended' = ended \cup {conn} /\ spc' = "accept" /\ UNCHANGED scanned
  <2>1. TypeOK'
    BY <1>1, <1>2, <1>3, <1>5 DEF IInv, TypeOK
  <2>. QED
    BY <1>1, <1>2, <1>5, <2>1
       DEF IInv, Waiting, Serving, Busy, Scanned, OwnAnswer, DiesOnlyOf
<1>. QED
  BY <1>4, <1>5 DEF ReadRequest

-----------------------------------------------------------------------------
(* What one of the methods does for the client it serves: it looks at no   *)
(* other, and either goes on to read_file, or dies, or has sent an answer. *)
Sends(a, t) ==
  /\ a \in AnswerType /\ answer' = [answer EXCEPT ![conn] = a]
  /\ asked[conn].words >= 2 => Fits(asked[conn], a, t)
  /\ spc' = "accept" \/ (spc' = "dead" /\ conn \in gone)

Fetches ==
  /\ spc' = "fetch" /\ answer' = answer
  /\ is_valid_http_req(scanned) /\ scanned.cmd \in {"GET", "HEAD"} /\ scanned.path \in Page

Dies(t) ==
  /\ spc' = "dead" /\ answer' = answer
  /\ \/ conn \in gone
     \/ scanned.cmd \in {"GET", "HEAD"} /\ scanned.path \in Page /\ CannotOpen(scanned.path)
     \/ scanned.cmd = "POST" /\ t \in {1, 2}

Outcome ==
  /\ ended' \subseteq Client
  /\ \E t \in 0 .. 3 :
       /\ taken' = [taken EXCEPT ![conn] = t]
       /\ Fetches \/ Dies(t) \/ \E a \in AnswerType : Sends(a, t)

(* An answer that is proper to the words scanned fits the request they     *)
(* came from.                                                              *)
Proper(w, a, t) ==
  /\ a.page = w.path
  /\ w.cmd = "HEAD" => a.what # "page" \/ a.stat = 400
  /\ a.stat = 400 <=> ~is_valid_http_req(w)
  /\ w.cmd = "POST" /\ a.stat = 200 => t = 3

LEMMA FitsScanned ==
  ASSUME NEW r \in Request, NEW w \in Words, Agrees(w, r), NEW a, NEW t,
         Proper(w, a, t)
  PROVE  r.words >= 2 => Fits(r, a, t)
<1>. SUFFICES ASSUME r.words >= 2 PROVE Fits(r, a, t)
  OBVIOUS
<1>1. r.words \in 0 .. 3
  BY WebAssumption
<1>2. w.cmd = r.cmd /\ w.path = r.path
  BY <1>1 DEF Agrees
<1>3. r.words = 3 => (is_valid_http_req(w) <=> is_valid_http_req(r))
  BY <1>2 DEF Agrees, is_valid_http_req
<1>4. a.stat \in {200, 301, 403} => r.cmd \in {"GET", "HEAD", "POST"}
  BY <1>2 DEF is_valid_http_req, Proper
<1>. QED
  BY <1>2, <1>3, <1>4 DEF Fits, Proper

(* The four kinds of answer.                                               *)
LEMMA AnswerTyped ==
  ASSUME TypeOK, NEW s \in {200, 301, 400, 403, 404}
  PROVE  /\ \A a \in {Page_(s), Head_(s), Bare(s)} :
              a \in AnswerType /\ a.page = scanned.path /\ a.stat = s
         /\ Page_(s).what = "page" /\ Head_(s).what = "head" /\ Bare(s).what = "bare"
         /\ Nothing \in AnswerType /\ Nothing.page = scanned.path
         /\ Nothing.stat = 0 /\ Nothing.what = "none"
<1>1. scanned.path \in Word
  BY DEF TypeOK, Words
<1>. QED
  BY <1>1 DEF Page_, Head_, Bare, Nothing, AnswerType

(* What is sent for the words scanned is an outcome.                       *)
Sent(a) == \E eof \in BOOLEAN : Send(a, eof)

LEMMA SendOutcome ==
  ASSUME IInv, spc \in {"serve", "fetch"},
         NEW t \in 0 .. 3, taken' = [taken EXCEPT ![conn] = t],
         NEW a \in AnswerType, Proper(scanned, a, t), Sent(a)
  PROVE  Outcome
<1>1. /\ conn \in Client /\ ended \subseteq Client /\ asked[conn] \in Request /\ scanned \in Words
      /\ Agrees(scanned, asked[conn])
  BY DEF IInv, Serving, Busy, TypeOK, Scanned
<1>2. asked[conn].words >= 2 => Fits(asked[conn], a, t)
  BY <1>1, FitsScanned
<1>3. ended' \subseteq Client
  BY <1>1 DEF Sent, Send
<1>4. Sends(a, t)
  BY <1>2 DEF Sends, Sent, Send
<1>. QED
  BY <1>3, <1>4 DEF Outcome

(* Taking nothing of a form is taking what was taken.                      *)
LEMMA TakenSame ==
  ASSUME IInv, spc \in {"serve", "fetch"}, taken' = taken
  PROVE  taken[conn] \in 0 .. 3 /\ taken' = [taken EXCEPT ![conn] = taken[conn]]
BY DEF IInv, TypeOK, Serving, Busy

(* The same for the answers of GET and HEAD, and for bad requests.         *)
LEMMA AnswerOutcome ==
  ASSUME IInv, spc \in {"serve", "fetch"}, taken' = taken,
         NEW a \in AnswerType, Proper(scanned, a, taken[conn]), Sent(a)
  PROVE  Outcome
BY TakenSame, SendOutcome

LEMMA CrashOutcome ==
  ASSUME IInv, spc \in {"serve", "fetch"}, Crash, NEW t \in 0 .. 3,
         taken' = [taken EXCEPT ![conn] = t],
         \/ conn \in gone
         \/ scanned.cmd \in {"GET", "HEAD"} /\ scanned.path \in Page /\ CannotOpen(scanned.path)
         \/ scanned.cmd = "POST" /\ t \in {1, 2}
  PROVE  Outcome
<1>1. ended' \subseteq Client
  BY DEF Crash, IInv, TypeOK
<1>2. Dies(t)
  BY DEF Crash, Dies
<1>. QED
  BY <1>1, <1>2 DEF Outcome

(* The end at a file that fopen() cannot open.                             *)
LEMMA CannotOpenOutcome ==
  ASSUME IInv, spc \in {"serve", "fetch"}, taken' = taken, Crash,
         scanned.cmd \in {"GET", "HEAD"}, scanned.path \in Page, CannotOpen(scanned.path)
  PROVE  Outcome
<1>. DEFINE t == taken[conn]
<1>1. t \in 0 .. 3 /\ taken' = [taken EXCEPT ![conn] = t]
  BY TakenSame
<1>. HIDE DEF t
<1>. QED
  BY <1>1, CrashOutcome

LEMMA FetchOutcome ==
  ASSUME IInv, spc = "serve", taken' = taken,
         is_valid_http_req(scanned), scanned.cmd \in {"GET", "HEAD"},
         check_file_status(scanned.path) = "public", spc' = "fetch", UNCHANGED <<answer, ended>>
  PROVE  Outcome
<1>1. scanned.path \in Page
  BY DEF check_file_status
<1>2. ended' \subseteq Client
  BY DEF IInv, TypeOK
<1>. QED
  BY <1>1, <1>2, TakenSame DEF Outcome, Fetches

LEMMA BadRequestOutcome ==
  ASSUME IInv, spc = "serve", BadRequest
  PROVE  Outcome
<1>. DEFINE a == Page_(400)
<1>1. ~is_valid_http_req(scanned) /\ Send(a, TRUE) /\ taken' = taken
  BY DEF BadRequest
<1>2. a \in AnswerType /\ a.page = scanned.path /\ a.stat = 400
  BY AnswerTyped DEF IInv
<1>. HIDE DEF a
<1>3. Proper(scanned, a, taken[conn])
  BY <1>1, <1>2 DEF Proper
<1>4. Sent(a)
  BY <1>1 DEF Sent
<1>. QED
  BY <1>1, <1>2, <1>3, <1>4, AnswerOutcome

LEMMA PostOutcome ==
  ASSUME IInv, spc = "serve", process_post
  PROVE  Outcome
<1>1. is_valid_http_req(scanned) /\ scanned.cmd = "POST"
  BY DEF process_post
<1>2. conn \in Client /\ arrived[conn] \in 0 .. 3
  BY DEF IInv, TypeOK, Serving, Busy
<1>3. CASE Send(Page_(404), FALSE) /\ UNCHANGED taken
  <2>. DEFINE a == Page_(404)
  <2>1. a \in AnswerType /\ a.page = scanned.path /\ a.stat = 404
    BY AnswerTyped DEF IInv
  <2>2. Send(a, FALSE) /\ taken' = taken
    BY <1>3
  <2>. HIDE DEF a
  <2>3. Proper(scanned, a, taken[conn])
    BY <1>1, <2>1 DEF Proper
  <2>4. Sent(a)
    BY <2>2 DEF Sent
  <2>. QED
    BY <2>1, <2>2, <2>3, <2>4, AnswerOutcome
<1>4. CASE TakeForm
  <2>1. /\ arrived[conn] > 0 \/ conn \in gone
        /\ taken' = [taken EXCEPT ![conn] = arrived[conn]]
    BY <1>4 DEF TakeForm
  <2>2. CASE arrived[conn] = 3
    <3>. DEFINE a == Page_(200)
    <3>1. a \in AnswerType /\ a.page = scanned.path /\ a.stat = 200
      BY AnswerTyped DEF IInv
    <3>2. Send(a, FALSE)
      BY <1>4, <2>2 DEF TakeForm
    <3>. HIDE DEF a
    <3>3. Proper(scanned, a, arrived[conn])
      BY <1>1, <2>2, <3>1 DEF Proper
    <3>4. Sent(a)
      BY <3>2 DEF Sent
    <3>. QED
      BY <1>2, <2>1, <3>1, <3>3, <3>4, SendOutcome
  <2>3. CASE arrived[conn] # 3
    <3>1. Crash
      BY <1>4, <2>3 DEF TakeForm
    <3>2. conn \in gone \/ arrived[conn] \in {1, 2}
      BY <1>2, <2>1, <2>3
    <3>. QED
      BY <1>1, <1>2, <2>1, <3>1, <3>2, CrashOutcome
  <2>. QED
    BY <2>2, <2>3
<1>. QED
  BY <1>3, <1>4 DEF process_post

LEMMA GetOutcome ==
  ASSUME IInv, spc = "serve", process_get
  PROVE  Outcome
<1>. DEFINE p == scanned.path
<1>1. is_valid_http_req(scanned) /\ scanned.cmd = "GET" /\ taken' = taken
  BY DEF process_get
<1>2. ASSUME NEW s \in {200, 301, 403, 404}, Send(Page_(s), TRUE) \/ Send(Head_(s), TRUE)
      PROVE  Outcome
  <2>1. PICK a \in {Page_(s), Head_(s)} : Send(a, TRUE)
    BY <1>2
  <2>2. a \in AnswerType /\ a.page = scanned.path /\ a.stat = s
    BY AnswerTyped DEF IInv
  <2>3. Proper(scanned, a, taken[conn])
    BY <1>1, <2>2 DEF Proper
  <2>4. Sent(a)
    BY <2>1 DEF Sent
  <2>. QED
    BY <1>1, <2>2, <2>3, <2>4, AnswerOutcome
<1>3. CASE p \in {"/", "/time"} /\ Send(Page_(200), TRUE)
  BY <1>2, <1>3
<1>4. CASE p = "/moved.html" /\ Send(Page_(301), TRUE)
  BY <1>2, <1>4
<1>5. CASE /\ p = "/default.html"
           /\ IF CannotOpen(p) THEN Crash ELSE Send(Page_(200), TRUE)
  <2>1. CASE CannotOpen(p)
    <3>1. Crash /\ p \in Page /\ scanned.cmd \in {"GET", "HEAD"}
      BY <1>1, <1>5, <2>1, WebAssumption
    <3>. QED
      BY <1>1, <2>1, <3>1, CannotOpenOutcome
  <2>2. CASE ~CannotOpen(p)
    <3>1. Send(Page_(200), TRUE)
      BY <1>5, <2>2
    <3>. QED
      BY <1>2, <3>1
  <2>. QED
    BY <2>1, <2>2
<1>6. CASE check_file_status(p) = "public" /\ spc' = "fetch" /\ UNCHANGED <<answer, ended>>
  <2>1. scanned.cmd \in {"GET", "HEAD"}
    BY <1>1
  <2>. QED
    BY <1>1, <1>6, <2>1, FetchOutcome
<1>7. CASE Send(Page_(404), TRUE)
  BY <1>2, <1>7
<1>8. CASE Send(Page_(403), TRUE)
  BY <1>2, <1>8
<1>9. CASE Send(Head_(404), TRUE)
  BY <1>2, <1>9
<1>. QED
  BY <1>3, <1>4, <1>5, <1>6, <1>7, <1>8, <1>9 DEF process_get

LEMMA HeadOutcome ==
  ASSUME IInv, spc = "serve", process_head
  PROVE  Outcome
<1>. DEFINE p == scanned.path
<1>1. is_valid_http_req(scanned) /\ scanned.cmd = "HEAD" /\ taken' = taken
  BY DEF process_head
<1>2. ASSUME NEW s \in {200, 301, 403, 404}, Send(Head_(s), TRUE) \/ Send(Bare(s), TRUE)
      PROVE  Outcome
  <2>1. PICK a \in {Head_(s), Bare(s)} : Send(a, TRUE)
    BY <1>2
  <2>2. a \in AnswerType /\ a.page = scanned.path /\ a.stat = s /\ a.what # "page"
    BY AnswerTyped DEF IInv
  <2>3. Proper(scanned, a, taken[conn])
    BY <1>1, <2>2 DEF Proper
  <2>4. Sent(a)
    BY <2>1 DEF Sent
  <2>. QED
    BY <1>1, <2>2, <2>3, <2>4, AnswerOutcome
<1>3. CASE p = "/" /\ Send(Head_(200), TRUE)
  BY <1>2, <1>3
<1>4. CASE check_file_status(p) = "public" /\ spc' = "fetch" /\ UNCHANGED <<answer, ended>>
  <2>1. scanned.cmd \in {"GET", "HEAD"}
    BY <1>1
  <2>. QED
    BY <1>1, <1>4, <2>1, FetchOutcome
<1>5. CASE Send(Bare(404), TRUE)
  BY <1>2, <1>5
<1>6. CASE Send(Bare(403), TRUE)
  BY <1>2, <1>6
<1>. QED
  BY <1>3, <1>4, <1>5, <1>6 DEF process_head

LEMMA ReadFileOutcome ==
  ASSUME IInv, read_file
  PROVE  Outcome
<1>1. spc = "fetch" /\ taken' = taken
  BY DEF read_file
<1>2. is_valid_http_req(scanned) /\ scanned.cmd \in {"GET", "HEAD"} /\ scanned.path \in Page
  BY <1>1 DEF IInv, Scanned
<1>3. CASE CannotOpen(scanned.path)
  <2>1. Crash
    BY <1>3 DEF read_file
  <2>. QED
    BY <1>1, <1>2, <1>3, <2>1, CannotOpenOutcome
<1>4. CASE ~CannotOpen(scanned.path)
  <2>. DEFINE a == Announced(scanned.path)
  <2>1. Send(a, TRUE)
    BY <1>4 DEF read_file
  <2>2. a \in {Head_(200), Head_(301), Nothing}
    BY DEF Announced
  <2>3. a \in AnswerType /\ a.page = scanned.path /\ a.what # "page" /\ a.stat # 400
    BY <2>2, AnswerTyped DEF IInv
  <2>. HIDE DEF a
  <2>4. Proper(scanned, a, taken[conn])
    BY <1>2, <2>3 DEF Proper
  <2>5. Sent(a)
    BY <2>1 DEF Sent
  <2>. QED
    BY <1>1, <2>3, <2>4, <2>5, AnswerOutcome
<1>. QED
  BY <1>3, <1>4

(* An outcome keeps the invariant: it changes the answer of one client,    *)
(* which is not in the queue any more.                                     *)
LEMMA OutcomeInv ==
  ASSUME IInv, spc \in {"serve", "fetch"}, Outcome,
         UNCHANGED <<clientVars, diskVars, conn, scanned, fds>>
  PROVE  IInv'
<1>1. UNCHANGED <<cst, asked, gone, arrived, queue, file, changes, skips, limit, conn, scanned,
               fds>>
  BY DEF clientVars, diskVars
<1>2. /\ conn \in Client /\ answer[conn] = NoAnswer /\ cst[conn] = "sent"
      /\ \A j \in DOMAIN queue : queue[j] # conn /\ queue[j] \in Client
      /\ Agrees(scanned, asked[conn])
      /\ taken \in [Client -> 0 .. 3] /\ answer \in [Client -> AnswerType]
  BY DEF IInv, Serving, Busy, Scanned, TypeOK
<1>3. PICK t \in 0 .. 3 :
        /\ taken' = [taken EXCEPT ![conn] = t]
        /\ Fetches \/ Dies(t) \/ \E a \in AnswerType : Sends(a, t)
  BY DEF Outcome
<1>4. /\ spc' \in {"accept", "fetch", "dead"}
      /\ \/ answer' = answer
         \/ spc' # "fetch" /\ \E a \in AnswerType : answer' = [answer EXCEPT ![conn] = a]
  BY <1>3 DEF Fetches, Dies, Sends
<1>5. /\ taken' \in [Client -> 0 .. 3] /\ taken'[conn] = t
      /\ \A c \in Client : c # conn => taken'[c] = taken[c]
  BY <1>2, <1>3
<1>6. /\ answer' \in [Client -> AnswerType]
      /\ \A c \in Client : c # conn => answer'[c] = answer[c]
  BY <1>2, <1>4
<1>7. TypeOK'
  BY <1>1, <1>4, <1>5, <1>6 DEF IInv, TypeOK, Outcome
<1>8. Waiting'
  BY <1>1, <1>2, <1>6 DEF IInv, Waiting
<1>9. spc' = "fetch" => Fetches
  BY <1>3 DEF Dies, Sends
<1>10. Serving' /\ Scanned'
  BY <1>1, <1>2, <1>4, <1>9 DEF Serving, Scanned, Busy, Fetches
<1>11. OwnAnswer'
  <2>1. ASSUME NEW c \in Client, c # conn, answer'[c] # NoAnswer, asked[c].words >= 2
        PROVE  Fits(asked[c], answer'[c], taken'[c])
    BY <1>5, <1>6, <2>1 DEF IInv, OwnAnswer
  <2>2. ASSUME answer'[conn] # NoAnswer, asked[conn].words >= 2
        PROVE  Fits(asked[conn], answer'[conn], taken'[conn])
    <3>1. PICK a \in AnswerType : Sends(a, t)
      BY <1>2, <1>3, <2>2 DEF Fetches, Dies
    <3>2. answer'[conn] = a
      BY <1>2, <3>1 DEF Sends
    <3>. QED
      BY <1>5, <2>2, <3>1, <3>2 DEF Sends
  <2>. QED
    BY <1>1, <1>7, <2>1, <2>2 DEF OwnAnswer
<1>12. DiesOnlyOf'
  <2>1. CASE Dies(t)
    BY <1>1, <1>5, <2>1 DEF Dies, DiesOnlyOf, CannotOpen
  <2>2. CASE ~Dies(t)
    BY <1>1, <1>3, <2>2 DEF Fetches, Sends, DiesOnlyOf
  <2>. QED
    BY <2>1, <2>2
<1>. QED
  BY <1>7, <1>8, <1>10, <1>11, <1>12 DEF IInv

LEMMA StepInv == IInv /\ [Next]_vars => IInv'
<1>. SUFFICES ASSUME IInv, [Next]_vars PROVE IInv'
  OBVIOUS
<1>1. CASE Alive /\ Users
  BY <1>1, ConnectInv, MakeRequestInv, OutsideInv DEF Users
<1>2. CASE Alive /\ Owner
  BY <1>2, OutsideInv DEF Owner
<1>3. CASE Accept \/ ReadRequest
  BY <1>3, AcceptInv, ReadRequestInv
<1>4. CASE Serve
  <2>1. spc = "serve" /\ UNCHANGED <<clientVars, diskVars, conn, scanned, fds>>
    BY <1>4 DEF Serve
  <2>2. Outcome
    BY <1>4, <2>1, BadRequestOutcome, PostOutcome, GetOutcome, HeadOutcome DEF Serve
  <2>. QED
    BY <2>1, <2>2, OutcomeInv
<1>5. CASE read_file
  BY <1>5, ReadFileOutcome, OutcomeInv DEF read_file
<1>6. CASE UNCHANGED vars
  <2>1. UNCHANGED <<cst, asked, gone, arrived, queue, file, changes, skips, limit, spc, conn,
                    scanned, taken, fds, answer, ended>>
    BY <1>6 DEF vars, clientVars, diskVars
  <2>2. TypeOK'
    BY <2>1 DEF IInv, TypeOK
  <2>3. Waiting' /\ Serving' /\ Scanned'
    BY <2>1 DEF IInv, Waiting, Serving, Busy, Scanned
  <2>4. OwnAnswer' /\ DiesOnlyOf'
    BY <2>1, <2>2 DEF IInv, OwnAnswer, DiesOnlyOf
  <2>. QED
    BY <2>2, <2>3, <2>4 DEF IInv
<1>. QED
  BY <1>1, <1>2, <1>3, <1>4, <1>5, <1>6 DEF Next, Server

-----------------------------------------------------------------------------
(* Every client of webserver.c that sends a command and a path is answered *)
(* for them, whatever words other clients left in the arrays of main().    *)
THEOREM AnsweredForItself == Spec => []OwnAnswer
<1>1. IInv => OwnAnswer
  BY DEF IInv
<1>2. Init /\ [][Next]_vars => []IInv
  BY InitInv, StepInv, PTL
<1>. QED
  BY <1>1, <1>2, PTL DEF Spec

(* A signal ends webserver.c only when it serves a client that is gone, a  *)
(* file that is absent or for which no descriptor is left, or a form of    *)
(* which it has received a part.                                           *)
THEOREM CauseOfDeath == Spec => []DiesOnlyOf
<1>1. IInv => DiesOnlyOf
  BY DEF IInv
<1>2. Init /\ [][Next]_vars => []IInv
  BY InitInv, StepInv, PTL
<1>. QED
  BY <1>1, <1>2, PTL DEF Spec
=============================================================================
