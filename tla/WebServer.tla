------------------------------ MODULE WebServer ------------------------------
(***************************************************************************)
(* labs/lab01/simple-web-server-client: webserver.c answers one connection *)
(* after the other; webclient.c and browsers ask it.  A request is the     *)
(* number of words in its first line with those words, and the form that a *)
(* POST sends after its header.  The words are scanned into arrays that    *)
(* outlive the request: what a line does not bring is left over from an    *)
(* earlier one.  The files are those of the directory the server runs in,  *)
(* and their owner may change them at any time.                            *)
(***************************************************************************)
EXTENDS Integers, Sequences, FiniteSets

CONSTANTS
  Client,
  Silent,     \* clients that may connect and never send
  Request,    \* what the others may ask
  Page,       \* paths that may be files: "/JLH.jpg" is the file JLH.jpg
  Limits,     \* how many descriptors there may be for connections and a file
  MaxKills, MaxChanges   \* bounds: clients killed, changes of a file

Form  == {"none", "pair", "pairs"}      \* no content-length, n=v, n1=v1&n2=v2
Word  == {"?", ""} \cup UNION {{r.cmd, r.path, r.vers} : r \in Request}
Words == [cmd : Word, path : Word, vers : Word]

ASSUME WebAssumption ==
  /\ Silent \subseteq Client /\ "/default.html" \in Page
  /\ Limits \subseteq Nat /\ MaxKills \in Nat /\ MaxChanges \in Nat
  /\ Request # {}
  /\ \A r \in Request : r.words \in 0 .. 3 /\ r.form \in Form

VARIABLES
  cst,       \* cst[c]: "new", "connected" or "sent"
  asked,     \* asked[c]: the request of a client that has sent one
  gone,      \* clients that have been killed
  arrived,   \* arrived[c]: pieces of the form that have reached the server
  queue,     \* connections nobody has accepted
  spc,       \* the server: "accept", "read", "serve", "fetch",
             \* "exit" when accept() has failed, "dead" by a signal
  conn,      \* the connection it serves
  scanned,   \* cmd, path and vers in main()
  taken,     \* taken[c]: pieces of the form that recv() returned
  fds,       \* connections accepted: none is ever closed
  limit,     \* descriptors left when the server has opened its socket
  file,      \* file[p]: "absent", "public", or "private": not for others to
             \* read, but for the server's user
  changes,   \* (bound) changes of a file so far
  answer,    \* answer[c]: what the client was sent
  ended,     \* clients for which send_eof() was called
  skips      \* did the compiler let fname = fname++ skip the slash?

clientVars == <<cst, asked, gone, arrived, queue>>
diskVars   == <<file, changes, skips, limit>>
vars == <<clientVars, diskVars, spc, conn, scanned, taken, fds, answer, ended>>

Nobody   == "nobody"
NoAnswer == [what |-> "none", stat |-> 0, page |-> ""]
Junk     == [cmd |-> "?", path |-> "?", vers |-> "?"]

Init ==
  /\ cst = [c \in Client |-> "new"] /\ gone = {} /\ queue = <<>>
  /\ asked = [c \in Client |-> CHOOSE r \in Request : TRUE]
  /\ arrived = [c \in Client |-> 0] /\ taken = [c \in Client |-> 0]
  /\ spc = "accept" /\ conn = Nobody /\ scanned = Junk /\ fds = 0
  /\ file = [p \in Page |-> "public"] /\ changes = 0
  /\ answer = [c \in Client |-> NoAnswer] /\ ended = {}
  /\ skips \in BOOLEAN /\ limit \in Limits

-----------------------------------------------------------------------------
(* Clients, and the owner of the files. *)

Connect(c) ==
  /\ cst[c] = "new"
  /\ cst' = [cst EXCEPT ![c] = "connected"]
  /\ queue' = Append(queue, c)
  /\ UNCHANGED <<asked, gone, arrived, diskVars, spc, conn, scanned, taken, fds, answer, ended>>

MakeRequest(c) ==
  /\ cst[c] = "connected" /\ c \notin gone
  /\ cst' = [cst EXCEPT ![c] = "sent"]
  /\ \E r \in Request : asked' = [asked EXCEPT ![c] = r]
  /\ UNCHANGED <<gone, arrived, queue, diskVars, spc, conn, scanned, taken, fds, answer, ended>>

Pieces(form) == CASE form = "none" -> 0 [] form = "pair" -> 2 [] form = "pairs" -> 3

(* The form comes in one piece or in several: up to the name, up to the    *)
(* value, up to the second pair.                                           *)
SendForm(c) ==
  /\ cst[c] = "sent" /\ c \notin gone
  /\ \E n \in arrived[c] + 1 .. Pieces(asked[c].form) : arrived' = [arrived EXCEPT ![c] = n]
  /\ UNCHANGED <<cst, asked, gone, queue, diskVars, spc, conn, scanned, taken, fds, answer, ended>>

Kill(c) ==
  /\ cst[c] # "new" /\ c \notin gone /\ Cardinality(gone) < MaxKills
  /\ gone' = gone \cup {c}
  /\ UNCHANGED <<cst, asked, arrived, queue, diskVars, spc, conn, scanned, taken, fds, answer, ended>>

ChangeFile(p) ==
  /\ changes < MaxChanges /\ changes' = changes + 1
  /\ \E f \in {"absent", "private", "public"} \ {file[p]} : file' = [file EXCEPT ![p] = f]
  /\ UNCHANGED <<clientVars, skips, limit, spc, conn, scanned, taken, fds, answer, ended>>

-----------------------------------------------------------------------------
(* The server. *)

(* With no descriptor left accept() fails at once, and main() exits.       *)
Accept ==
  /\ spc = "accept"
  /\ \/ /\ fds = limit
        /\ spc' = "exit" /\ UNCHANGED <<queue, conn, fds>>
     \/ /\ fds < limit /\ queue # <<>>
        /\ conn' = Head(queue) /\ queue' = Tail(queue)
        /\ fds' = fds + 1 /\ spc' = "read"
  /\ UNCHANGED <<cst, asked, gone, arrived, diskVars, scanned, taken, answer, ended>>

(* Slip: the words are kept only if sscanf() has found all three.          *)
ScanAllOrNothing(r) ==
  IF r.words = 3 THEN [cmd |-> r.cmd, path |-> r.path, vers |-> r.vers] ELSE scanned

Scan(r) ==
  [cmd  |-> IF r.words >= 1 THEN r.cmd  ELSE scanned.cmd,
   path |-> IF r.words >= 2 THEN r.path ELSE scanned.path,
   vers |-> IF r.words = 3  THEN r.vers ELSE scanned.vers]

(* recvln() waits: for the request, or for the end of a client that is     *)
(* gone without one.                                                       *)
ReadRequest ==
  /\ spc = "read"
  /\ \/ /\ cst[conn] = "sent"
        /\ scanned' = Scan(asked[conn]) /\ spc' = "serve" /\ UNCHANGED ended
     \/ /\ cst[conn] # "sent" /\ conn \in gone
        /\ ended' = ended \cup {conn} /\ spc' = "accept" /\ UNCHANGED scanned
  /\ UNCHANGED <<clientVars, diskVars, conn, taken, fds, answer>>

(* The answers: a header with a body, a header alone, the first line of a  *)
(* header (send_head() with no type), or nothing at all.                   *)
Page_(s)  == [what |-> "page", stat |-> s, page |-> scanned.path]
Head_(s)  == [what |-> "head", stat |-> s, page |-> scanned.path]
Bare(s)   == [what |-> "bare", stat |-> s, page |-> scanned.path]
Nothing   == [what |-> "none", stat |-> 0, page |-> scanned.path]

(* The second send() to a client that is gone may raise SIGPIPE.           *)
Send(a, eof) ==
  /\ answer' = [answer EXCEPT ![conn] = a]
  /\ \/ spc' = "accept" /\ ended' = IF eof THEN ended \cup {conn} ELSE ended
     \/ conn \in gone /\ a.what \in {"page", "head"} /\ spc' = "dead" /\ UNCHANGED ended

Crash == spc' = "dead" /\ UNCHANGED <<answer, ended>>

is_valid_http_req(w) ==
  w.cmd \in {"GET", "POST", "HEAD"} /\ w.vers \in {"HTTP/1.0", "HTTP/1.1"}

(* Slip: on to the next request without the end of this one.               *)
BadRequestNoEof ==
  /\ ~is_valid_http_req(scanned)
  /\ Send(Page_(400), FALSE)
  /\ UNCHANGED taken
BadRequest ==
  /\ ~is_valid_http_req(scanned)
  /\ Send(Page_(400), TRUE)
  /\ UNCHANGED taken

HasLength(c) == asked[c].form # "none"

(* What strstr() needs in the part of the form that was received: "=" is   *)
(* in the second piece and "&" in the third.                               *)
TakeForm ==
  /\ arrived[conn] > 0 \/ conn \in gone
  /\ taken' = [taken EXCEPT ![conn] = arrived[conn]]
  /\ IF arrived[conn] = 3 THEN Send(Page_(200), FALSE) ELSE Crash

(* Slip: no test of the length.                                            *)
process_post_any ==
  /\ is_valid_http_req(scanned) /\ scanned.cmd = "POST"
  /\ IF HasLength(conn) THEN TakeForm ELSE Crash /\ UNCHANGED taken

(* Neither answer is followed by send_eof(), and the one recv() takes what *)
(* there is.                                                               *)
process_post ==
  /\ is_valid_http_req(scanned) /\ scanned.cmd = "POST"
  /\ \/ ~HasLength(conn) /\ Send(Page_(404), FALSE) /\ UNCHANGED taken
     \/ HasLength(conn) /\ TakeForm

(* fopen() needs the file and a descriptor, and accept() may have given    *)
(* the last one to the connection that is served.                          *)
CannotOpen(p) == file[p] = "absent" \/ fds = limit

check_file_status(p) == IF skips /\ p \in Page THEN file[p] ELSE "absent"

process_get ==
  /\ is_valid_http_req(scanned) /\ scanned.cmd = "GET"
  /\ UNCHANGED taken
  /\ LET p == scanned.path IN
     \/ p \in {"/", "/time"} /\ Send(Page_(200), TRUE)
     \/ p = "/moved.html" /\ Send(Page_(301), TRUE)
     \/ /\ p = "/default.html"
        /\ IF CannotOpen(p) THEN Crash ELSE Send(Page_(200), TRUE)
     \/ /\ p \in {"/JLH.jpg", "/form.html"}
        /\ \/ check_file_status(p) = "public"  /\ spc' = "fetch" /\ UNCHANGED <<answer, ended>>
           \/ check_file_status(p) = "absent"  /\ Send(Page_(404), TRUE)
           \/ check_file_status(p) = "private" /\ Send(Page_(403), TRUE)
     \/ /\ p \notin {"/", "/time", "/moved.html", "/default.html", "/JLH.jpg", "/form.html"}
        /\ Send(Head_(404), TRUE)

process_head ==
  /\ is_valid_http_req(scanned) /\ scanned.cmd = "HEAD"
  /\ UNCHANGED taken
  /\ LET p == scanned.path IN
     \/ p = "/" /\ Send(Head_(200), TRUE)
     \/ /\ p # "/"
        /\ \/ check_file_status(p) = "public"  /\ spc' = "fetch" /\ UNCHANGED <<answer, ended>>
           \/ check_file_status(p) = "absent"  /\ Send(Bare(404), TRUE)
           \/ check_file_status(p) = "private" /\ Send(Bare(403), TRUE)

Serve ==
  /\ spc = "serve"
  /\ BadRequest \/ process_post \/ process_get \/ process_head
  /\ UNCHANGED <<clientVars, diskVars, conn, scanned, fds>>

(* The pages a readable file is announced as; the others are passed over.  *)
Announced(p) ==
  CASE p \in {"/JLH.jpg", "/form.html"}     -> Head_(200)
    [] p \in {"/default.html", "/time"}     -> Head_(200)
    [] p = "/moved.html"                    -> Head_(301)
    [] OTHER                                -> Nothing

(* After the test the file is opened, and what fopen() returns is used     *)
(* unseen.  Even for GET no send() of the content follows.                 *)
read_file ==
  /\ spc = "fetch"
  /\ IF CannotOpen(scanned.path) THEN Crash ELSE Send(Announced(scanned.path), TRUE)
  /\ UNCHANGED <<clientVars, diskVars, conn, scanned, taken, fds>>

-----------------------------------------------------------------------------
Server == Accept \/ ReadRequest \/ Serve \/ read_file
Users  == \E c \in Client : Connect(c) \/ MakeRequest(c) \/ SendForm(c) \/ Kill(c)
Owner  == \E p \in Page : ChangeFile(p)

(* What happens after the end of the server is nothing to it.              *)
Alive == spc \notin {"exit", "dead"}
Next  == Alive /\ (Server \/ Users \/ Owner)

(* The server runs; a client that is not silent sends its request, and     *)
(* every one the form that belongs to it.                                  *)
Spec ==
  /\ Init /\ [][Next]_vars
  /\ WF_vars(Alive /\ Server)
  /\ \A c \in Client : WF_vars(Alive /\ SendForm(c))
  /\ \A c \in Client \ Silent : WF_vars(Alive /\ MakeRequest(c))

-----------------------------------------------------------------------------
(* Properties. *)

AnswerType == [what : {"none", "bare", "head", "page"},
               stat : {0, 200, 301, 400, 403, 404}, page : Word]

TypeOK ==
  /\ cst \in [Client -> {"new", "connected", "sent"}]
  /\ asked \in [Client -> Request] /\ gone \subseteq Client
  /\ arrived \in [Client -> 0 .. 3] /\ taken \in [Client -> 0 .. 3]
  /\ queue \in Seq(Client) /\ conn \in Client \cup {Nobody}
  /\ spc \in {"accept", "read", "serve", "fetch", "exit", "dead"}
  /\ scanned \in Words /\ limit \in Limits /\ fds \in 0 .. limit
  /\ file \in [Page -> {"absent", "private", "public"}]
  /\ answer \in [Client -> AnswerType] /\ ended \subseteq Client
  /\ changes \in 0 .. MaxChanges /\ skips \in BOOLEAN

(* What answer a fits request r when t pieces of its form were taken: it   *)
(* is about its own page; it has a body only for GET and POST, or with     *)
(* status 400; and after three words 400 means that they are no valid      *)
(* request.                                                                *)
Fits(r, a, t) ==
  /\ a.page = r.path
  /\ r.cmd = "HEAD" => a.what # "page" \/ a.stat = 400
  /\ r.words = 3 => (a.stat = 400 <=> ~is_valid_http_req(r))
  /\ a.stat \in {200, 301, 403} => r.cmd \in {"GET", "HEAD", "POST"}
  /\ r.cmd = "POST" /\ a.stat = 200 => t = 3

(* Whatever the earlier clients asked and left in the arrays of main(), a  *)
(* client whose line has a command and a path is answered for these.       *)
OwnAnswer ==
  /\ TypeOK
  /\ \A c \in Client : answer[c] # NoAnswer /\ asked[c].words >= 2 =>
                         Fits(asked[c], answer[c], taken[c])

(* A signal ends the server only if the client it serves is gone, or the   *)
(* file asked for is absent when it is opened or its connection has taken  *)
(* the last descriptor, or of the form there was no "=" or no "&" in what  *)
(* the one recv() returned.                                                *)
DiesOnlyOf ==
  spc = "dead" =>
    \/ conn \in gone
    \/ /\ scanned.cmd \in {"GET", "HEAD"} /\ scanned.path \in Page
       /\ file[scanned.path] = "absent" \/ fds = limit
    \/ scanned.cmd = "POST" /\ taken[conn] \in {1, 2}

(* Every request is answered, and ended for all but POST, unless the       *)
(* server waits for a client that sends nothing (it serves one connection  *)
(* at a time and reads without a limit), has died of the client it served, *)
(* or is gone before it has come to the client: none is given up half way  *)
(* for want of descriptors.                                                *)
Queued(c) == \E k \in DOMAIN queue : queue[k] = c
Answered ==
  \A c \in Client : cst[c] = "sent" ~>
    \/ c \in ended
    \/ answer[c] # NoAnswer /\ asked[c].cmd = "POST"
    \/ spc = "dead" /\ (conn = c \/ Queued(c))
    \/ spc = "exit" /\ Queued(c)
    \/ [](spc = "read" /\ conn \in Silent)
=============================================================================
