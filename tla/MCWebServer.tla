----------------------------- MODULE MCWebServer -----------------------------
EXTENDS WebServer

Line(n, c, p, v, f) == [words |-> n, cmd |-> c, path |-> p, vers |-> v, form |-> f]
Ask(c, p) == Line(3, c, p, "HTTP/1.1", "none")

(* Every branch of the server, lines with too few words, and three forms.  *)
Requests ==
  {Ask("GET", "/"), Ask("GET", "/default.html"), Ask("GET", "/JLH.jpg"),
   Ask("GET", "/moved.html"), Ask("GET", "/xyz.html"),
   Ask("HEAD", "/"), Ask("HEAD", "/JLH.jpg"), Ask("HEAD", "/xyz.html"), Ask("HEAD", "/list.c"),
   Ask("BREW", "/"), Line(3, "GET", "/", "HTTP/9", "none"),
   Line(2, "HEAD", "/JLH.jpg", "", "none"), Line(1, "GET", "", "", "none"),
   Line(3, "POST", "/form", "HTTP/1.0", "none"), Line(3, "POST", "/form", "HTTP/1.0", "pair"),
   Line(3, "POST", "/form", "HTTP/1.0", "pairs")}
=============================================================================
