--------------------------- MODULE MCHttpExchange ----------------------------
(***************************************************************************)
(* The exchanges the HTTP runs look at.  A profile says which client,      *)
(* request, response and network; requests are varied against a response   *)
(* without a body, responses against a request without one.                *)
(***************************************************************************)
EXTENDS HttpExchange

Answer(head, length, encoding, body, chunks) ==
  [head |-> head, status |-> 200, length |-> length, encoding |-> encoding,
   body |-> body, chunks |-> chunks, ext |-> FALSE]

Empty == Answer(1, 0, "none", 0, <<>>)

Plain ==
  [api |-> "handle", scheme |-> "http", tls |-> FALSE, into_buffered |-> FALSE,
   tx |-> 24, rx |-> 6, head |-> 3, auth |-> "none", method |-> "GET",
   req |-> [kind |-> "none", len |-> 0, real |-> 0], pieces |-> {1}, flushes |-> FALSE,
   resps |-> <<Empty, Empty>>, mode |-> "fill", cut |-> 100]

\* How a connection is asked for.
Over(p) ==
  {p, [p EXCEPT !.tls = TRUE], [p EXCEPT !.into_buffered = TRUE],
   [p EXCEPT !.scheme = "https", !.tls = TRUE], [p EXCEPT !.scheme = "https"]}

Bodies ==
  {[kind |-> "none", len |-> 0, real |-> 0], [kind |-> "sized", len |-> 0, real |-> 0],
   [kind |-> "sized", len |-> 3, real |-> 3], [kind |-> "sized", len |-> 3, real |-> 2],
   [kind |-> "stream", len |-> 0, real |-> 0], [kind |-> "stream", len |-> 0, real |-> 4],
   [kind |-> "stream", len |-> 0, real |-> 19]}

\* tx lengths on both sides of the two-digit chunk header, with and without
\* the bytes of the head in front; and a head as long as the buffer, of which
\* BufferedWrite may hold any part.
RequestProfiles ==
  UNION {Over([Plain EXCEPT !.method = "POST", !.req = b, !.tx = t, !.flushes = TRUE,
                            !.pieces = IF b.real < 9 THEN {1, 3} ELSE {7, 18}]) : b \in Bodies, t \in {8, 20, 23, 24}}
  \cup {[Plain EXCEPT !.into_buffered = b, !.method = "POST", !.tx = 8, !.head = 8, !.flushes = TRUE,
                      !.req = [kind |-> "stream", len |-> 0, real |-> 4], !.pieces = {1, 3}] : b \in BOOLEAN}
  \cup Over([Plain EXCEPT !.auth = "too_long"])

Responses ==
  {Answer(2, 4, "none", 4, <<>>), Answer(2, -1, "none", 4, <<>>), Answer(7, 0, "none", 0, <<>>),
   Answer(2, -1, "chunked", 4, <<1, 3>>), Answer(2, -1, "chunked", 0, <<>>),
   Answer(2, -1, "unknown", 2, <<>>),
   [Answer(2, -1, "chunked", 2, <<2>>) EXCEPT !.ext = TRUE],
   [Empty EXCEPT !.status = 204, !.length = -1], [Empty EXCEPT !.status = 100, !.length = 2]}

ResponseProfiles ==
  {[Plain EXCEPT !.api = a, !.mode = m, !.resps = <<r, Answer(2, -1, "chunked", 2, <<2>>)>>,
                 !.cut = c, !.rx = x, !.method = h, !.scheme = s, !.tls = (s = "https")] :
           s \in {"http", "https"}, a \in {"handle", "resource"}, m \in {"fill", "read", "to_end"}, r \in Responses,
           c \in {1, 4, 6, 9, 12, 100}, x \in {4, 6, 8}, h \in {"GET", "HEAD"}}

MCProfiles == RequestProfiles \cup ResponseProfiles
\* BufferedWrite may hold any number of the bytes of a head.
MCUnwritten == 0 .. 8
=============================================================================
