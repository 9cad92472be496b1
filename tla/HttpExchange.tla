---------------------------- MODULE HttpExchange -----------------------------
(***************************************************************************)
(* The HTTP client of the reqwless fork (tools/reqwless): a connection is  *)
(* made, a request written through one of the body writers, and the        *)
(* response read through one of the body readers, in pieces the network    *)
(* chooses.  The firmware downloads every OTA image this way (a GET whose  *)
(* body is taken with fill_buf and consume); the other readers and the     *)
(* request bodies are the rest of the library's interface.                 *)
(*                                                                         *)
(* Time and the server's own steps are left out: one task reads a byte     *)
(* stream whose contents are fixed, so only where reads are cut matters.   *)
(***************************************************************************)
EXTENDS HttpCodec

CONSTANTS
  Profiles,    \* the exchanges to look at: what client, server and network do
  MaxPiece,    \* most bytes one read of the connection returns
  Unwritten    \* how much of the head BufferedWrite may still hold after it

VARIABLES
  prof,        \* the exchange: see MCHttpExchange
  turn,        \* which request on this connection: 1, or 2 on a resource
  conn,        \* HttpConnection: "none", "plain", "buffered" or "tls"
  stage,       \* "connect", "head", "body", "response", "content", "done"
  wire,        \* the units of this request the connection has taken
  writer,      \* BufferingChunkedBodyWriter
  fed,         \* bytes of the request body given to the writer
  stream,      \* the bytes that reach the client before the peer closes
  at,          \* bytes taken from that stream
  reader,      \* header_buf and the body reader over it
  out,         \* the response body the caller has got
  result       \* "none", "end" or the error returned

vars == <<prof, turn, conn, stage, wire, writer, fed, stream, at, reader, out, result>>

-----------------------------------------------------------------------------
(* The server and the network *)

Resp == prof.resps[turn]

\* The framed body of a response; chunk sizes may carry an extension.
ContentUnits(resp) ==
  LET data == Units("body", resp.body)
      start(i) == FoldLeft(+, 0, SubSeq(resp.chunks, 1, i - 1))
      chunk(i) == write_chunked_header(resp.chunks[i])
                    \o SubSeq(data, start(i) + 1, start(i) + resp.chunks[i]) \o NEWLINE
      flawed(units) == IF resp.ext THEN <<units[1], Unit("ext", 0)>> \o Tail(units) ELSE units
  IN CASE prof.method = "HEAD" -> <<>>
       [] prof.method # "HEAD" /\ resp.encoding = "chunked" ->
            flawed(FlattenSeq([i \in DOMAIN resp.chunks |-> chunk(i)]) \o EMPTY_CHUNK)
       [] OTHER -> data

ResponseUnits(i) == Units("head", prof.resps[i].head) \o ContentUnits(prof.resps[i])
Promised(i) == FlattenSeq([k \in 1 .. i |-> ResponseUnits(k)])

\* What reaches the client: the peer closes after `cut` bytes.
Reaches(i) == SubSeq(Promised(i), 1, Least(prof.cut, Len(Promised(i))))
Available == Len(stream) - at
EndOf(i) == Len(Promised(i))

\* The body the caller should get.
BodyOf(resp) == IF prof.method = "HEAD" THEN <<>> ELSE Units("body", resp.body)

-----------------------------------------------------------------------------
(* client.rs: connect, request.rs: write_header, client.rs: write_request *)

Fail(error) == stage' = "done" /\ result' = error

\* HttpClient::connect (and request, resource, into_buffered around it).
Connect ==
  /\ stage = "connect"
  /\ \/ /\ \E error \in {"url", "dns", "network"} : Fail(error)
        /\ UNCHANGED conn
     \/ /\ prof.scheme = "https" /\ prof.tls
        /\ Fail("tls")
        /\ UNCHANGED conn
     \/ /\ conn' = CASE prof.scheme = "https" /\ prof.tls -> "tls"
                     [] prof.scheme # "https" /\ prof.tls -> "buffered"
                     [] OTHER -> IF prof.into_buffered THEN "buffered" ELSE "plain"
        /\ stage' = "head"
        /\ UNCHANGED result
  /\ UNCHANGED <<prof, turn, wire, writer, fed, stream, at, reader, out>>

NewReader == [mem |-> Blank(prof.rx), base |-> 0, loaded |-> 0, hint |-> "none",
              left |-> 0, chunk |-> -1]

\* Request::write_header: on a buffered connection BufferedWrite (external)
\* still holds the last bytes.  Credentials too long for their buffer end it
\* after the request line.
WriteHead ==
  /\ stage = "head"
  /\ LET head == Units("head", prof.head) IN
     \/ /\ prof.auth = "too_long"
        /\ wire' = SubSeq(head, 1, 1)
        /\ Fail("codec")
        /\ UNCHANGED writer
     \/ /\ prof.auth # "too_long"
        /\ \E held \in IF conn = "buffered" THEN {u \in Unwritten : u <= prof.head} ELSE {0} :
             /\ wire' = SubSeq(head, 1, prof.head - held)
             /\ writer' = new_with_data(Patch(Blank(prof.tx), 0, SubSeq(head, prof.head - held + 1, prof.head)), held)
        /\ stage' = "body"
        /\ UNCHANGED result
     \/ /\ Fail("network")
        /\ UNCHANGED <<wire, writer>>
  /\ fed' = 0
  /\ reader' = NewReader
  /\ out' = <<>>
  /\ UNCHANGED <<prof, turn, conn, stream, at>>

Held == SubSeq(writer.buf, 1, writer.header_pos)
NextPiece(k) == SubSeq(Units("body", prof.req.real), fed + 1, fed + k)

\* RequestBody::write: one write of up to k bytes by the caller's body.
WriteBody ==
  /\ stage = "body" /\ prof.req.kind \in {"sized", "stream"}
  /\ ~(prof.req.kind = "sized" /\ prof.req.len = 0)
  /\ fed < prof.req.real
  /\ \/ /\ \E k \in {Least(p, prof.req.real - fed) : p \in prof.pieces} :
             CASE prof.req.kind = "sized" ->           \* FixedBodyWriter
                    /\ wire' = wire \o Held \o NextPiece(k)
                    /\ writer' = [writer EXCEPT !.header_pos = 0]
                    /\ fed' = fed + k
               [] prof.req.kind = "stream" /\ conn # "buffered" ->     \* ChunkedBodyWriter
                    /\ wire' = wire \o ChunkOf(NextPiece(k))
                    /\ fed' = fed + k
                    /\ UNCHANGED writer
               [] OTHER ->                             \* BufferingChunkedBodyWriter
                    LET w == write_buffered(writer, NextPiece(k)) IN
                    /\ writer' = [w EXCEPT !.out = <<>>]
                    /\ wire' = wire \o w.out
                    /\ fed' = fed + taken_buffered(writer, NextPiece(k))
        /\ IF writer'.panicked THEN Fail("panic") ELSE UNCHANGED <<stage, result>>
     \/ /\ Fail("network")
        /\ UNCHANGED <<wire, writer, fed>>
  /\ UNCHANGED <<prof, turn, conn, stream, at, reader, out>>

\* BufferingChunkedBodyWriter::flush, by a body that flushes between writes.
FlushBody ==
  /\ stage = "body" /\ prof.req.kind = "stream" /\ conn = "buffered"
  /\ prof.flushes /\ fed < prof.req.real
  /\ LET w == flush_buffered(writer) IN
     /\ writer' = [w EXCEPT !.out = <<>>]
     /\ wire' = wire \o w.out
     /\ IF w.panicked THEN Fail("panic") ELSE UNCHANGED <<stage, result>>
  /\ UNCHANGED <<prof, turn, conn, fed, stream, at, reader, out>>

\* The end of write_request, and the flush of send.
FinishRequest ==
  /\ stage = "body"
  /\ \/ prof.req.kind = "none"
     \/ prof.req.kind = "sized" /\ prof.req.len = 0
     \/ fed = prof.req.real
  /\ \/ /\ IF prof.req.kind = "stream" /\ conn = "buffered"
           THEN LET w == terminate_buffered(writer) IN
                /\ wire' = wire \o w.out
                /\ writer' = [w EXCEPT !.out = <<>>, !.header_pos = 0]
           ELSE /\ wire' = wire \o Held \o IF prof.req.kind = "stream" THEN EMPTY_CHUNK ELSE <<>>
                /\ writer' = [writer EXCEPT !.header_pos = 0]
        /\ IF writer'.panicked THEN Fail("panic")
           ELSE IF prof.req.kind = "sized" /\ prof.req.len # fed
           THEN Fail("incorrect_body")
           ELSE stage' = "response" /\ UNCHANGED result
     \/ Fail("network") /\ UNCHANGED <<wire, writer>>
  /\ UNCHANGED <<prof, turn, conn, fed, stream, at, reader, out>>

-----------------------------------------------------------------------------
(* response/mod.rs: Response::read and body *)

\* What httparse (external) makes of the bytes read so far.
ParseHead(units) ==
  LET n == Least(Len(units), Resp.head)
  IN IF SubSeq(units, 1, n) # Units("head", n) THEN "error"
     ELSE IF Len(units) >= Resp.head THEN "complete" ELSE "partial"

\* Response::body and ResponseBody::reader: `extra` bytes after the head are
\* moved to the front of the buffer.
StartBody(mem, extra, hint) ==
  [mem |-> Patch(mem, 0, SubSeq(mem, Resp.head + 1, Resp.head + extra)),
   base |-> 0, loaded |-> extra, hint |-> hint,
   left |-> IF hint = "fixed" THEN ContentLength(Resp) ELSE 0, chunk |-> -1]

\* The connection has nothing more: TLS reports an error, TCP reads 0 bytes.
AtEnd(plain) == IF conn = "tls" THEN Fail("network") ELSE plain

ReadHead ==
  /\ stage = "response"
  /\ \/ /\ reader.loaded = prof.rx
        /\ Fail("too_small")
        /\ UNCHANGED <<at, reader>>
     \/ /\ reader.loaded < prof.rx /\ Available = 0
        /\ AtEnd(Fail("aborted"))
        /\ UNCHANGED <<at, reader>>
     \/ \E k \in 1 .. Least(MaxPiece, Least(Available, prof.rx - reader.loaded)) :
          LET pos == reader.loaded + k
              mem == Patch(reader.mem, reader.loaded, SubSeq(stream, at + 1, at + k))
              parsed == ParseHead(SubSeq(mem, 1, pos))
              hint == ReaderHint(prof.method, Resp)
          IN /\ at' = at + k
             /\ CASE parsed = "error" -> Fail("codec") /\ UNCHANGED reader
                  [] parsed = "partial" ->
                       /\ reader' = [reader EXCEPT !.mem = mem, !.loaded = pos]
                       /\ UNCHANGED <<stage, result>>
                  [] parsed = "complete" /\ HeadIsBad(Resp, pos - Resp.head) ->
                       Fail("codec") /\ UNCHANGED reader
                  [] OTHER ->
                       /\ reader' = StartBody(mem, pos - Resp.head, hint)
                       /\ stage' = "content"
                       /\ UNCHANGED result
     \/ Fail("network") /\ UNCHANGED <<at, reader>>
  /\ UNCHANGED <<prof, turn, conn, wire, writer, fed, stream, out>>

-----------------------------------------------------------------------------
(* reader.rs: ReadBuffer and BufferingReader, as r = [reader, at] *)

Raw == reader @@ [at |-> at]
Loaded(r) == SubSeq(r.mem, r.base + 1, r.base + r.loaded)
Rest(r) == Loaded(r) \o SubSeq(stream, r.at + 1, Len(stream))

\* ReadBuffer::consume, what is left over going to the connection.
Consume(r, n) ==
  LET own == Least(n, r.loaded)
  IN [r EXCEPT !.mem = Patch(@, r.base, SubSeq(Loaded(r), own + 1, r.loaded)),
               !.loaded = @ - own, !.at = @ + (n - own)]

\* BufferingReader::fill_buf without the TLS connection's own buffer.
FillLocal(r) ==
  IF r.loaded > 0 \/ Len(stream) = r.at THEN {r}
  ELSE {[r EXCEPT !.mem = Patch(@, r.base, SubSeq(stream, r.at + 1, r.at + k)),
                  !.loaded = k, !.at = @ + k] :
          k \in 1 .. Least(MaxPiece, Least(Len(stream) - r.at, prof.rx - r.base))}

-----------------------------------------------------------------------------
(* response/chunked.rs: chunk boundaries.  A chunk is -1 before the first, *)
(* -2 after the last, else the bytes left of it.  Boundaries are read byte *)
(* by byte, so the result depends on the bytes alone.                      *)

NoChunk == -1
EmptyChunk == -2
Wrong(r, error) == [r EXCEPT !.hint = error]

\* read_next_chunk_length: at most 8 digits, CR, LF; no digit at all is 0.
read_next_chunk_length(r) ==
  LET rest == Rest(r)
      ends == {i \in DOMAIN rest : rest[i] = LF}
      end == CHOOSE i \in ends : \A j \in ends : i <= j
      digits == SubSeq(rest, 1, end - 2)
      length == FoldLeft(LAMBDA n, u : 16 * n + u.v, 0, digits)
  IN CASE Len(rest) >= 10 /\ \A i \in ends : i > 10 -> Wrong(r, "codec")
       [] ends = {} /\ Len(rest) < 10 -> Wrong(r, "eof")
       [] OTHER ->
            IF end = 1 \/ rest[end - 1] # CR \/ \E i \in DOMAIN digits : digits[i].t # "hex"
            THEN Wrong(r, "codec")
            ELSE [Consume(r, end) EXCEPT !.chunk = IF length = 0 THEN EmptyChunk ELSE length]

read_chunk_end(r) ==
  LET rest == Rest(r)
  IN CASE Len(rest) < 2 -> Wrong(r, "eof")
       [] Len(rest) >= 2 /\ SubSeq(rest, 1, 2) # NEWLINE -> Wrong(r, "codec")
       [] OTHER -> Consume(r, 2)

\* Slip: the line after the last chunk is left on the connection.
handle_chunk_boundary_open(r) ==
  LET ready == IF r.chunk = 0 THEN read_chunk_end(r) ELSE r
  IN IF r.chunk \in {NoChunk, 0} /\ ready.hint = "chunked"
     THEN read_next_chunk_length(ready) ELSE ready

handle_chunk_boundary(r) ==
  LET ready == IF r.chunk = 0 THEN read_chunk_end(r) ELSE r
      next == read_next_chunk_length(ready)
  IN IF r.chunk \notin {NoChunk, 0} \/ ready.hint # "chunked" THEN ready
     ELSE IF next.hint = "chunked" /\ next.chunk = EmptyChunk THEN read_chunk_end(next)
     ELSE next

-----------------------------------------------------------------------------
(* response/mod.rs: BodyReader, over fixed_length.rs and chunked.rs *)

Settle(r) ==
  /\ reader' = [k \in DOMAIN reader |-> r[k]]
  /\ at' = r.at
Done == Fail("end")

\* The bytes the reader may hand out before it looks at the framing again.
Cap(r) ==
  CASE r.hint = "fixed" -> r.left
    [] r.hint = "chunked" -> IF r.chunk = EmptyChunk THEN 0 ELSE r.chunk
    [] r.hint = "empty" -> 0
    [] OTHER -> prof.rx + Len(stream)

Count(r, n) ==
  [r EXCEPT !.left = IF r.hint = "fixed" THEN @ - n ELSE @,
            !.chunk = IF r.hint = "chunked" THEN @ - n ELSE @]

Framed == IF reader.hint = "chunked" THEN handle_chunk_boundary(Raw) ELSE Raw
\* Whether the framing or the bytes after it had to come off the connection,
\* where a read may fail.
ReadsConnection(r) == r.at > at \/ (r.loaded = 0 /\ Cap(r) > 0)
Hints == {"fixed", "chunked", "to_end", "empty"}

\* BufRead: fill_buf, of which the caller uses j bytes, then consume(j).  A
\* TLS connection lends its own decrypted record.
FillBuf ==
  /\ stage = "content" /\ prof.mode = "fill"
  /\ LET r == Framed IN
     \/ /\ r.hint \notin Hints
        /\ Fail(r.hint)
        /\ UNCHANGED <<at, reader, out>>
     \/ /\ r.hint \in Hints /\ Cap(r) = 0
        /\ Done
        /\ Settle(r)
        /\ UNCHANGED out
     \/ /\ r.hint \in Hints /\ Cap(r) > 0
        /\ \E f \in IF conn = "tls" THEN {r} ELSE FillLocal(r) :
             LET lent == IF f.loaded > 0 THEN f.loaded ELSE Least(MaxPiece, Len(stream) - f.at)
             IN IF lent = 0
                THEN /\ AtEnd(IF r.hint = "fixed" THEN Fail("aborted") ELSE Done)
                     /\ Settle(f)
                     /\ UNCHANGED out
                ELSE \E j \in 1 .. Least(lent, Cap(r)) :
                       /\ out' = out \o SubSeq(Rest(f), 1, j)
                       /\ Settle(Count(Consume(f, j), j))
                       /\ UNCHANGED <<stage, result>>
     \/ ReadsConnection(r) /\ Fail("network") /\ UNCHANGED <<at, reader, out>>
  /\ UNCHANGED <<prof, turn, conn, wire, writer, fed, stream>>

\* Read::read into a slice of m bytes (discard does this with 128).
\* FixedLengthBodyReader does not cap the read by what remains.
Read ==
  /\ stage = "content" /\ prof.mode = "read"
  /\ LET r == Framed IN
     \/ /\ r.hint \notin Hints
        /\ Fail(r.hint)
        /\ UNCHANGED <<at, reader, out>>
     \/ /\ r.hint \in Hints /\ Cap(r) = 0
        /\ Done
        /\ Settle(r)
        /\ UNCHANGED out
     \/ /\ r.hint \in Hints /\ Cap(r) > 0
        /\ \E m \in 1 .. MaxPiece :
             LET source == IF r.loaded > 0 THEN r.loaded ELSE Len(stream) - r.at
                 most == IF r.hint = "chunked" THEN Least(m, r.chunk) ELSE m
                 n == Least(source, most)
             IN IF n = 0
                THEN /\ AtEnd(Done)
                     /\ Settle(r)
                     /\ UNCHANGED out
                ELSE /\ out' = out \o SubSeq(Rest(r), 1, n)
                     /\ Settle(Count(Consume(r, n), n))
                     /\ UNCHANGED <<stage, result>>
     \/ ReadsConnection(r) /\ Fail("network") /\ UNCHANGED <<at, reader, out>>
  /\ UNCHANGED <<prof, turn, conn, wire, writer, fed, stream>>

-----------------------------------------------------------------------------
(* ResponseBody::read_to_end: the body ends up at the start of rx_buf *)

\* The loop of BodyReader::read_to_end, reading straight into the buffer;
\* `loaded` is the length so far.
ReadToEnd ==
  /\ stage = "content" /\ prof.mode = "to_end" /\ reader.hint # "chunked"
  /\ LET fixed == reader.hint = "fixed"
         complete == fixed /\ reader.left = reader.loaded
         full == reader.loaded = prof.rx
         finish(ok) == IF ok THEN Done /\ out' = SubSeq(reader.mem, 1, reader.loaded)
                             ELSE Fail("too_small") /\ UNCHANGED out
     IN \/ /\ reader.hint = "empty"
           /\ Done
           /\ UNCHANGED <<at, reader, out>>
        \/ /\ fixed /\ (complete \/ full)
           /\ finish(complete)
           /\ UNCHANGED <<at, reader>>
        \/ /\ ~fixed /\ reader.hint # "empty" /\ full   \* one more byte?
           /\ finish(Available = 0)
           /\ at' = at + Least(1, Available)
           /\ UNCHANGED reader
        \/ /\ ~fixed /\ reader.hint # "empty" /\ full   \* the probe may fail
           /\ finish(TRUE)
           /\ UNCHANGED <<at, reader>>
        \/ /\ ~complete /\ ~full /\ reader.hint # "empty" /\ Available = 0
           /\ IF conn = "tls" THEN Fail("network") /\ UNCHANGED out ELSE finish(~fixed)
           /\ UNCHANGED <<at, reader>>
        \/ /\ ~complete /\ ~full /\ reader.hint # "empty"
           /\ \E k \in 1 .. Least(MaxPiece, Least(Available, prof.rx - reader.loaded)) :
                /\ reader' = [reader EXCEPT !.mem = Patch(@, reader.loaded, SubSeq(stream, at + 1, at + k)),
                                            !.loaded = @ + k]
                /\ at' = at + k
           /\ UNCHANGED <<stage, result, out>>
        \/ /\ ~complete /\ ~full /\ reader.hint # "empty"
           /\ Fail("network")
           /\ UNCHANGED <<at, reader, out>>
  /\ UNCHANGED <<prof, turn, conn, wire, writer, fed, stream>>

\* ChunkedBodyReader::read_to_end works in place: the slice it reads into
\* starts after the bytes it has kept (`base`).  A peer that closes inside a
\* chunk makes fill_buf return nothing for ever, and the loop turns.
ReadChunkedToEnd ==
  /\ stage = "content" /\ prof.mode = "to_end" /\ reader.hint = "chunked"
  /\ LET r == Framed IN
     \/ /\ reader.base = prof.rx
        /\ Fail("too_small")
        /\ UNCHANGED <<at, reader, out>>
     \/ /\ reader.base < prof.rx /\ r.hint # "chunked"
        /\ Fail(r.hint)
        /\ UNCHANGED <<at, reader, out>>
     \/ /\ reader.base < prof.rx /\ r.hint = "chunked" /\ Cap(r) = 0
        /\ Done
        /\ Settle(r)
        /\ out' = SubSeq(r.mem, 1, r.base)
     \/ /\ reader.base < prof.rx /\ r.hint = "chunked" /\ Cap(r) > 0
        /\ \E f \in FillLocal(r) :
             LET n == Least(f.loaded, f.chunk)
             IN IF f.loaded = 0 THEN AtEnd(UNCHANGED <<stage, result>>) /\ Settle(f)
                ELSE /\ Settle([f EXCEPT !.chunk = @ - n, !.loaded = @ - n, !.base = @ + n])
                     /\ UNCHANGED <<stage, result>>
        /\ UNCHANGED out
     \/ /\ reader.base < prof.rx /\ ReadsConnection(r)
        /\ Fail("network")
        /\ UNCHANGED <<at, reader, out>>
  /\ UNCHANGED <<prof, turn, conn, wire, writer, fed, stream>>

-----------------------------------------------------------------------------
(* client.rs: the handle and the resource *)

\* HttpRequestHandle::send a second time.
SendAgain ==
  /\ prof.api = "handle" /\ stage = "done" /\ result = "end"
  /\ result' = "already_sent"
  /\ UNCHANGED <<prof, turn, conn, stage, wire, writer, fed, stream, at, reader, out>>

\* HttpResource::request(..).send on the same connection: after the body has
\* been read to its end, its reader dropped, or the response refused.  After
\* a network error the connection is of no further use.
NextRequest ==
  /\ prof.api = "resource" /\ turn = 1
  /\ \/ stage = "content"
     \/ stage = "done" /\ result # "network" /\ wire = Units("head", prof.head)
  /\ turn' = 2
  /\ stage' = "head"
  /\ result' = "none"
  /\ wire' = <<>>
  /\ out' = <<>>
  /\ stream' = Reaches(2)
  /\ UNCHANGED <<prof, conn, writer, fed, at, reader>>

-----------------------------------------------------------------------------
Init ==
  /\ prof \in Profiles
  /\ turn = 1 /\ conn = "none" /\ stage = "connect"
  /\ wire = <<>> /\ writer = new_with_data(Blank(prof.tx), 0) /\ fed = 0
  /\ stream = Reaches(1) /\ at = 0 /\ reader = NewReader /\ out = <<>> /\ result = "none"

Next ==
  \/ Connect \/ WriteHead \/ WriteBody \/ FlushBody \/ FinishRequest \/ ReadHead
  \/ FillBuf \/ Read \/ ReadToEnd \/ ReadChunkedToEnd \/ SendAgain \/ NextRequest

Spec == Init /\ [][Next]_vars

-----------------------------------------------------------------------------
(* Properties *)

\* What a server makes of a request: the head, then a body of the announced
\* length or chunks up to the empty one.
Decode(units) ==
  LET step(d, u) ==
        CASE d.at = "head" ->
               IF u # Unit("head", d.n + 1) THEN [d EXCEPT !.at = "bad"]
               ELSE [d EXCEPT !.n = @ + 1,
                              !.at = IF d.n + 1 < prof.head THEN @
                                     ELSE IF prof.req.kind = "stream" THEN "first" ELSE "data"]
          [] d.at \in {"first", "digits"} ->
               IF u.t = "hex" THEN [d EXCEPT !.at = "digits", !.n = IF d.at = "first" THEN u.v ELSE 16 * @ + u.v]
               ELSE [d EXCEPT !.at = IF u = CR /\ d.at = "digits" THEN "line" ELSE "bad"]
          [] d.at = "line" ->
               [d EXCEPT !.at = IF u # LF THEN "bad" ELSE IF d.n = 0 THEN "last" ELSE "chunk"]
          [] d.at = "chunk" ->
               [d EXCEPT !.n = @ - 1, !.at = IF d.n = 1 THEN "end" ELSE @, !.got = Append(@, u)]
          [] d.at = "end" -> [d EXCEPT !.at = IF u = CR THEN "next" ELSE "bad"]
          [] d.at = "next" -> [d EXCEPT !.at = IF u = LF THEN "first" ELSE "bad"]
          [] d.at = "last" -> [d EXCEPT !.at = IF u = CR THEN "final" ELSE "bad"]
          [] d.at = "final" -> [d EXCEPT !.at = IF u = LF THEN "done" ELSE "bad"]
          [] d.at = "data" -> [d EXCEPT !.got = Append(@, u)]
          [] OTHER -> [d EXCEPT !.at = "bad"]
  IN FoldLeft(step, [at |-> "head", n |-> 0, got |-> <<>>], units)

\* However the caller's body cuts its writes, however much of the head is
\* still buffered and whichever writer is used, what has gone out always
\* decodes without error to a prefix of the body, and once the request is
\* out to all of it and nothing else (write_request and the body writers).
\* No writer panics, with one exception that is a fault of the code: with
\* exactly three bytes of the buffer left behind the head there is no room
\* for a chunk header, but a byte is appended all the same and its header
\* then written to an empty slice.
RequestArrives ==
  LET d == Decode(wire)
      room == Len(writer.buf) - writer.header_pos
  IN /\ d.at # "bad"
     /\ result = "panic" => (prof.req.kind = "stream" /\ conn = "buffered" /\ room = 3)
     /\ IsPrefix(d.got, Units("body", prof.req.real))
     /\ stage \in {"response", "content"} =>
          /\ d.got = Units("body", IF prof.req.kind = "none" THEN 0 ELSE fed)
          /\ d.at = IF prof.req.kind = "stream" THEN "done" ELSE "data"

\* A reader that can tell a whole body from a truncated one: not on a plain
\* connection with FixedLengthBodyReader::read or with a ChunkedBodyReader
\* read piecewise, and never with a body that ends with the connection.
TellsTruncation ==
  CASE reader.hint = "empty" -> TRUE
    [] reader.hint = "fixed" -> conn = "tls" \/ prof.mode # "read"
    [] reader.hint = "chunked" -> conn = "tls" \/ prof.mode = "to_end"
    [] OTHER -> FALSE

\* However the network cuts the stream into reads and wherever the peer
\* closes: the caller gets a prefix of the body of the response to this very
\* request, and a body reported complete is whole and leaves the connection
\* exactly at the end of the response, where the next one starts
\* (Response::read, BodyReader, BufferingReader, the in-place read_to_end).
BodyDeliveredWhole ==
  /\ IsPrefix(out, BodyOf(Resp))
  /\ result = "end" /\ TellsTruncation =>
       /\ out = BodyOf(Resp)
       /\ at = EndOf(turn)
=============================================================================
