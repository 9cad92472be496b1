------------------------------ MODULE HttpCodec ------------------------------
(***************************************************************************)
(* What the reqwless fork puts on a connection and takes from it, as pure  *)
(* operators: chunk headers, the three body writers of                     *)
(* tools/reqwless/src/body_writer, and the status and header facts that    *)
(* decide how a response body is framed.                                   *)
(*                                                                         *)
(* A byte is a unit [t, v]: "head" the v-th byte of a message head, "body" *)
(* the v-th byte of a body, "hex" a digit of a chunk size, "cr", "lf", and *)
(* "ext" any byte of a chunk extension.                                    *)
(***************************************************************************)
EXTENDS Integers, Sequences, SequencesExt

Unit(type, value) == [t |-> type, v |-> value]
CR == Unit("cr", 0)
LF == Unit("lf", 0)
NEWLINE == <<CR, LF>>
EMPTY_CHUNK == <<Unit("hex", 0)>> \o NEWLINE \o NEWLINE

\* A buffer that holds nothing yet.
Blank(length) == [i \in 1 .. length |-> Unit("blank", 0)]
Units(type, count) == [i \in 1 .. count |-> Unit(type, i)]

Least(a, b) == IF a < b THEN a ELSE b

\* buf[at .. at + units.len()].copy_from_slice(units)
Patch(buf, at, units) ==
  [i \in DOMAIN buf |-> IF i - at \in DOMAIN units THEN units[i - at] ELSE buf[i]]

-----------------------------------------------------------------------------
(* body_writer/buffering_chunked.rs and chunked.rs: the chunk header *)

get_num_hex_chars(number) ==
  CHOOSE k \in 1 .. 8 : number < 16 ^ k /\ (k = 1 \/ number >= 16 ^ (k - 1))

get_max_chunk_header_size(buffer_size) ==
  IF buffer_size >= 2 * Len(NEWLINE)
  THEN get_num_hex_chars(buffer_size - 2 * Len(NEWLINE)) + Len(NEWLINE)
  ELSE 0

write_chunked_header(chunk_len) ==
  LET digits == get_num_hex_chars(chunk_len)
  IN [i \in 1 .. digits |-> Unit("hex", (chunk_len \div 16 ^ (digits - i)) % 16)] \o NEWLINE

-----------------------------------------------------------------------------
(* body_writer/chunked.rs: every write is a chunk *)

ChunkOf(units) ==
  IF units = <<>> THEN <<>> ELSE write_chunked_header(Len(units)) \o units \o NEWLINE

-----------------------------------------------------------------------------
(* body_writer/buffering_chunked.rs: chunks are put together in the buffer *)
(* that still holds the end of the request head.  `out` is what has been   *)
(* given to the connection; a write past a slice or a failed assertion     *)
(* panics.                                                                 *)

new_with_data(buf, written) ==
  LET allocated == get_max_chunk_header_size(Len(buf) - written)
  IN [buf |-> buf, header_pos |-> written, allocated_header |-> allocated,
      pos |-> written + allocated, out |-> <<>>,
      panicked |-> Len(buf) <= allocated + Len(NEWLINE)]

append_current_chunk(w, units) ==
  LET space == Len(w.buf) - Len(NEWLINE) - w.pos
      buffered == IF space > 0 THEN Least(Len(units), space) ELSE 0
  IN [w EXCEPT !.buf = Patch(@, w.pos, SubSeq(units, 1, buffered)), !.pos = @ + buffered]

finish_current_chunk(w) ==
  LET payload == SubSeq(w.buf, w.header_pos + w.allocated_header + 1, w.pos)
      chunk == ChunkOf(payload)
      next == w.header_pos + Len(chunk)
      allocated == get_max_chunk_header_size(Len(w.buf) - next)
  IN IF Len(write_chunked_header(Len(payload))) > w.allocated_header
     THEN [w EXCEPT !.panicked = TRUE]
     ELSE [w EXCEPT !.buf = Patch(@, w.header_pos, chunk), !.header_pos = next,
                    !.allocated_header = allocated, !.pos = next + allocated]

emit_buffered(w) ==
  LET allocated == get_max_chunk_header_size(Len(w.buf))
  IN [w EXCEPT !.out = @ \o SubSeq(w.buf, 1, w.header_pos), !.header_pos = 0,
               !.allocated_header = allocated, !.pos = allocated]

current_chunk_is_full(w) == w.pos + Len(NEWLINE) = Len(w.buf)
ChunkStarted(w) == w.pos > w.header_pos + w.allocated_header

\* BufferingChunkedBodyWriter::write: the writer after it.  How much of
\* `units` it took is what it appended.
write_buffered(w, units) ==
  LET first == append_current_chunk(w, units)
      second == IF first.pos = w.pos THEN append_current_chunk(emit_buffered(w), units)
                                     ELSE first
  IN IF units = <<>> THEN w
     ELSE IF current_chunk_is_full(second)
     THEN LET done == finish_current_chunk(second)
          IN IF done.panicked THEN done ELSE emit_buffered(done)
     ELSE second

taken_buffered(w, units) ==
  LET first == append_current_chunk(w, units)
      again == emit_buffered(w)
  IN IF first.pos > w.pos THEN first.pos - w.pos
     ELSE append_current_chunk(again, units).pos - again.pos

flush_buffered(w) ==
  IF ChunkStarted(w)
  THEN LET done == finish_current_chunk(w) IN IF done.panicked THEN done ELSE emit_buffered(done)
  ELSE IF w.header_pos > 0 THEN emit_buffered(w) ELSE w

\* Slip: the empty chunk is written without looking at the room left for it.
terminate_buffered_no_room(w) ==
  LET done == IF ChunkStarted(w) THEN finish_current_chunk(w) ELSE w
  IN IF done.panicked THEN done
     ELSE emit_buffered([done EXCEPT !.buf = Patch(@, done.header_pos, EMPTY_CHUNK),
                                     !.header_pos = Least(@ + Len(EMPTY_CHUNK), Len(w.buf))])

terminate_buffered(w) ==
  LET done == IF ChunkStarted(w) THEN finish_current_chunk(w) ELSE w
      room == IF done.header_pos + Len(EMPTY_CHUNK) > Len(done.buf)
              THEN emit_buffered(done) ELSE done
  IN IF done.panicked THEN done
     ELSE emit_buffered([room EXCEPT !.buf = Patch(@, room.header_pos, EMPTY_CHUNK),
                                     !.header_pos = @ + Len(EMPTY_CHUNK)])

-----------------------------------------------------------------------------
(* response/mod.rs: status and framing *)

NoContent == 204
is_informational(status) == status \in 100 .. 199

\* A response as the server means it: `length` is its Content-Length or -1,
\* `encoding` its Transfer-Encoding, `chunks` the chunk sizes of its body.
ContentLength(resp) ==
  IF is_informational(resp.status) \/ resp.status = NoContent THEN 0 ELSE resp.length

ReaderHint(method, resp) ==
  CASE method = "HEAD" -> "empty"
    [] method # "HEAD" /\ ContentLength(resp) >= 0 -> "fixed"
    [] method # "HEAD" /\ ContentLength(resp) < 0 /\ resp.encoding = "chunked" -> "chunked"
    [] OTHER -> "to_end"

\* The errors Response::read finds in a complete head, `extra` bytes of the
\* body having been read with it.
HeadIsBad(resp, extra) ==
  \/ resp.encoding = "unknown"
  \/ (is_informational(resp.status) \/ resp.status = NoContent) /\ resp.length > 0
  \/ ContentLength(resp) >= 0 /\ extra > ContentLength(resp)
=============================================================================
