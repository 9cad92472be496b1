------------------------------ MODULE TlsRecords ------------------------------
(***************************************************************************)
(* The record layer of tools/embedded-tls: the write buffer, the reader's  *)
(* buffer and the window of decrypted bytes it hands to its caller         *)
(* (write_buffer.rs, record_reader.rs, record.rs, read_buffer.rs, common). *)
(*                                                                         *)
(* A byte is abstracted to a unit.  A unit the server sent is the number   *)
(* of its place in the stream, so that a unit read from the buffer says    *)
(* exactly which one it is; 0 is a place never written.                    *)
(***************************************************************************)
EXTENDS TlsKeySchedule

CONSTANTS
    HeaderLen,     \* RecordHeader::LEN in units
    ReadBufLen,    \* the record read buffer
    MaxBlockSize   \* the write buffer without TLS_RECORD_OVERHEAD

ASSUME RecordSizes ==
    /\ HeaderLen \in Nat \ {0}
    /\ ReadBufLen \in Nat \ {0}
    /\ MaxBlockSize \in Nat /\ MaxBlockSize > HeaderLen

-----------------------------------------------------------------------------
(* Client records and the write buffer.                                    *)

\* ClientRecordHeader
header(kind, encrypted) == [kind |-> kind, encrypted |-> encrypted]
AppHeader == header("ApplicationData", TRUE)
NoHeader == header("none", FALSE)

\* An unencrypted alert is announced as ChangeCipherSpec.
header_content_type(h) ==
    IF h.encrypted THEN "ApplicationData"
    ELSE IF h.kind = "Alert" THEN "ChangeCipherSpec" ELSE h.kind

WriteBuffer_new == [pos |-> 0, header |-> NoHeader, data |-> << >>]

is_full(wb)  == wb.pos = MaxBlockSize
is_empty(wb) == wb.pos = 0
space(wb)    == MaxBlockSize - wb.pos
contains(wb, h) == wb.header = h

start_record(wb, h) == [wb EXCEPT !.header = h, !.pos = @ + HeaderLen]

\* What append takes of data, and the buffer after it.
buffered(wb, data) == SubSeq(data, 1, IF Len(data) < space(wb) THEN Len(data) ELSE space(wb))
append(wb, data) == [wb EXCEPT !.pos  = @ + Len(buffered(wb, data)),
                               !.data = @ \o buffered(wb, data)]

\* The record that goes out: encrypted under the write key and its counter.
encrypt(ks, wb) ==
    [outer |-> header_content_type(wb.header), inner |-> wb.header.kind, data |-> wb.data,
     nonce |-> IF wb.header.encrypted THEN get_nonce(ks.write) ELSE NoSecret]

\* close_record: the record, and the buffer emptied whether or not the record
\* is then delivered.
close_record(wb, ks) == [record |-> encrypt(ks, wb), wb |-> WriteBuffer_new]

\* write_record: a message in a record of its own; a handshake message joins
\* the transcript.  It is refused while a record is open.
write_record(wb, ks, h, message) ==
    LET full == [start_record(wb, h) EXCEPT !.data = <<message>>]
    IN  [ok |-> wb.header = NoHeader,
         record |-> encrypt(ks, full),
         ks |-> IF h.kind = "Handshake"
                THEN [ks EXCEPT !.transcript = Append(@, message)] ELSE ks]

-----------------------------------------------------------------------------
(* The reader's buffer.                                                    *)

RecordReader_new ==
    [buf |-> [i \in 0 .. ReadBufLen - 1 |-> 0], decoded |-> 0, pending |-> 0]

fits(len) == len <= ReadBufLen

\* Makes room for a record of len units behind what is decoded, moving the
\* units already read to the front when it does not fit.
ensure_contiguous(rdr, len) ==
    IF rdr.decoded + len > ReadBufLen
    THEN [rdr EXCEPT !.buf = [i \in DOMAIN rdr.buf |->
                                 IF i < rdr.pending THEN rdr.buf[rdr.decoded + i] ELSE rdr.buf[i]],
                     !.decoded = 0]
    ELSE rdr

\* advance: the slice it reads into must lie inside the buffer.
slice_in_bounds(rdr, remain) == rdr.decoded + rdr.pending + remain <= ReadBufLen

\* advance: k units of the stream, from place p + 1 on, go behind the pending ones.
store(rdr, p, k) ==
    LET at == rdr.decoded + rdr.pending
    IN  [rdr EXCEPT !.buf = [i \in DOMAIN rdr.buf |->
                                IF i \in at .. at + k - 1 THEN p + 1 + (i - at) ELSE rdr.buf[i]],
                    !.pending = @ + k]

\* consume: the record's units, and the counters after it.
content(rdr, len) == [i \in 1 .. len |-> rdr.buf[rdr.decoded + i - 1]]
consume(rdr, len) == [rdr EXCEPT !.decoded = @ + len, !.pending = @ - len]

-----------------------------------------------------------------------------
(* The window of decrypted application data inside the buffer.             *)

DecryptedBufferInfo_default == [offset |-> 0, len |-> 0, consumed |-> 0]

dec_len(dec) == dec.len - dec.consumed
dec_is_empty(dec) == dec_len(dec) = 0

\* create_read_buffer: the units not yet consumed.
create_read_buffer(dec, rdr) ==
    [i \in 1 .. dec_len(dec) |-> rdr.buf[dec.offset + dec.consumed + i - 1]]

\* ReadBuffer::pop, pop_into and pop_all, and the drop that follows them.
pop(dec, count) == [dec EXCEPT !.consumed = @ + IF count < dec_len(dec) THEN count ELSE dec_len(dec)]

\* ReadBuffer::drop of a buffer nobody looked at takes everything.
drop_unused(dec) == [dec EXCEPT !.consumed = dec.len]
=============================================================================
