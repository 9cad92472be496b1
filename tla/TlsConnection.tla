---------------------------- MODULE TlsConnection ----------------------------
(***************************************************************************)
(* A TLS client connection of tools/embedded-tls: the handshake of         *)
(* connection.rs, then reads and writes through asynch.rs or blocking.rs,  *)
(* whole or split into a reader and a writer, against a server that keeps  *)
(* to the protocol.                                                        *)
(*                                                                         *)
(* The transport delivers the server's records as one stream of units, in  *)
(* pieces of any size, and may be lost.  The firmware's MQTT task waits    *)
(* for a packet inside a select, so a read that has to wait may also be    *)
(* dropped there and started again (tasks/mqtt/mod.rs).                    *)
(***************************************************************************)
EXTENDS TlsRecords, SequencesExt

CONSTANT Profiles   \* the configurations of both ends, with the bounds of a run

ProfileType ==
    [api : {"async", "blocking"}, split : BOOLEAN,
     psk : BOOLEAN,                               \* config.psk, used by the server
     request : BOOLEAN,                           \* the server asks for a client certificate
     client : {"none", "signer", "nosigner"},     \* client_cert() and signer()
     verify : {"ok", "bad", "none"},              \* the verifier and its verdict
     hello : {"ok", "retry", "alert"},            \* what answers the ClientHello
     extensions : {"ok", "illegal"},              \* of EncryptedExtensions
     coalesced : BOOLEAN, ccs : BOOLEAN,          \* how the server's flight is laid out
     records : Nat,                               \* bound on the records the server sends later
     writes : Nat]                                \* bound on the caller's units and records

ASSUME ProfilesAssumption == Profiles \subseteq ProfileType

VARIABLES
    profile,    \* the configuration of this connection
    srv,        \* the records the server has sent
    lost,       \* the transport is gone
    ks,         \* key_schedule
    hs,         \* open(): the state and Handshake
    rdr,        \* record_reader
    dec,        \* decrypted
    taken,      \* units the client has taken from the stream
    rd,         \* the read in progress: where it is and what it has
    wb,         \* record_write_buf
    out,        \* the records the client has sent
    opened,     \* the AtomicBool both halves share
    phase,      \* where the caller is with the connection; a failed one is dropped
    handed,     \* units handed to the caller
    written     \* units the caller has written

server  == <<srv, lost>>
reading == <<rdr, dec, taken, rd, handed>>
writing == <<wb, out, written>>
session == <<ks, hs, opened, phase>>
vars == <<profile, server, reading, writing, session>>

Idle == [at |-> "idle", have |-> 0, start |-> 0, want |-> 0, cut |-> FALSE]

Handshake_new == [state |-> "ClientHello", traffic_hash |-> NoSecret, secret |-> FALSE,
                  certificate_request |-> FALSE]

Init ==
    /\ profile \in Profiles
    /\ srv = << >> /\ lost = FALSE
    /\ ks = KeySchedule_new
    /\ hs = Handshake_new
    /\ rdr = RecordReader_new
    /\ dec = DecryptedBufferInfo_default
    /\ taken = 0 /\ rd = Idle
    /\ wb = WriteBuffer_new
    /\ out = << >>
    /\ opened = FALSE /\ phase = "new"
    /\ handed = << >> /\ written = 0

-----------------------------------------------------------------------------
(* The server.  It follows the protocol, so its keys have a closed form.   *)

Psk == IF profile.psk THEN <<"psk">> ELSE zero
Dhe == <<"dhe">>

Flight ==
    IF profile.psk
    THEN IF profile.request THEN <<"EncryptedExtensions", "CertificateRequest", "Finished">>
         ELSE <<"EncryptedExtensions", "Finished">>
    ELSE IF profile.request
         THEN <<"EncryptedExtensions", "CertificateRequest", "Certificate", "CertificateVerify", "Finished">>
         ELSE <<"EncryptedExtensions", "Certificate", "CertificateVerify", "Finished">>

HelloTranscript == <<"ClientHello", "ServerHello">>

\* RFC 8446 section 7.1.
ServerHandshakePrk == Extract(Expand(Extract(zero, Psk), "derived", << >>), Dhe)
ServerMasterPrk == Extract(Expand(ServerHandshakePrk, "derived", << >>), zero)
ServerKey(label) ==
    IF label \in {"c hs traffic", "s hs traffic"}
    THEN Expand(ServerHandshakePrk, label, HelloTranscript)
    ELSE Expand(ServerMasterPrk, label, HelloTranscript \o Flight)

ClientMessages ==
    IF ~profile.request THEN << >>
    ELSE IF profile.client = "none" THEN <<"ClientCertificate">>
    ELSE <<"ClientCertificate", "ClientCertificateVerify">>

FinishedIndex == Len(ClientMessages) + 2

ServerVerify == Mac(ServerKey("s hs traffic"), HelloTranscript \o Front(Flight))
ClientVerify(messages) == Mac(ServerKey("c hs traffic"), messages)

StreamEnd(s) == IF s = << >> THEN 0 ELSE Last(s).start + HeaderLen + Last(s).n
Sends(s, r) == Append(s, [r EXCEPT !.start = StreamEnd(s)])

\* A record of n units; its place in the stream is set when it is sent.
Plain(outer, msgs) ==
    [outer |-> outer, inner |-> outer, nonce |-> NoSecret, msgs |-> msgs, n |-> 1, start |-> 0]
Sealed(label, counter, inner, msgs, n) ==
    [outer |-> "ApplicationData", inner |-> inner, nonce |-> <<ServerKey(label), counter>>,
     msgs |-> msgs, n |-> n, start |-> 0]

PlainRecords  == IF profile.ccs THEN 2 ELSE 1
SealedRecords == IF profile.coalesced THEN 1 ELSE Len(Flight)

\* The answer to the ClientHello, as one record of messages or one record each.
FlightRecords ==
    CASE profile.hello = "alert" -> <<Plain("Alert", << >>)>>
      [] profile.hello = "retry" -> <<Plain("Handshake", <<"HelloRetryRequest">>)>>
      [] OTHER ->
           [i \in 1 .. PlainRecords + SealedRecords |->
              IF i = 1 THEN Plain("Handshake", <<"ServerHello">>)
              ELSE IF i <= PlainRecords THEN Plain("ChangeCipherSpec", << >>)
              ELSE Sealed("s hs traffic", i - PlainRecords - 1, "Handshake",
                          IF profile.coalesced THEN Flight ELSE <<Flight[i - PlainRecords]>>, 2)]

ServerFlight ==
    /\ ~lost /\ out # << >> /\ Len(srv) < Len(FlightRecords)
    /\ srv' = Sends(srv, FlightRecords[Len(srv) + 1])
    /\ UNCHANGED <<profile, lost, reading, writing, session>>

\* The records after the flight, all under the application key.
LaterRecords == Len(srv) - Len(FlightRecords)

\* Application data of any size (even none, or more than the client's buffer
\* holds), a session ticket, a key update, an alert or close_notify; data may
\* leave before the client's Finished arrived.
ServerSends ==
    /\ ~lost /\ profile.hello = "ok"
    /\ LaterRecords \in 0 .. profile.records - 1
    /\ \A i \in DOMAIN srv : srv[i].inner # "Alert"
    /\ \E r \in {<<"ApplicationData", << >>, n>> : n \in 1 .. ReadBufLen + 1}
                \cup {<<"Handshake", <<m>>, 2>> : m \in {"NewSessionTicket", "KeyUpdate"}}
                \cup {<<"Alert", <<m>>, 1>> : m \in {"CloseNotify", "InternalError"}} :
          srv' = Sends(srv, Sealed("s ap traffic", LaterRecords, r[1], r[2], r[3]))
    /\ UNCHANGED <<profile, lost, reading, writing, session>>

TransportLost ==
    /\ ~lost /\ lost' = TRUE
    /\ UNCHANGED <<profile, srv, reading, writing, session>>

-----------------------------------------------------------------------------
(* The handshake: what the client sends.                                   *)

\* open(): a new Handshake, and the state machine from ClientHello on.
OpenConnection ==
    /\ phase = "new" /\ phase' = "opening"
    /\ UNCHANGED <<profile, server, reading, writing, ks, hs, opened>>
open == profile.api = "async" /\ OpenConnection
open_blocking == profile.api = "blocking" /\ OpenConnection

InState(s) == phase = "opening" /\ hs.state = s

Sent(keys) == [keys EXCEPT !.write = increment_counter(@)]

\* respond() and its twin: write_all, then the counter, then flush; an error
\* of the transport ends the use of the connection.
Respond(record, keysAfter, hsAfter, phaseAfter) ==
    /\ IF lost THEN phase' = "failed" /\ UNCHANGED <<out, ks, hs>>
       ELSE out' = Append(out, record) /\ ks' = keysAfter /\ hs' = hsAfter /\ phase' = phaseAfter
    /\ opened' = (phase' = "up")
    /\ UNCHANGED <<profile, server, reading, wb, written>>
respond(record, keysAfter, hsAfter, phaseAfter) ==
    profile.api = "async" /\ Respond(record, keysAfter, hsAfter, phaseAfter)
respond_blocking(record, keysAfter, hsAfter, phaseAfter) ==
    profile.api = "blocking" /\ Respond(record, keysAfter, hsAfter, phaseAfter)

\* An error before anything is sent: open() returns it.
HandshakeFails ==
    /\ phase' = "failed" /\ opened' = FALSE
    /\ UNCHANGED <<profile, server, reading, writing, ks, hs>>

Answer(w, keysAfter, hsAfter, phaseAfter) ==
    IF w.ok
    THEN \/ respond(w.record, keysAfter, hsAfter, phaseAfter)
         \/ respond_blocking(w.record, keysAfter, hsAfter, phaseAfter)
    ELSE HandshakeFails

\* ClientHello::finalize: with a PSK the hello ends in a binder over what
\* comes before it.
Truncated == <<"ClientHello without binders">>
finalize(w) ==
    IF profile.psk THEN [w EXCEPT !.record.data = Append(@, create_psk_binder(w.ks, Truncated))]
    ELSE w

client_hello ==
    /\ InState("ClientHello")
    /\ LET w == finalize(write_record(wb, initialize_early_secret(ks, Psk),
                                      header("Handshake", FALSE), "ClientHello"))
       IN  Answer(w, Sent(w.ks), [hs EXCEPT !.state = "ServerHello", !.secret = TRUE], "opening")

\* The application keys depend on the transcript up to the server's Finished:
\* it is set aside before the client's own messages join it.
client_cert_hash == ks.transcript

client_cert ==
    /\ InState("ClientCert")
    /\ LET w == write_record(wb, ks, header("Handshake", TRUE), "ClientCertificate")
       IN  IF hs.certificate_request
           THEN Answer(w, Sent(w.ks),
                       [hs EXCEPT !.traffic_hash = client_cert_hash,
                                  !.state = IF profile.client = "none" THEN "ClientFinished"
                                            ELSE "ClientCertVerify"], "opening")
           ELSE HandshakeFails

\* A provider without a signing key sends close_notify and gives up.
client_cert_verify ==
    /\ InState("ClientCertVerify")
    /\ LET signed == profile.client = "signer"
           w == IF signed
                THEN write_record(wb, ks, header("Handshake", TRUE), "ClientCertificateVerify")
                ELSE write_record(wb, ks, header("Alert", TRUE), "CloseNotify")
       IN  Answer(w, Sent(w.ks), [hs EXCEPT !.state = "ClientFinished"],
                  IF signed THEN "opening" ELSE "failed")

\* Back to the hash set aside, and on to the application keys.
client_finished_finalize(keys) ==
    initialize_master_secret([keys EXCEPT !.transcript = hs.traffic_hash])

client_finished ==
    /\ InState("ClientFinished")
    /\ LET w == write_record(wb, ks, header("Handshake", TRUE), create_client_finished(ks))
           taken_hash == hs.traffic_hash # NoSecret
       IN  Answer(w, IF taken_hash THEN client_finished_finalize(Sent(w.ks)) ELSE Sent(w.ks),
                  [hs EXCEPT !.state = "ApplicationData", !.traffic_hash = NoSecret],
                  IF taken_hash THEN "up" ELSE "failed")

-----------------------------------------------------------------------------
(* The handshake: what the client does with a record.  The result says     *)
(* whether it went well and carries the key schedule and the Handshake;    *)
(* abort asks for an alert.                                                *)

Result(ok, keys, h) == [ok |-> ok, abort |-> FALSE, ks |-> keys, hs |-> h]
Abort(keys, h) == [ok |-> FALSE, abort |-> TRUE, ks |-> keys, hs |-> h]

\* ServerHandshake::read: a message that parses joins the transcript.
Hashed(keys, m) == [keys EXCEPT !.transcript = Append(@, m)]

\* ServerHandshake::parse knows no key update.
handshake_parses(m) == m # "KeyUpdate"

\* The hello carries a share the shared secret can be computed from; a request
\* to retry with another group does not.
calculate_shared_secret(m) == IF m = "ServerHello" THEN Dhe ELSE NoSecret

\* Extensions::parse: one that does not belong in its message.
extensions_parse(m) == m = "EncryptedExtensions" => profile.extensions = "ok"

process_server_hello(r) ==
    IF r.outer = "Handshake" /\ calculate_shared_secret(r.msgs[1]) # NoSecret /\ hs.secret
    THEN Result(TRUE, initialize_handshake_secret(Hashed(ks, r.msgs[1]),
                                                   calculate_shared_secret(r.msgs[1])),
                [hs EXCEPT !.secret = FALSE, !.state = "ServerVerify"])
    ELSE Result(FALSE, ks, hs)   \* no usable key share, an alert, anything else

\* The server's Finished: the application keys depend on the transcript up to
\* it, which is set aside at once unless a client certificate comes first.
server_finished(a) ==
    LET keys == Hashed(a.ks, "Finished")
    IN  IF ~verify_server_finished(a.ks, ServerVerify, a.ks.transcript)
        THEN Result(FALSE, a.ks, a.hs)
        ELSE IF a.hs.certificate_request
             THEN Result(TRUE, keys, [a.hs EXCEPT !.state = "ClientCert"])
             ELSE Result(TRUE, keys, [a.hs EXCEPT !.state = "ClientFinished",
                                                  !.traffic_hash = keys.transcript])

\* The other messages of the server's flight; the verifier has the last word
\* on its certificate and signature.
server_message(a, m) ==
    LET keys == Hashed(a.ks, m)
    IN  IF m = "EncryptedExtensions" THEN Result(TRUE, keys, a.hs)
        ELSE IF m = "CertificateRequest"
             THEN Result(TRUE, keys, [a.hs EXCEPT !.certificate_request = TRUE])
        ELSE IF m \in {"Certificate", "CertificateVerify"}
             THEN Result(profile.verify # "bad", keys, a.hs)
        ELSE Result(FALSE, a.ks, a.hs)

\* One message of the server's flight: an extension that does not belong in
\* its message aborts the handshake before the message is hashed.
ServerMessage(a, m) ==
    IF ~a.ok THEN a
    ELSE IF ~extensions_parse(m) THEN Abort(a.ks, a.hs)
    ELSE IF m = "Finished" THEN server_finished(a)
    ELSE server_message(a, m)

\* The messages of one record in turn; a flight has at most five.
ServerMessages(a, msgs) ==
    LET Then(b, i) == IF i <= Len(msgs) THEN ServerMessage(b, msgs[i]) ELSE b
    IN  Then(Then(Then(Then(Then(a, 1), 2), 3), 4), 5)

\* decrypt_record: the record opens under the read key and counter only.
Decrypts(r) == r.outer = "ApplicationData" /\ r.nonce = get_nonce(ks.read)

Received(keys) == [keys EXCEPT !.read = increment_counter(@)]

\* Slip: the read counter also moves for a record that is not encrypted.
server_verify_counts_ccs(r) ==
    CASE r.outer = "ChangeCipherSpec" -> Result(TRUE, Received(ks), hs)
      [] Decrypts(r) /\ r.inner = "Handshake" ->
           LET a == ServerMessages(Result(TRUE, ks, hs), r.msgs)
           IN  IF a.ok THEN Result(TRUE, Received(a.ks), a.hs) ELSE a
      [] OTHER -> Result(FALSE, ks, hs)

process_server_verify(r) ==
    CASE r.outer = "ChangeCipherSpec" -> Result(TRUE, ks, hs)
      [] Decrypts(r) /\ r.inner = "Handshake" ->
           LET a == ServerMessages(Result(TRUE, ks, hs), r.msgs)
           IN  IF a.ok THEN Result(TRUE, Received(a.ks), a.hs) ELSE a
      [] OTHER -> Result(FALSE, ks, hs)

\* handle_processing_error and its twin: only AbortHandshake is answered, with
\* an unencrypted alert.
HandleProcessingError(res) ==
    IF res.ok THEN ks' = res.ks /\ hs' = res.hs /\ UNCHANGED <<out, phase>>
    ELSE LET w == write_record(wb, ks, header("Alert", FALSE), "IllegalParameter")
         IN  /\ phase' = "failed" /\ ks' = res.ks /\ hs' = res.hs
             /\ out' = IF res.abort /\ ~lost THEN Append(out, w.record) ELSE out
handle_processing_error(res) == profile.api = "async" /\ HandleProcessingError(res)
handle_processing_error_blocking(res) == profile.api = "blocking" /\ HandleProcessingError(res)

-----------------------------------------------------------------------------
(* Reading a record, in the handshake and after it.                        *)

Available == StreamEnd(srv) - taken

\* open() asks for the next record.
HandshakeRead ==
    /\ phase = "opening" /\ hs.state \in {"ServerHello", "ServerVerify"} /\ rd.at = "idle"
    /\ rd' = [rd EXCEPT !.at = "header", !.have = 0, !.start = taken]
    /\ UNCHANGED <<profile, server, rdr, dec, taken, handed, writing, session>>

\* The length a header announces: its record's, or anything when the units
\* read as a header are not one.
HeaderOf(p) == {r \in ToSet(srv) : r.start = p}
Lengths(p) == IF HeaderOf(p) # {} THEN {r.n : r \in HeaderOf(p)} ELSE 0 .. ReadBufLen + 1

\* next_record_header: the header is collected in a local buffer; once whole,
\* advance makes room for the record, which is refused if it is larger than
\* the buffer.  A header that is not one may also be refused for its type.
HeaderPiece(k) ==
    /\ rd.at = "header" /\ k \in 1 .. HeaderLen - rd.have /\ k <= Available
    /\ taken' = taken + k
    /\ IF rd.have + k < HeaderLen
       THEN rd' = [rd EXCEPT !.have = @ + k] /\ UNCHANGED <<rdr, phase>>
       ELSE \/ \E len \in Lengths(rd.start) :
                  IF fits(len)
                  THEN /\ rd' = [rd EXCEPT !.at = "body", !.have = 0, !.want = len]
                       /\ rdr' = ensure_contiguous(rdr, len)
                       /\ UNCHANGED phase
                  ELSE phase' = "failed" /\ UNCHANGED <<rd, rdr>>
            \/ HeaderOf(rd.start) = {} /\ phase' = "failed" /\ UNCHANGED <<rd, rdr>>
    /\ UNCHANGED <<profile, server, dec, handed, writing, ks, hs, opened>>

\* advance: pieces of the record, as long as it is not whole; a slice outside
\* the buffer is a panic.
BodyPiece(k) ==
    /\ rd.at = "body" /\ rdr.pending < rd.want
    /\ k \in 1 .. rd.want - rd.have /\ k <= Available
    /\ IF slice_in_bounds(rdr, rd.want - rd.have)
       THEN /\ rdr' = store(rdr, taken, k) /\ taken' = taken + k
            /\ rd' = [rd EXCEPT !.have = @ + k] /\ UNCHANGED phase
       ELSE phase' = "failed" /\ UNCHANGED <<rdr, taken, rd>>
    /\ UNCHANGED <<profile, server, dec, handed, writing, ks, hs, opened>>

next_record_header == profile.api = "async" /\ \E k \in 1 .. HeaderLen : HeaderPiece(k)
next_record_header_blocking == profile.api = "blocking" /\ \E k \in 1 .. HeaderLen : HeaderPiece(k)
advance == profile.api = "async" /\ \E k \in 1 .. ReadBufLen : BodyPiece(k)
advance_blocking == profile.api = "blocking" /\ \E k \in 1 .. ReadBufLen : BodyPiece(k)

\* The transport fails under a read that waits.
ReadFails ==
    /\ lost /\ rd.at # "idle" /\ phase' = "failed"
    /\ UNCHANGED <<profile, server, reading, writing, ks, hs, opened>>

RecordWhole == rd.at = "body" /\ rdr.pending >= rd.want

\* The record the units are, if they are one: header and content of the same.
GenuineRecord ==
    {r \in HeaderOf(rd.start) : content(rdr, rd.want) = [i \in 1 .. r.n |-> r.start + HeaderLen + i]}

Finish(at) == [rd EXCEPT !.at = at, !.have = 0, !.start = taken, !.want = 0]

\* The rest of State::process once the record is there.
HandshakeRecord ==
    /\ RecordWhole /\ phase = "opening"
    /\ \E r \in GenuineRecord :
          LET res == IF hs.state = "ServerHello" THEN process_server_hello(r)
                     ELSE process_server_verify(r)
          IN  handle_processing_error(res) \/ handle_processing_error_blocking(res)
    /\ rdr' = consume(rdr, rd.want) /\ rd' = Finish("idle")
    /\ UNCHANGED <<profile, server, dec, taken, handed, wb, written, opened>>

ClientSends == client_hello \/ client_cert \/ client_cert_verify \/ client_finished
process == profile.api = "async" /\ ClientSends
process_blocking == profile.api = "blocking" /\ ClientSends

-----------------------------------------------------------------------------
(* Reading application data.                                               *)

Reads(api, split) == profile.api = api /\ profile.split = split /\ phase = "up" /\ opened

\* read_buffered: nothing is decrypted, so a record is waited for.
ReadBuffered ==
    /\ rd.at = "idle" /\ dec_is_empty(dec)
    /\ rd' = Finish("header")
    /\ UNCHANGED <<profile, server, rdr, dec, taken, handed, writing, session>>

read_buffered == Reads("async", FALSE) /\ ReadBuffered
read_buffered_blocking == Reads("blocking", FALSE) /\ ReadBuffered
TlsReader_read_buffered == Reads("async", TRUE) /\ ReadBuffered
TlsReader_read_buffered_blocking == Reads("blocking", TRUE) /\ ReadBuffered

\* The caller is given what is left of the window and takes some of it.
Take(after) ==
    /\ rd.at = "idle" /\ ~dec_is_empty(dec)
    /\ dec' = after
    /\ handed' = handed \o SubSeq(create_read_buffer(dec, rdr), 1, after.consumed - dec.consumed)
    /\ UNCHANGED <<profile, server, rdr, taken, rd, writing, session>>

\* read copies into the caller's slice; a buffer from read_buffered that is
\* dropped unused is consumed whole.
ReadInto == Take(pop(dec, 1)) \/ Take(drop_unused(dec))
read == Reads("async", FALSE) /\ ReadInto
read_blocking == Reads("blocking", FALSE) /\ ReadInto
TlsReader_read == Reads("async", TRUE) /\ ReadInto
TlsReader_read_blocking == Reads("blocking", TRUE) /\ ReadInto

\* fill_buf shows everything and takes nothing; consume takes what was used.
FillAndConsume == Take(pop(dec, 2))
fill_buf == Reads("async", FALSE) /\ FillAndConsume
fill_buf_blocking == Reads("blocking", FALSE) /\ FillAndConsume
TlsReader_fill_buf == Reads("async", TRUE) /\ FillAndConsume
TlsReader_fill_buf_blocking == Reads("blocking", TRUE) /\ FillAndConsume

\* Slip: the window keeps what was consumed of the one before.
handle_keeps_consumed(offset, len) == [offset |-> offset, len |-> len, consumed |-> dec.consumed]

\* DecryptedReadHandler::handle of application data: the window is the
\* record's plaintext inside the buffer.
handle_application_data(offset, len) == [offset |-> offset, len |-> len, consumed |-> 0]

Ends(ph) == phase' = ph /\ UNCHANGED <<ks, dec>>

\* A record that does not decrypt, a message that does not parse, and an alert
\* other than close_notify are errors.
Refused(r) ==
    \/ ~Decrypts(r)
    \/ r.inner = "Handshake" /\ ~handshake_parses(r.msgs[1])
    \/ r.inner \notin {"ApplicationData", "Handshake"} /\ r.msgs # <<"CloseNotify">>

\* DecryptedReadHandler::handle, under decrypt_record: only a record that is
\* handled moves the read counter.
HandleRecord(r) ==
    \/ Refused(r) /\ Ends("failed") /\ UNCHANGED opened
    \/ /\ ~Refused(r) /\ r.inner = "ApplicationData"
       /\ dec' = handle_application_data(rdr.decoded, r.n - 1)
       /\ ks' = Received(ks) /\ UNCHANGED <<phase, opened>>
    \/ /\ ~Refused(r) /\ r.inner = "Handshake"
       /\ ks' = Received(Hashed(ks, "NewSessionTicket")) /\ UNCHANGED <<dec, phase, opened>>
    \/ /\ ~Refused(r) /\ r.inner \notin {"ApplicationData", "Handshake"}
       /\ Ends("peer_closed") /\ opened' = FALSE

\* What looks like a record and is none: an error, or something that passes
\* for an alert or a session ticket in the clear, which no counter counts.
HandleGarbage ==
    \/ Ends("failed") /\ UNCHANGED opened
    \/ Ends("peer_closed") /\ opened' = FALSE
    \/ ks' = Hashed(ks, "NewSessionTicket") /\ UNCHANGED <<dec, phase, opened>>

\* read_application_data once the record is there; read_buffered goes round
\* again while nothing is decrypted.
ApplicationRecord ==
    /\ RecordWhole /\ phase = "up"
    /\ IF GenuineRecord # {} THEN \E r \in GenuineRecord : HandleRecord(r) ELSE HandleGarbage
    /\ rdr' = consume(rdr, rd.want)
    /\ rd' = Finish(IF dec_is_empty(dec') /\ phase' = "up" THEN "header" ELSE "idle")
    /\ UNCHANGED <<profile, server, taken, handed, writing, hs>>
read_application_data == profile.api = "async" /\ ~profile.split /\ ApplicationRecord
read_application_data_blocking == profile.api = "blocking" /\ ~profile.split /\ ApplicationRecord
TlsReader_read_application_data == profile.api = "async" /\ profile.split /\ ApplicationRecord
TlsReader_read_application_data_blocking == profile.api = "blocking" /\ profile.split /\ ApplicationRecord

\* The select around a read takes another branch and drops the read: what the
\* local header buffer held is gone, what is pending stays.
CancelRead ==
    /\ profile.api = "async" /\ phase = "up" /\ rd.at # "idle" /\ ~RecordWhole
    /\ rd' = [Finish("idle") EXCEPT !.cut = rd.cut \/ rd.at = "body" \/ rd.have > 0]
    /\ UNCHANGED <<profile, server, rdr, dec, taken, handed, writing, session>>

-----------------------------------------------------------------------------
(* Writing application data.                                               *)

\* The two halves of a split connection work side by side; a whole one is
\* borrowed by the call that runs.  Only write looks at whether the connection
\* is open.
MayWrite(api, split) ==
    /\ profile.api = api /\ profile.split = split /\ phase \in {"up", "peer_closed"}
    /\ split \/ rd.at = "idle"

\* flush: the open record goes out and is counted.
FlushRecord(w) ==
    IF is_empty(w) THEN wb' = w /\ UNCHANGED <<out, ks, phase>>
    ELSE LET c == close_record(w, ks)
         IN  /\ wb' = c.wb
             /\ IF lost THEN phase' = "failed" /\ UNCHANGED <<out, ks>>
                ELSE out' = Append(out, c.record) /\ ks' = Sent(ks) /\ UNCHANGED phase

\* write: the units that fit; a full record is flushed at once.
WriteBytes ==
    /\ opened
    /\ \E n \in 0 .. 2 :
          LET w == IF contains(wb, AppHeader) THEN wb ELSE start_record(wb, AppHeader)
              data == [i \in 1 .. n |-> written + i]
              a == append(w, data)
          IN  /\ written + n <= profile.writes /\ Len(out) - FinishedIndex < profile.writes
              /\ written' = written + Len(buffered(w, data))
              /\ IF is_full(a) THEN FlushRecord(a) ELSE wb' = a /\ UNCHANGED <<out, ks, phase>>
    /\ UNCHANGED <<profile, server, reading, hs, opened>>

Flush ==
    /\ ~is_empty(wb) /\ FlushRecord(wb)
    /\ UNCHANGED <<profile, server, reading, written, hs, opened>>

write == MayWrite("async", FALSE) /\ WriteBytes
write_blocking == MayWrite("blocking", FALSE) /\ WriteBytes
TlsWriter_write == MayWrite("async", TRUE) /\ WriteBytes
TlsWriter_write_blocking == MayWrite("blocking", TRUE) /\ WriteBytes
flush == MayWrite("async", FALSE) /\ Flush
flush_blocking == MayWrite("blocking", FALSE) /\ Flush
TlsWriter_flush == MayWrite("async", TRUE) /\ Flush
TlsWriter_flush_blocking == MayWrite("blocking", TRUE) /\ Flush

\* close: what is buffered, then close_notify, encrypted while the connection
\* is open and in the clear once the peer has closed it.
CloseConnection ==
    /\ phase \in {"up", "peer_closed"} /\ rd.at = "idle"
    /\ LET c == close_record(wb, ks)
           flushed == IF is_empty(wb) THEN out ELSE Append(out, c.record)
           keys == IF is_empty(wb) THEN ks ELSE Sent(ks)
           w == write_record(WriteBuffer_new, keys, header("Alert", opened), "CloseNotify")
       IN  IF lost THEN phase' = "failed" /\ UNCHANGED <<out, ks>>
           ELSE /\ out' = Append(flushed, w.record)
                /\ ks' = Sent(w.ks) /\ phase' = "closed"
    /\ wb' = WriteBuffer_new
    /\ UNCHANGED <<profile, server, reading, written, hs, opened>>
close == profile.api = "async" /\ CloseConnection
close_blocking == profile.api = "blocking" /\ CloseConnection

-----------------------------------------------------------------------------
Handshake ==
    \/ open \/ open_blocking
    \/ process \/ process_blocking
    \/ HandshakeRead \/ HandshakeRecord

Transport ==
    \/ next_record_header \/ next_record_header_blocking
    \/ advance \/ advance_blocking
    \/ ReadFails

Application ==
    \/ read_buffered \/ read_buffered_blocking
    \/ TlsReader_read_buffered \/ TlsReader_read_buffered_blocking
    \/ read \/ read_blocking \/ TlsReader_read \/ TlsReader_read_blocking
    \/ fill_buf \/ fill_buf_blocking \/ TlsReader_fill_buf \/ TlsReader_fill_buf_blocking
    \/ read_application_data \/ read_application_data_blocking
    \/ TlsReader_read_application_data \/ TlsReader_read_application_data_blocking
    \/ CancelRead
    \/ write \/ write_blocking \/ TlsWriter_write \/ TlsWriter_write_blocking
    \/ flush \/ flush_blocking \/ TlsWriter_flush \/ TlsWriter_flush_blocking
    \/ close \/ close_blocking

Running == phase \notin {"failed", "closed"}

Next ==
    /\ Running
    /\ \/ ServerFlight \/ ServerSends \/ TransportLost
       \/ Handshake \/ Transport \/ Application

Spec == Init /\ [][Next]_vars

-----------------------------------------------------------------------------
(* Properties.                                                             *)

\* The records before i that are encrypted under the same keys.
SealedBefore(i) ==
    {j \in 1 .. i - 1 : out[j].nonce # NoSecret /\ (j <= FinishedIndex) = (i <= FinishedIndex)}

\* Where the caller's units are: in a record sent or in the write buffer, which
\* is the record to come.
UnitPlaces ==
    (UNION {{i} \X DOMAIN out[i].data : i \in {j \in DOMAIN out : out[j].inner = "ApplicationData"}})
    \cup ({Len(out) + 1} \X DOMAIN wb.data)
Unit(p) == IF p[1] <= Len(out) THEN out[p[1]].data[p[2]] ELSE wb.data[p[2]]
Earlier(p, q) == p[1] < q[1] \/ (p[1] = q[1] /\ p[2] < q[2])

\* A server that keeps to the protocol can open every record the client
\* sends: its key follows from the same transcript, its counter is the next
\* one (so no nonce is used twice), the client's Finished is the one expected,
\* and the units it opens, with those still in the write buffer, are the ones
\* written, in order.  This holds with and without client certificates and
\* PSKs and however the server's flight is laid out (connection.rs,
\* key_schedule.rs, write_buffer.rs).
ServerAccepts ==
    /\ out # << >> /\ profile.psk =>
          out[1].data[2] = Mac(Expand(Extract(zero, Psk), "ext binder", << >>), Truncated)
    /\ \A i \in DOMAIN out : out[i].nonce # NoSecret =>
          out[i].nonce = <<ServerKey(IF i <= FinishedIndex THEN "c hs traffic" ELSE "c ap traffic"),
                           Cardinality(SealedBefore(i))>>
    /\ Len(out) >= FinishedIndex /\ out[FinishedIndex].inner = "Handshake" =>
          out[FinishedIndex].data = <<ClientVerify(HelloTranscript \o Flight \o ClientMessages)>>
    /\ phase # "failed" =>
          /\ {Unit(p) : p \in UnitPlaces} = 1 .. written
          /\ \A p, q \in UnitPlaces : Earlier(p, q) => Unit(p) < Unit(q)

\* The places of the application data in what the server sent: every unit of a
\* record's plaintext, without the content type at its end.
AppUnits ==
    UNION {r.start + HeaderLen + 1 .. r.start + HeaderLen + r.n - 1 :
              r \in {s \in ToSet(srv) : s.inner = "ApplicationData"}}

\* The units handed to the caller are the server's application data in
\* order, none skipped and none repeated, whatever the pieces they arrive in,
\* wherever the records fall in the buffer, and even when a read is dropped in
\* the middle of a record (record_reader.rs, read_buffer.rs, connection.rs).
DeliveredInOrder ==
    /\ \A i, j \in DOMAIN handed : i < j => handed[i] < handed[j]
    /\ \A i \in DOMAIN handed :
          {u \in AppUnits : u <= handed[i]} = {handed[j] : j \in 1 .. i}

\* The connection only fails for a reason outside the client: the transport,
\* what the two ends were configured with, something the server sent that the
\* client does not take, or a read that the caller dropped in the middle of
\* a record.
ErrorsHaveCause ==
    phase = "failed" =>
       \/ lost \/ rd.cut
       \/ profile.hello # "ok" \/ profile.extensions # "ok" \/ profile.verify = "bad"
       \/ profile.request /\ profile.client = "nosigner"
       \/ \E r \in ToSet(srv) :
             r.n > ReadBufLen \/ r.msgs \in {<<"KeyUpdate">>, <<"InternalError">>}
=============================================================================
