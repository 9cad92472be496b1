------------------------- MODULE TlsConnection_proofs -------------------------
(***************************************************************************)
(* What a TLS connection promises, for any profiles of the two ends, any   *)
(* sizes of the buffers and records and any cut of the stream: the server  *)
(* accepts every record, the caller gets the data in order, and a failure  *)
(* has a cause outside the client.                                         *)
(*                                                                         *)
(* SInv gives the keys of every stage of the handshake in closed form, and *)
(* what was sent under them.  IInv adds what the decrypted window and the  *)
(* caller hold of the server's stream.  SyncInv says that, as long as      *)
(* nothing excuses a failure, the reader, the transcript and the read      *)
(* counter are all at the same record of the server.                       *)
(***************************************************************************)
EXTENDS TlsConnection, FiniteSetTheorems, SequenceTheorems, TLAPS

-----------------------------------------------------------------------------
(* Shapes.                                                                 *)

States == {"ClientHello", "ServerHello", "ServerVerify", "ClientCert", "ClientCertVerify",
           "ClientFinished", "ApplicationData"}
Phases == {"new", "opening", "up", "peer_closed", "closed", "failed"}

SessionShapes ==
    /\ profile \in Profiles /\ lost \in BOOLEAN /\ opened \in BOOLEAN /\ phase \in Phases
    /\ hs \in [state : States, traffic_hash : {hs.traffic_hash}, secret : BOOLEAN,
               certificate_request : BOOLEAN]
    /\ out \in Seq(ToSet(out))

Contents == [0 .. ReadBufLen - 1 -> Nat]
Buffers == [buf : Contents, decoded : Nat, pending : Nat]
Readings == [at : {"idle", "header", "body"}, have : Nat, start : Nat, want : Nat, cut : BOOLEAN]

ReaderShapes ==
    /\ rd \in Readings
    /\ rdr \in Buffers
    /\ rdr.decoded + rdr.pending <= ReadBufLen
    /\ dec \in [offset : Nat, len : Nat, consumed : Nat] /\ dec.consumed <= dec.len
    /\ taken \in Nat

-----------------------------------------------------------------------------
(* The keys of each stage in closed form.                                  *)

EarlyPrk == Extract(zero, Psk)
Binder   == Expand(EarlyPrk, "ext binder", << >>)
ClientHsKey  == ServerKey("c hs traffic")
ServerHsKey  == ServerKey("s hs traffic")
ClientAppKey == ServerKey("c ap traffic")
ServerAppKey == ServerKey("s ap traffic")

Traffic(key, counter) == [key |-> key, counter |-> counter]
Schedule(s, p, b, w, r, t) ==
    [secret |-> s, hkdf |-> p, binder |-> b, write |-> w, read |-> r, transcript |-> t]

Keys(prk, w, wc, r, rc, transcript) ==
    Schedule(Expand(prk, "derived", << >>), prk, Binder, Traffic(w, wc), Traffic(r, rc), transcript)
EarlyKeys(transcript, wc) == Keys(EarlyPrk, NoSecret, wc, NoSecret, 0, transcript)
HandshakeKeys(transcript, wc, rc) ==
    Keys(ServerHandshakePrk, ClientHsKey, wc, ServerHsKey, rc, transcript)
AppKeys(transcript, wc, rc) ==
    Keys(ServerMasterPrk, ClientAppKey, wc, ServerAppKey, rc, transcript)

\* The messages of the handshake that the transcript may hold.
Messages == {"ClientHello", "ServerHello", "EncryptedExtensions", "CertificateRequest",
             "Certificate", "CertificateVerify", "Finished", "ClientCertificate",
             "ClientCertificateVerify"}

\* The transcript up to the server's Finished.
ServerTranscript == HelloTranscript \o Flight

Requested(transcript) == \E i \in DOMAIN transcript : transcript[i] = "CertificateRequest"

FlightDone == profile.hello = "ok" /\ Len(srv) >= Len(FlightRecords)

ClientHelloStage ==
    ks = KeySchedule_new /\ out = << >> /\ hs.certificate_request = FALSE
ServerHelloStage ==
    ks = EarlyKeys(<<"ClientHello">>, 1) /\ Len(out) = 1 /\ hs.certificate_request = FALSE
ServerVerifyStage ==
    /\ ks = HandshakeKeys(ks.transcript, 0, ks.read.counter) /\ ks.read.counter \in Nat
    /\ ks.transcript \in Seq(Messages) /\ Len(out) = 1
    /\ hs.certificate_request <=> Requested(ks.transcript)
ClientCertStage ==
    /\ ks = HandshakeKeys(ServerTranscript, 0, ks.read.counter) /\ ks.read.counter \in Nat
    /\ Len(out) = 1 /\ profile.request /\ hs.certificate_request /\ FlightDone
ClientCertVerifyStage ==
    /\ ks = HandshakeKeys(Append(ServerTranscript, "ClientCertificate"), 1, ks.read.counter)
    /\ ks.read.counter \in Nat /\ hs.traffic_hash = ServerTranscript
    /\ Len(out) = 2 /\ profile.request /\ profile.client # "none" /\ FlightDone
ClientFinishedStage ==
    /\ ks = HandshakeKeys(ServerTranscript \o ClientMessages, FinishedIndex - 2, ks.read.counter)
    /\ ks.read.counter \in Nat /\ hs.traffic_hash = ServerTranscript
    /\ Len(out) = FinishedIndex - 1 /\ FlightDone
ApplicationStage ==
    /\ ks = AppKeys(ks.transcript, Len(out) - FinishedIndex, ks.read.counter)
    /\ ks.read.counter \in Nat /\ Len(out) >= FinishedIndex

KeyInv ==
    /\ hs.state = "ClientHello" => ClientHelloStage
    /\ hs.state = "ServerHello" => ServerHelloStage
    /\ hs.state = "ServerVerify" => ServerVerifyStage
    /\ hs.state = "ClientCert" => ClientCertStage
    /\ hs.state = "ClientCertVerify" => ClientCertVerifyStage
    /\ hs.state = "ClientFinished" => ClientFinishedStage
    /\ hs.state = "ApplicationData" => ApplicationStage

PhaseInv ==
    /\ phase \in {"new", "opening"} => hs.state # "ApplicationData" /\ ~opened
    /\ phase = "new" => hs.state = "ClientHello"
    /\ phase \in {"up", "peer_closed", "closed"} => hs.state = "ApplicationData"
    /\ phase = "up" => opened
    /\ phase \in {"new", "opening"} /\ rd.at # "idle" => hs.state \in {"ServerHello", "ServerVerify"}

\* The records sent: their nonces count up from 0 under each key, and only the
\* first is in the clear, or the last of a connection that has ended.
NonceIn(o, running) ==
    \A i \in DOMAIN o :
       \/ o[i].nonce = NoSecret /\ (i = 1 \/ (i = Len(o) /\ ~running))
       \/ i \in 2 .. FinishedIndex /\ o[i].nonce = <<ClientHsKey, i - 2>>
       \/ i > FinishedIndex /\ o[i].nonce = <<ClientAppKey, i - FinishedIndex - 1>>
NonceInv == NonceIn(out, Running)

ExpectedBinder == Mac(Binder, Truncated)
ExpectedFinished == <<Mac(ClientHsKey, ServerTranscript \o ClientMessages)>>

FinishedIn(o) ==
    /\ 1 \in DOMAIN o /\ profile.psk => o[1].data[2] = ExpectedBinder
    /\ FinishedIndex \in DOMAIN o =>
          o[FinishedIndex].inner = "Alert" \/ o[FinishedIndex].data = ExpectedFinished
FinishedInv == FinishedIn(out)

\* The write buffer.
BufferInv ==
    /\ written \in Nat
    /\ wb \in [pos : Nat, header : {NoHeader, AppHeader}, data : Seq(Nat)]
    /\ wb = WriteBuffer_new \/ (wb.header = AppHeader /\ wb.pos = HeaderLen + Len(wb.data))
    /\ wb.pos <= MaxBlockSize
    /\ hs.state # "ApplicationData" => wb = WriteBuffer_new

\* The same as ServerAccepts says of the units, for any records, data in the
\* buffer and number of units.
PlacesIn(o, d) ==
    (UNION {{i} \X DOMAIN o[i].data : i \in {j \in DOMAIN o : o[j].inner = "ApplicationData"}})
    \cup ({Len(o) + 1} \X DOMAIN d)
UnitIn(o, d, p) == IF p[1] <= Len(o) THEN o[p[1]].data[p[2]] ELSE d[p[2]]
UnitsIn(o, d, n) ==
    /\ {UnitIn(o, d, p) : p \in PlacesIn(o, d)} = 1 .. n
    /\ \A p, q \in PlacesIn(o, d) : Earlier(p, q) => UnitIn(o, d, p) < UnitIn(o, d, q)

UnitsInv == UnitsIn(out, wb.data, written)

WriteInv ==
    /\ Running => KeyInv /\ (opened => phase = "up")
    /\ PhaseInv /\ NonceInv /\ FinishedInv /\ BufferInv
    /\ phase # "failed" => UnitsInv

-----------------------------------------------------------------------------
(* The server's stream.                                                    *)

EndOf(i) == srv[i].start + HeaderLen + srv[i].n
Base(c) == IF c = 0 THEN 0 ELSE EndOf(c)

LaterShape(r) ==
    \/ r.inner = "ApplicationData" /\ r.msgs = << >>
    \/ r.inner = "Handshake" /\ r.msgs \in {<<"NewSessionTicket">>, <<"KeyUpdate">>}
    \/ r.inner = "Alert" /\ r.msgs \in {<<"CloseNotify">>, <<"InternalError">>}

\* A record put into the stream keeps everything but its place.
Placed(r, x) == [r EXCEPT !.start = x]

\* The records lie one behind the other.
Contiguous ==
    /\ \A i \in DOMAIN srv : srv[i].n \in Nat \ {0} /\ srv[i].start \in Nat
    /\ \A i \in DOMAIN srv : i = 1 => srv[i].start = 0
    /\ \A i \in DOMAIN srv : i > 1 => srv[i].start = EndOf(i - 1)
    /\ \A i, j \in DOMAIN srv : i < j => EndOf(i) <= srv[j].start

\* The flight first, then records under the application key.
Ordered ==
    /\ \A i \in DOMAIN srv : i <= Len(FlightRecords) =>
          srv[i] = Placed(FlightRecords[i], srv[i].start)
    /\ \A i \in DOMAIN srv : i > Len(FlightRecords) =>
          /\ profile.hello = "ok" /\ srv[i].outer = "ApplicationData" /\ LaterShape(srv[i])
          /\ srv[i].nonce = <<ServerAppKey, i - Len(FlightRecords) - 1>>

StreamInv == srv \in Seq(ToSet(srv)) /\ Contiguous /\ Ordered

Current == Len(FlightRecords) + ks.read.counter
Mark == EndOf(Current) - 1 - dec_len(dec)

Window ==
    /\ srv[Current].inner = "ApplicationData" /\ dec.len = srv[Current].n - 1
    /\ \A k \in 0 .. dec.len - 1 :
          /\ dec.offset + k \in 0 .. ReadBufLen - 1
          /\ rdr.buf[dec.offset + k] = srv[Current].start + HeaderLen + 1 + k

\* The units h are those of S up to place m, in order.
HandedIn(h, S, m) ==
    /\ h \in Seq(Nat)
    /\ {h[i] : i \in DOMAIN h} = {u \in S : u <= m}
    /\ \A i, j \in DOMAIN h : i < j => h[i] < h[j]

Receiving ==
    /\ profile.hello = "ok" /\ Current \in DOMAIN srv
    /\ ~dec_is_empty(dec) => rd.at = "idle" /\ Window
    /\ HandedIn(handed, AppUnits, Mark)

ReadInv ==
    /\ phase \in {"new", "opening"} => handed = << >> /\ dec = DecryptedBufferInfo_default
    /\ phase \in {"up", "peer_closed"} => Receiving
    /\ phase \in {"closed", "failed"} => DeliveredInOrder

-----------------------------------------------------------------------------
(* The reader in step with the stream.                                     *)

\* The causes that ErrorsHaveCause names.
Excused ==
    \/ lost \/ rd.cut
    \/ profile.hello # "ok" \/ profile.extensions # "ok" \/ profile.verify = "bad"
    \/ profile.request /\ profile.client = "nosigner"
    \/ \E r \in ToSet(srv) :
          r.n > ReadBufLen \/ r.msgs \in {<<"KeyUpdate">>, <<"InternalError">>}

\* The reader is behind the first c records: it waits, collects the header of
\* the next one, or has the first units of it in the buffer.
At(c) ==
    /\ rd.at = "idle" => taken = Base(c) /\ rdr.pending = 0
    /\ rd.at = "header" =>
          /\ rd.start = Base(c) /\ taken = Base(c) + rd.have /\ rdr.pending = 0
          /\ rd.have < HeaderLen
    /\ rd.at = "body" =>
          /\ c + 1 \in DOMAIN srv /\ rd.start = Base(c) /\ rd.want = srv[c + 1].n
          /\ rd.have = rdr.pending /\ rdr.pending <= rd.want
          /\ taken = Base(c) + HeaderLen + rdr.pending
          /\ rdr.decoded + rd.want <= ReadBufLen
          /\ \A k \in 0 .. rdr.pending - 1 :
                rdr.buf[rdr.decoded + k] = Base(c) + HeaderLen + 1 + k

\* The transcript holds the hellos and the first k messages of the flight.
Heard(transcript, k) ==
    /\ transcript \in Seq(Messages) /\ Len(transcript) = 2 + k
    /\ \A i \in 1 .. 2 + k : transcript[i] = ServerTranscript[i]

\* The records behind the reader are those the state of the handshake has taken.
Stands(c) ==
    /\ hs.state = "ClientHello" => c = 0
    /\ hs.state = "ServerHello" => c = 0 /\ hs.secret
    /\ hs.state = "ServerVerify" =>
          /\ c = PlainRecords + ks.read.counter \/ (c = 1 /\ ks.read.counter = 0)
          /\ ks.read.counter < SealedRecords /\ Heard(ks.transcript, ks.read.counter)
    /\ hs.state \in {"ClientCert", "ClientCertVerify", "ClientFinished"} => c = Len(FlightRecords)
    /\ hs.state = "ApplicationData" => c = Current

InStep ==
    /\ phase # "failed"
    /\ phase \in {"new", "opening", "up"} => \E c \in 0 .. Len(srv) : At(c) /\ Stands(c)
    /\ phase = "peer_closed" => rd.at = "idle"

SyncInv == Excused \/ InStep

SInv == SessionShapes /\ ReaderShapes /\ WriteInv /\ StreamInv
IInv == SessionShapes /\ ReaderShapes /\ WriteInv /\ StreamInv /\ ReadInv

-----------------------------------------------------------------------------
(* The operators.                                                          *)

\* A profile that does not change leaves the server's keys, its flight and
\* what is expected of the client as they are.
LEMMA ProfileFrame ==
    ASSUME profile' = profile
    PROVE  /\ Psk' = Psk /\ Flight' = Flight
           /\ PlainRecords' = PlainRecords /\ SealedRecords' = SealedRecords
           /\ FlightRecords' = FlightRecords
           /\ EarlyPrk' = EarlyPrk /\ Binder' = Binder
           /\ ServerHandshakePrk' = ServerHandshakePrk /\ ServerMasterPrk' = ServerMasterPrk
           /\ ClientHsKey' = ClientHsKey /\ ServerHsKey' = ServerHsKey
           /\ ClientAppKey' = ClientAppKey /\ ServerAppKey' = ServerAppKey
           /\ ServerTranscript' = ServerTranscript
           /\ ClientMessages' = ClientMessages /\ FinishedIndex' = FinishedIndex
           /\ ExpectedBinder' = ExpectedBinder /\ ExpectedFinished' = ExpectedFinished
<1>1. /\ Psk' = Psk /\ Flight' = Flight
      /\ PlainRecords' = PlainRecords
      /\ ClientMessages' = ClientMessages
  BY DEF Psk, Flight, PlainRecords, ClientMessages
<1>2. /\ SealedRecords' = SealedRecords /\ FinishedIndex' = FinishedIndex
      /\ EarlyPrk' = EarlyPrk /\ ServerTranscript' = ServerTranscript
      /\ ServerHandshakePrk' = ServerHandshakePrk
  BY <1>1 DEF SealedRecords, FinishedIndex, EarlyPrk, ServerTranscript, ServerHandshakePrk
<1>3. /\ Binder' = Binder /\ ServerMasterPrk' = ServerMasterPrk
  BY <1>2 DEF Binder, ServerMasterPrk
<1>4. /\ ClientHsKey' = ClientHsKey /\ ServerHsKey' = ServerHsKey
      /\ ClientAppKey' = ClientAppKey /\ ServerAppKey' = ServerAppKey
  BY <1>1, <1>2, <1>3 DEF ClientHsKey, ServerHsKey, ClientAppKey, ServerAppKey, ServerKey
<1>5. FlightRecords' = FlightRecords
  BY <1>1, <1>2, <1>3, <1>4 DEF FlightRecords, Sealed, Plain, ServerKey
<1>6. ExpectedBinder' = ExpectedBinder /\ ExpectedFinished' = ExpectedFinished
  BY <1>1, <1>2, <1>3, <1>4 DEF ExpectedBinder, ExpectedFinished
<1> QED BY <1>1, <1>2, <1>3, <1>4, <1>5, <1>6

\* A key and a counter are a pair, which NoSecret is not.
LEMMA PairIsNoSecretNot == \A k, c : <<k, c>> # NoSecret
  BY DEF NoSecret

\* Append on a sequence of anything.
LEMMA AppendAny ==
    ASSUME NEW s, s \in Seq(ToSet(s)), NEW e
    PROVE  /\ Append(s, e) \in Seq(ToSet(Append(s, e)))
           /\ Len(s) \in Nat /\ DOMAIN s = 1 .. Len(s)
           /\ Len(Append(s, e)) = Len(s) + 1 /\ DOMAIN Append(s, e) = 1 .. Len(s) + 1
           /\ \A i \in 1 .. Len(s) : Append(s, e)[i] = s[i]
           /\ Append(s, e)[Len(s) + 1] = e
           /\ ToSet(Append(s, e)) = ToSet(s) \cup {e}
<1> DEFINE X == ToSet(s) \cup {e}
<1>1. s \in Seq(X) /\ e \in X
  OBVIOUS
<1> HIDE DEF X
<1>2. /\ Append(s, e) \in Seq(X)
      /\ Len(s) \in Nat /\ DOMAIN s = 1 .. Len(s)
      /\ Len(Append(s, e)) = Len(s) + 1 /\ DOMAIN Append(s, e) = 1 .. Len(s) + 1
      /\ \A i \in 1 .. Len(s) : Append(s, e)[i] = s[i]
      /\ Append(s, e)[Len(s) + 1] = e
  BY <1>1
<1>3. ToSet(Append(s, e)) = X
  BY <1>2 DEF X, ToSet
<1> QED BY <1>2, <1>3 DEF X

\* SharedState::initialize and derived, and new traffic keys, both at record 0.
LEMMA SharedSteps ==
    ASSUME NEW s, NEW p, NEW b, NEW w, NEW r, NEW t
    PROVE  /\ \A ikm : shared_initialize(Schedule(s, p, b, w, r, t), ikm) =
                 Schedule(Extract(s, ikm), Extract(s, ikm), b, w, r, t)
           /\ shared_derived(Schedule(s, p, b, w, r, t)) =
                 Schedule(Expand(p, "derived", << >>), p, b, w, r, t)
           /\ \A c, d : calculate_traffic_secrets(Schedule(s, p, b, w, r, t), c, d) =
                 Schedule(s, p, b, Traffic(Expand(p, c, t), 0), Traffic(Expand(p, d, t), 0), t)
<1> DEFINE k == Schedule(s, p, b, w, r, t)
<1>1. k.secret = s /\ k.hkdf = p /\ k.transcript = t
  BY DEF Schedule
<1>2. ASSUME NEW ikm PROVE shared_initialize(k, ikm) = Schedule(Extract(s, ikm), Extract(s, ikm), b, w, r, t)
  <2> DEFINE e == Extract(s, ikm)
  <2> HIDE DEF e
  <2>1. [k EXCEPT !.hkdf = e] = Schedule(s, e, b, w, r, t)
    BY Z3T(30) DEF Schedule
  <2>2. [k EXCEPT !.hkdf = e, !.secret = e] = [Schedule(s, e, b, w, r, t) EXCEPT !.secret = e]
    BY <2>1, Zenon
  <2>3. [Schedule(s, e, b, w, r, t) EXCEPT !.secret = e] = Schedule(e, e, b, w, r, t)
    BY Z3T(30) DEF Schedule
  <2> QED BY <1>1, <2>2, <2>3, Zenon DEF shared_initialize, e
<1>3. shared_derived(k) = Schedule(Expand(p, "derived", << >>), p, b, w, r, t)
  <2> DEFINE e == Expand(p, "derived", << >>)
  <2> HIDE DEF e
  <2>1. [k EXCEPT !.secret = e] = Schedule(e, p, b, w, r, t)
    BY Z3T(30) DEF Schedule
  <2> QED BY <1>1, <2>1, Zenon DEF shared_derived, e
<1>4. ASSUME NEW c, NEW d
      PROVE  calculate_traffic_secrets(k, c, d) =
                Schedule(s, p, b, Traffic(Expand(p, c, t), 0), Traffic(Expand(p, d, t), 0), t)
  <2> DEFINE x == Traffic(Expand(p, c, t), 0)
             y == Traffic(Expand(p, d, t), 0)
  <2> HIDE DEF x, y
  <2>1. [k EXCEPT !.write = x] = Schedule(s, p, b, x, r, t)
    BY Z3T(30) DEF Schedule
  <2>2. [k EXCEPT !.write = x, !.read = y] = [Schedule(s, p, b, x, r, t) EXCEPT !.read = y]
    BY <2>1, Zenon
  <2>3. [Schedule(s, p, b, x, r, t) EXCEPT !.read = y] = Schedule(s, p, b, x, y, t)
    BY Z3T(30) DEF Schedule
  <2> QED BY <1>1, <2>2, <2>3, Zenon
          DEF calculate_traffic_secrets, calculate_traffic_secret, Traffic, x, y
<1> QED BY <1>2, <1>3, <1>4, Zenon

\* The keys of a stage through the operations of the key schedule.
LEMMA CountKeys ==
    ASSUME NEW p, NEW w, NEW wc \in Nat, NEW r, NEW rc \in Nat, NEW t
    PROVE  /\ Sent(Keys(p, w, wc, r, rc, t)) = Keys(p, w, wc + 1, r, rc, t)
           /\ Received(Keys(p, w, wc, r, rc, t)) = Keys(p, w, wc, r, rc + 1, t)
           /\ \A m : Hashed(Keys(p, w, wc, r, rc, t), m) = Keys(p, w, wc, r, rc, Append(t, m))
  BY Z3T(30) DEF Keys, Schedule, Traffic, Sent, Received, Hashed, increment_counter

\* The early secret of a new connection.
LEMMA EarlySecret ==
    initialize_early_secret(KeySchedule_new, Psk) = EarlyKeys(<< >>, 0)
<1> DEFINE k == Schedule(EarlyPrk, EarlyPrk, NoSecret, Traffic(NoSecret, 0), Traffic(NoSecret, 0), << >>)
<1>1. KeySchedule_new =
         Schedule(zero, NoSecret, NoSecret, Traffic(NoSecret, 0), Traffic(NoSecret, 0), << >>)
  BY DEF KeySchedule_new, Schedule, Traffic
<1>2. shared_initialize(KeySchedule_new, Psk) = k
  BY <1>1, SharedSteps, SMT DEF EarlyPrk
<1>3. k.hkdf = EarlyPrk /\ [k EXCEPT !.binder = Binder] =
         Schedule(EarlyPrk, EarlyPrk, Binder, Traffic(NoSecret, 0), Traffic(NoSecret, 0), << >>)
  BY Z3T(30) DEF Schedule
<1>4. shared_derived([k EXCEPT !.binder = Binder]) = EarlyKeys(<< >>, 0)
  BY <1>3, SharedSteps, SMT DEF EarlyKeys, Keys
<1> HIDE DEF k
<1> QED BY <1>2, <1>3, <1>4, Zenon DEF initialize_early_secret, Binder

\* The handshake secret after the hellos: the server's keys.
LEMMA HandshakeSecret ==
    ASSUME NEW wc
    PROVE  initialize_handshake_secret(EarlyKeys(HelloTranscript, wc), Dhe)
               = HandshakeKeys(HelloTranscript, 0, 0)
<1> DEFINE t == HelloTranscript
           p == ServerHandshakePrk
           c == "c hs traffic"
           d == "s hs traffic"
<1> HIDE DEF c, d
<1>1. shared_initialize(EarlyKeys(t, wc), Dhe) =
         Schedule(p, p, Binder, Traffic(NoSecret, wc), Traffic(NoSecret, 0), t)
  BY SharedSteps, SMT DEF EarlyKeys, Keys, ServerHandshakePrk, EarlyPrk
<1>2. calculate_traffic_secrets(Schedule(p, p, Binder, Traffic(NoSecret, wc), Traffic(NoSecret, 0), t),
                                c, d)
        = Schedule(p, p, Binder, Traffic(Expand(p, c, t), 0),
                   Traffic(Expand(p, d, t), 0), t)
  BY SharedSteps, SMT
<1>3. Expand(p, c, t) = ClientHsKey /\ Expand(p, d, t) = ServerHsKey
  BY DEF c, d, ClientHsKey, ServerHsKey, ServerKey
<1>4. shared_derived(Schedule(p, p, Binder, Traffic(ClientHsKey, 0), Traffic(ServerHsKey, 0), t))
        = HandshakeKeys(t, 0, 0)
  BY SharedSteps, SMT DEF HandshakeKeys, Keys
<1> QED BY <1>1, <1>2, <1>3, <1>4, Zenon DEF c, d, initialize_handshake_secret

\* The master secret over the transcript up to the server's Finished.
LEMMA MasterSecret ==
    ASSUME NEW wc, NEW rc
    PROVE  initialize_master_secret(HandshakeKeys(ServerTranscript, wc, rc))
               = AppKeys(ServerTranscript, 0, 0)
<1> DEFINE t == ServerTranscript
           p == ServerMasterPrk
           w == Traffic(ClientHsKey, wc)
           r == Traffic(ServerHsKey, rc)
           c == "c ap traffic"
           d == "s ap traffic"
<1> HIDE DEF c, d
<1>1. shared_initialize(HandshakeKeys(t, wc, rc), zero) = Schedule(p, p, Binder, w, r, t)
  BY SharedSteps, SMT DEF HandshakeKeys, Keys, ServerMasterPrk
<1>2. calculate_traffic_secrets(Schedule(p, p, Binder, w, r, t), c, d)
        = Schedule(p, p, Binder, Traffic(Expand(p, c, t), 0),
                   Traffic(Expand(p, d, t), 0), t)
  BY SharedSteps, SMT
<1>3. Expand(p, c, t) = ClientAppKey /\ Expand(p, d, t) = ServerAppKey
  BY DEF c, d, ClientAppKey, ServerAppKey, ServerKey, ServerTranscript
<1>4. shared_derived(Schedule(p, p, Binder, Traffic(ClientAppKey, 0), Traffic(ServerAppKey, 0), t))
        = AppKeys(t, 0, 0)
  BY SharedSteps, SMT DEF AppKeys, Keys
<1> QED BY <1>1, <1>2, <1>3, <1>4, Zenon DEF c, d, initialize_master_secret

\* The server's flight ends in Finished, which it holds nowhere else, and asks
\* for a certificate when the profile says so.
LEMMA FlightFacts ==
    /\ Flight \in Seq(Messages) /\ Len(Flight) \in 2 .. 5 /\ DOMAIN Flight = 1 .. Len(Flight)
    /\ Flight[1] = "EncryptedExtensions" /\ Flight[Len(Flight)] = "Finished"
    /\ \A i \in 1 .. Len(Flight) - 1 : Flight[i] # "Finished"
    /\ \A i \in 1 .. Len(Flight) :
          Flight[i] \in {"EncryptedExtensions", "CertificateRequest", "Certificate",
                         "CertificateVerify", "Finished"}
    /\ (\E i \in 1 .. Len(Flight) - 1 : Flight[i] = "CertificateRequest") <=> profile.request
<1>1. CASE profile.psk /\ profile.request
  <2>1. Flight = <<"EncryptedExtensions", "CertificateRequest", "Finished">>
    BY <1>1 DEF Flight
  <2>2. Flight \in Seq(Messages)
    BY <2>1 DEF Messages
  <2> QED BY <1>1, <2>1, <2>2
<1>2. CASE profile.psk /\ ~profile.request
  <2>1. Flight = <<"EncryptedExtensions", "Finished">>
    BY <1>2 DEF Flight
  <2>2. Flight \in Seq(Messages)
    BY <2>1 DEF Messages
  <2> QED BY <1>2, <2>1, <2>2
<1>3. CASE ~profile.psk /\ profile.request
  <2>1. Flight = <<"EncryptedExtensions", "CertificateRequest", "Certificate", "CertificateVerify", "Finished">>
    BY <1>3 DEF Flight
  <2>2. Flight \in Seq(Messages)
    BY <2>1 DEF Messages
  <2> QED BY <1>3, <2>1, <2>2
<1>4. CASE ~profile.psk /\ ~profile.request
  <2>1. Flight = <<"EncryptedExtensions", "Certificate", "CertificateVerify", "Finished">>
    BY <1>4 DEF Flight
  <2>2. Flight \in Seq(Messages)
    BY <2>1 DEF Messages
  <2> QED BY <1>4, <2>1, <2>2
<1> QED BY <1>1, <1>2, <1>3, <1>4

\* The two hellos.
LEMMA HelloFacts ==
    /\ HelloTranscript \in Seq(Messages) /\ Len(HelloTranscript) = 2
    /\ \A i \in 1 .. 2 : HelloTranscript[i] # "CertificateRequest"
    /\ HelloTranscript = Append(<<"ClientHello">>, "ServerHello")
    /\ Append(<< >>, "ClientHello") = <<"ClientHello">>
<1>1. HelloTranscript = <<"ClientHello", "ServerHello">>
  BY DEF HelloTranscript
<1>2. HelloTranscript \in Seq(Messages)
  BY <1>1 DEF Messages
<1>3. <<"ClientHello">> \in Seq(Messages) /\ "ServerHello" \in Messages /\ "ClientHello" \in Messages
  BY DEF Messages
<1>4. HelloTranscript = Append(<<"ClientHello">>, "ServerHello")
  BY <1>1, <1>2, <1>3, SeqEqual
<1>5. Append(<< >>, "ClientHello") = <<"ClientHello">>
  BY <1>3, SeqEqual
<1> QED BY <1>1, <1>2, <1>4, <1>5

\* The transcript before the server's Finished, and with it.
LEMMA TranscriptFacts ==
    /\ HelloTranscript \o Front(Flight) \in Seq(Messages)
    /\ Append(HelloTranscript \o Front(Flight), "Finished") = ServerTranscript
    /\ Requested(HelloTranscript \o Front(Flight)) <=> profile.request
    /\ ServerTranscript \in Seq(Messages) /\ Len(ServerTranscript) = 2 + Len(Flight)
    /\ \A i \in 1 .. 2 : ServerTranscript[i] = HelloTranscript[i]
    /\ \A i \in 3 .. 2 + Len(Flight) : ServerTranscript[i] = Flight[i - 2]
    /\ Len(HelloTranscript \o Front(Flight)) = 1 + Len(Flight)
    /\ \A i \in 1 .. 1 + Len(Flight) : (HelloTranscript \o Front(Flight))[i] = ServerTranscript[i]
<1> DEFINE h == HelloTranscript
           f == Front(Flight)
           n == Len(Flight)
<1>1. h \in Seq(Messages) /\ Len(h) = 2
  BY HelloFacts
<1>2. f \in Seq(Messages) /\ Len(f) = n - 1 /\ (\A i \in 1 .. n - 1 : f[i] = Flight[i]) /\ n \in 2 .. 5
  BY FlightFacts DEF Front
<1> HIDE DEF h, f
<1>3. /\ h \o f \in Seq(Messages) /\ Len(h \o f) = Len(h) + Len(f)
      /\ \A i \in 1 .. Len(h) + Len(f) : (h \o f)[i] = IF i <= Len(h) THEN h[i] ELSE f[i - Len(h)]
  BY <1>1, <1>2, ConcatProperties
<1>4. /\ h \o Flight \in Seq(Messages) /\ Len(h \o Flight) = Len(h) + Len(Flight)
      /\ \A i \in 1 .. Len(h) + Len(Flight) :
            (h \o Flight)[i] = IF i <= Len(h) THEN h[i] ELSE Flight[i - Len(h)]
  <2>1. Flight \in Seq(Messages)
    BY FlightFacts
  <2> QED BY <1>1, <2>1, ConcatProperties
<1> DEFINE a == h \o f
           b == h \o Flight
<1> HIDE DEF a, b
<1>5. /\ a \in Seq(Messages) /\ Len(a) = n + 1 /\ b \in Seq(Messages) /\ Len(b) = n + 2
      /\ \A i \in 1 .. 2 : a[i] = h[i] /\ b[i] = h[i]
      /\ \A i \in 3 .. n + 1 : a[i] = Flight[i - 2]
      /\ \A i \in 3 .. n + 2 : b[i] = Flight[i - 2]
  <2>1. /\ a \in Seq(Messages) /\ Len(a) = n + 1
        /\ \A i \in 1 .. n + 1 : a[i] = IF i <= 2 THEN h[i] ELSE f[i - 2]
    BY <1>1, <1>2, <1>3 DEF a
  <2>2. /\ b \in Seq(Messages) /\ Len(b) = n + 2
        /\ \A i \in 1 .. n + 2 : b[i] = IF i <= 2 THEN h[i] ELSE Flight[i - 2]
    BY <1>1, <1>2, <1>4 DEF b
  <2>3. \A i \in 3 .. n + 1 : i \in 1 .. n + 1 /\ ~(i <= 2) /\ i - 2 \in 1 .. n - 1
    BY <1>2
  <2>4. \A i \in 3 .. n + 1 : a[i] = Flight[i - 2]
    BY <2>1, <2>3, <1>2
  <2>5. \A i \in 1 .. 2 : a[i] = h[i] /\ b[i] = h[i]
    BY <2>1, <2>2, <1>2
  <2>6. \A i \in 3 .. n + 2 : b[i] = Flight[i - 2]
    BY <2>2, <1>2
  <2> QED BY <2>1, <2>2, <2>4, <2>5, <2>6
<1>6. \A i \in 1 .. 1 + n : a[i] = b[i]
  BY <1>5, <1>2
<1>7. Append(a, "Finished") = b
  <2> DEFINE c == Append(a, "Finished")
  <2>1. "Finished" \in Messages
    BY DEF Messages
  <2>2. c \in Seq(Messages) /\ Len(c) = n + 2 /\ c[n + 2] = "Finished" /\ \A i \in 1 .. n + 1 : c[i] = a[i]
    BY <2>1, <1>5, <1>2
  <2> HIDE DEF c
  <2>3. b[n + 2] = "Finished"
    BY <1>5, <1>2, FlightFacts, SMTT(30)
  <2>4. \A i \in 1 .. n + 2 : c[i] = b[i]
    <3>1. \A i \in 1 .. n + 2 : i = n + 2 \/ i \in 1 .. n + 1
      BY <1>2
    <3> QED BY <3>1, <2>2, <2>3, <1>6, <1>2
  <2>5. c = b
    BY <2>2, <2>4, <1>5, SeqEqual
  <2> QED BY <2>5 DEF c
<1>8. Requested(a) <=> profile.request
  <2>1. DOMAIN a = 1 .. n + 1
    BY <1>5, <1>2
  <2>2. ASSUME NEW i \in 1 .. n + 1, a[i] = "CertificateRequest" PROVE profile.request
    <3>1. i \in 3 .. n + 1
      BY <2>2, <1>5, <1>2, HelloFacts DEF h
    <3>2. i - 2 \in 1 .. n - 1 /\ Flight[i - 2] = "CertificateRequest"
      BY <3>1, <2>2, <1>5, <1>2
    <3> QED BY <3>2, FlightFacts
  <2>3. ASSUME profile.request PROVE \E i \in 1 .. n + 1 : a[i] = "CertificateRequest"
    <3>1. PICK i \in 1 .. n - 1 : Flight[i] = "CertificateRequest"
      BY <2>3, FlightFacts
    <3>2. i + 2 \in 3 .. n + 1 /\ (i + 2) - 2 = i
      BY <1>2
    <3>3. a[i + 2] = "CertificateRequest"
      BY <3>1, <3>2, <1>5
    <3> QED BY <3>2, <3>3, <1>2
  <2> QED BY <2>1, <2>2, <2>3 DEF Requested
<1> QED BY <1>5, <1>6, <1>7, <1>8 DEF ServerTranscript, h, f, a, b

-----------------------------------------------------------------------------
(* The steps.                                                              *)

\* The operations of the two ends, without the form of the connection that
\* calls them.
ServerStep == ServerFlight \/ ServerSends \/ TransportLost
ReaderStep ==
    \/ \E k \in 1 .. HeaderLen : HeaderPiece(k)
    \/ \E k \in 1 .. ReadBufLen : BodyPiece(k)
    \/ ReadFails \/ HandshakeRead \/ CancelRead
    \/ phase = "up" /\ ReadBuffered
TakeStep == phase = "up" /\ \E after \in {pop(dec, 1), pop(dec, 2), drop_unused(dec)} : Take(after)
WriterStep == phase \in {"up", "peer_closed"} /\ (WriteBytes \/ Flush)

\* Every step of the connection is one of these.
LEMMA Steps ==
    ASSUME Next
    PROVE  /\ Running
           /\ \/ ServerStep \/ OpenConnection \/ ClientSends \/ HandshakeRecord \/ ReaderStep
              \/ TakeStep \/ ApplicationRecord \/ WriterStep \/ CloseConnection
<1>1. Running /\ (ServerStep \/ Handshake \/ Transport \/ Application)
  BY Zenon DEF Next, ServerStep
<1>2. CASE Handshake
  BY <1>1, <1>2, Zenon DEF Handshake, open, open_blocking, process, process_blocking, ReaderStep
<1>3. CASE Transport
  BY <1>1, <1>3, Zenon
  DEF Transport, next_record_header, next_record_header_blocking, advance, advance_blocking, ReaderStep
<1>4. CASE Application
  <2>1. ReadInto \/ FillAndConsume => \E after \in {pop(dec, 1), pop(dec, 2), drop_unused(dec)} : Take(after)
    BY Zenon DEF ReadInto, FillAndConsume
  <2>2. \/ phase = "up" /\ ReadBuffered
        \/ phase = "up" /\ (ReadInto \/ FillAndConsume)
        \/ ApplicationRecord
        \/ CancelRead
        \/ phase \in {"up", "peer_closed"} /\ (WriteBytes \/ Flush)
        \/ CloseConnection
    BY <1>4, Zenon
    DEF Application, read_buffered, read_buffered_blocking, TlsReader_read_buffered,
        TlsReader_read_buffered_blocking, read, read_blocking, TlsReader_read,
        TlsReader_read_blocking, fill_buf, fill_buf_blocking, TlsReader_fill_buf,
        TlsReader_fill_buf_blocking, read_application_data, read_application_data_blocking,
        TlsReader_read_application_data, TlsReader_read_application_data_blocking,
        write, write_blocking, TlsWriter_write, TlsWriter_write_blocking, flush, flush_blocking,
        TlsWriter_flush, TlsWriter_flush_blocking, close, close_blocking, Reads, MayWrite
  <2> QED BY <1>1, <2>1, <2>2, Zenon DEF ReaderStep, TakeStep, WriterStep
<1> QED BY <1>1, <1>2, <1>3, <1>4, Zenon

-----------------------------------------------------------------------------
(* The server's stream.                                                    *)

\* The fields of a record in the stream.
LEMMA PlacedPlain ==
    ASSUME NEW o, NEW m, NEW x
    PROVE  LET r == Placed(Plain(o, m), x)
           IN  /\ r.outer = o /\ r.inner = o /\ r.nonce = NoSecret /\ r.msgs = m /\ r.n = 1
               /\ r.start = x
  BY Z3T(30) DEF Placed, Plain

\* An encrypted record put into the stream is under the key and counter it was
\* sealed with.
LEMMA PlacedSealed ==
    ASSUME NEW l, NEW c, NEW i, NEW m, NEW n, NEW x
    PROVE  /\ Placed(Sealed(l, c, i, m, n), x).outer = "ApplicationData"
           /\ Placed(Sealed(l, c, i, m, n), x).inner = i
           /\ Placed(Sealed(l, c, i, m, n), x).nonce = <<ServerKey(l), c>>
           /\ Placed(Sealed(l, c, i, m, n), x).msgs = m
           /\ Placed(Sealed(l, c, i, m, n), x).n = n
           /\ Placed(Sealed(l, c, i, m, n), x).start = x
  BY Z3T(30) DEF Placed, Sealed

\* The flight of a server that takes the hello.
LEMMA FlightRecordFacts ==
    ASSUME profile.hello = "ok"
    PROVE  /\ PlainRecords \in 1 .. 2 /\ SealedRecords \in 1 .. 5
           /\ Len(FlightRecords) = PlainRecords + SealedRecords
           /\ FlightRecords[1] = Plain("Handshake", <<"ServerHello">>)
           /\ PlainRecords = 2 => FlightRecords[2] = Plain("ChangeCipherSpec", << >>)
           /\ \A i \in PlainRecords + 1 .. PlainRecords + SealedRecords :
                 FlightRecords[i] = Sealed("s hs traffic", i - PlainRecords - 1, "Handshake",
                                           IF profile.coalesced THEN Flight
                                           ELSE <<Flight[i - PlainRecords]>>, 2)
<1>1. PlainRecords \in 1 .. 2 /\ SealedRecords \in 1 .. 5
  BY FlightFacts DEF PlainRecords, SealedRecords
<1> DEFINE hello == Plain("Handshake", <<"ServerHello">>)
           ccs == Plain("ChangeCipherSpec", << >>)
           sealed(i) == Sealed("s hs traffic", i - PlainRecords - 1, "Handshake",
                               IF profile.coalesced THEN Flight ELSE <<Flight[i - PlainRecords]>>, 2)
           e(i) == IF i = 1 THEN hello ELSE IF i <= PlainRecords THEN ccs ELSE sealed(i)
           N == PlainRecords + SealedRecords
<1>2. FlightRecords = [i \in 1 .. N |-> e(i)]
  BY DEF FlightRecords
<1>3. N \in Nat /\ N >= 2
  BY <1>1
<1> HIDE DEF hello, ccs, sealed
<1>4. e(1) = hello /\ (PlainRecords = 2 => e(2) = ccs)
  BY <1>1
<1>5. \A i \in PlainRecords + 1 .. N : e(i) = sealed(i)
  BY <1>1
<1> HIDE DEF e, N
<1>6. Len(FlightRecords) = N /\ \A i \in 1 .. N : FlightRecords[i] = e(i)
  BY <1>2, <1>3
<1>7. 1 \in 1 .. N /\ 2 \in 1 .. N /\ \A i \in PlainRecords + 1 .. N : i \in 1 .. N
  BY <1>1, <1>3
<1> QED BY <1>1, <1>4, <1>5, <1>6, <1>7, Zenon DEF N, hello, ccs, sealed

\* What the flight consists of, whatever the server answers.
LEMMA FlightRecordShapes ==
    ASSUME profile \in Profiles
    PROVE  /\ Len(FlightRecords) \in Nat \ {0}
           /\ \A i \in 1 .. Len(FlightRecords), x \in Nat :
                 /\ Placed(FlightRecords[i], x).n \in Nat \ {0}
                 /\ Placed(FlightRecords[i], x).start = x
<1>1. CASE profile.hello = "ok"
  <2>1. /\ PlainRecords \in 1 .. 2 /\ SealedRecords \in 1 .. 5
        /\ Len(FlightRecords) = PlainRecords + SealedRecords
    BY <1>1, FlightRecordFacts
  <2>2. ASSUME NEW i \in 1 .. Len(FlightRecords), NEW x \in Nat
        PROVE  Placed(FlightRecords[i], x).n \in Nat \ {0} /\ Placed(FlightRecords[i], x).start = x
    <3>1. CASE i = 1
      <4>1. FlightRecords[i] = Plain("Handshake", <<"ServerHello">>)
        BY <3>1, <1>1, FlightRecordFacts
      <4> QED BY <4>1, PlacedPlain
    <3>2. CASE i = 2 /\ PlainRecords = 2
      <4>1. FlightRecords[i] = Plain("ChangeCipherSpec", << >>)
        BY <3>2, <1>1, FlightRecordFacts
      <4> QED BY <4>1, PlacedPlain
    <3>3. CASE i \in PlainRecords + 1 .. PlainRecords + SealedRecords
      <4> DEFINE l == "s hs traffic"
                 c == i - PlainRecords - 1
                 h == "Handshake"
                 m == IF profile.coalesced THEN Flight ELSE <<Flight[i - PlainRecords]>>
                 n == 2
      <4>1. FlightRecords[i] = Sealed(l, c, h, m, n)
        BY <3>3, <1>1, FlightRecordFacts, Zenon
      <4> HIDE DEF l, c, h, m, n
      <4>2. Placed(Sealed(l, c, h, m, n), x).n = n /\ Placed(Sealed(l, c, h, m, n), x).start = x
        BY PlacedSealed
      <4> QED BY <4>1, <4>2 DEF n
    <3> QED BY <2>1, <3>1, <3>2, <3>3
  <2> QED BY <2>1, <2>2
<1>2. CASE profile.hello # "ok"
  <2>1. PICK o, m : FlightRecords = <<Plain(o, m)>>
    <3>1. profile.hello = "alert" \/ profile.hello = "retry"
      BY <1>2, ProfilesAssumption DEF ProfileType
    <3> QED BY <3>1 DEF FlightRecords
  <2>2. Len(FlightRecords) = 1 /\ FlightRecords[1] = Plain(o, m)
    BY <2>1
  <2>3. \A x : Placed(Plain(o, m), x).n = 1 /\ Placed(Plain(o, m), x).start = x
    BY PlacedPlain
  <2> QED BY <2>2, <2>3
<1> QED BY <1>1, <1>2

\* The end of the stream.
LEMMA StreamEndFacts ==
    ASSUME StreamInv
    PROVE  /\ Len(srv) \in Nat /\ DOMAIN srv = 1 .. Len(srv)
           /\ StreamEnd(srv) = Base(Len(srv)) /\ StreamEnd(srv) \in Nat
           /\ \A i \in DOMAIN srv : EndOf(i) \in Nat /\ EndOf(i) <= StreamEnd(srv)
<1>1. Len(srv) \in Nat /\ DOMAIN srv = 1 .. Len(srv)
  BY DEF StreamInv
<1>2. srv = << >> <=> Len(srv) = 0
  BY <1>1 DEF StreamInv
<1>3. \A i \in DOMAIN srv : EndOf(i) \in Nat
  BY RecordSizes DEF StreamInv, Contiguous, EndOf
<1>4. ASSUME NEW i \in DOMAIN srv PROVE EndOf(i) <= EndOf(Len(srv)) /\ StreamEnd(srv) = EndOf(Len(srv))
  <2>1. Len(srv) \in DOMAIN srv /\ i <= Len(srv)
    BY <1>1
  <2>2. StreamEnd(srv) = EndOf(Len(srv))
    BY <1>2, <2>1, <1>1 DEF StreamEnd, EndOf, Last
  <2>3. CASE i = Len(srv)
    BY <2>3, <2>2, <1>3, <2>1
  <2>4. CASE i < Len(srv)
    <3>1. EndOf(i) <= srv[Len(srv)].start
      BY <2>1, <2>4 DEF StreamInv, Contiguous
    <3>2. srv[Len(srv)].start <= EndOf(Len(srv))
      BY <2>1, RecordSizes DEF StreamInv, Contiguous, EndOf
    <3> QED BY <2>1, <2>2, <3>1, <3>2, <1>3, RecordSizes DEF StreamInv, Contiguous
  <2> QED BY <2>1, <2>3, <2>4, <1>1
<1>5. StreamEnd(srv) = Base(Len(srv))
  <2>1. CASE Len(srv) = 0
    BY <2>1, <1>2 DEF StreamEnd, Base
  <2>2. CASE Len(srv) # 0
    BY <2>2, <1>1, <1>4 DEF Base
  <2> QED BY <2>1, <2>2
<1>6. StreamEnd(srv) \in Nat
  BY <1>1, <1>2, <1>3, <1>4, <1>5 DEF Base
<1> QED BY <1>1, <1>3, <1>4, <1>5, <1>6

\* A record sent at the end of the stream.
LEMMA ContiguousStep ==
    ASSUME StreamInv, NEW r, r.n \in Nat \ {0}, r.start = StreamEnd(srv), srv' = Append(srv, r)
    PROVE  /\ srv' \in Seq(ToSet(srv')) /\ Contiguous'
           /\ Len(srv') = Len(srv) + 1 /\ DOMAIN srv' = 1 .. Len(srv) + 1
           /\ (\A i \in DOMAIN srv : srv'[i] = srv[i]) /\ srv'[Len(srv) + 1] = r
           /\ ToSet(srv') = ToSet(srv) \cup {r}
<1> DEFINE N == Len(srv)
<1>1. /\ srv' \in Seq(ToSet(srv')) /\ N \in Nat /\ DOMAIN srv = 1 .. N
      /\ Len(srv') = N + 1 /\ DOMAIN srv' = 1 .. N + 1
      /\ (\A i \in 1 .. N : srv'[i] = srv[i]) /\ srv'[N + 1] = r
      /\ ToSet(srv') = ToSet(srv) \cup {r}
  BY AppendAny DEF StreamInv
<1>2. /\ StreamEnd(srv) = Base(N) /\ StreamEnd(srv) \in Nat
      /\ \A i \in 1 .. N : EndOf(i) \in Nat /\ EndOf(i) <= StreamEnd(srv)
  BY <1>1, StreamEndFacts
<1>3. \A i \in 1 .. N : EndOf(i)' = EndOf(i)
  BY <1>1 DEF EndOf
<1> HIDE DEF N
<1>4. \A i \in 1 .. N + 1 : srv'[i].n \in Nat \ {0} /\ srv'[i].start \in Nat
  BY <1>1, <1>2 DEF StreamInv, Contiguous
<1>5. \A i \in 1 .. N + 1 : i = 1 => srv'[i].start = 0
  <2>1. CASE N = 0
    BY <2>1, <1>1, <1>2 DEF Base
  <2>2. CASE N > 0
    BY <2>2, <1>1 DEF StreamInv, Contiguous
  <2> QED BY <2>1, <2>2, <1>1
<1>6. ASSUME NEW i \in 1 .. N + 1, i > 1 PROVE srv'[i].start = EndOf(i - 1)'
  <2>1. i - 1 \in 1 .. N
    BY <1>6, <1>1
  <2>2. CASE i = N + 1
    BY <2>2, <2>1, <1>1, <1>2, <1>3 DEF Base
  <2>3. CASE i \in 1 .. N
    BY <2>3, <2>1, <1>6, <1>1, <1>3 DEF StreamInv, Contiguous
  <2> QED BY <2>2, <2>3, <1>1
<1>7. ASSUME NEW i \in 1 .. N + 1, NEW j \in 1 .. N + 1, i < j PROVE EndOf(i)' <= srv'[j].start
  <2>1. i \in 1 .. N
    BY <1>7, <1>1
  <2>2. CASE j = N + 1
    BY <2>2, <2>1, <1>1, <1>2, <1>3
  <2>3. CASE j \in 1 .. N
    BY <2>3, <2>1, <1>7, <1>1, <1>3 DEF StreamInv, Contiguous
  <2> QED BY <2>2, <2>3, <1>1
<1> QED BY <1>1, <1>4, <1>5, <1>6, <1>7 DEF Contiguous, N

\* A record of the flight goes out at its turn.
LEMMA ServerFlightStep ==
    ASSUME StreamInv, profile \in Profiles, ServerFlight
    PROVE  /\ StreamInv' /\ Len(srv') = Len(srv) + 1 /\ DOMAIN srv' = 1 .. Len(srv) + 1
           /\ (\A i \in DOMAIN srv : srv'[i] = srv[i])
           /\ srv'[Len(srv) + 1].start = StreamEnd(srv)
<1> DEFINE N == Len(srv)
           r == Placed(FlightRecords[N + 1], StreamEnd(srv))
<1>1. profile' = profile /\ N < Len(FlightRecords) /\ srv' = Append(srv, r)
  BY DEF ServerFlight, Sends, Placed
<1>2. N \in Nat /\ StreamEnd(srv) \in Nat /\ DOMAIN srv = 1 .. N
  BY StreamEndFacts
<1>3. N + 1 \in 1 .. Len(FlightRecords) /\ r.n \in Nat \ {0} /\ r.start = StreamEnd(srv)
  BY <1>1, <1>2, FlightRecordShapes
<1> HIDE DEF r
<1>4. /\ srv' \in Seq(ToSet(srv')) /\ Contiguous'
      /\ Len(srv') = N + 1 /\ DOMAIN srv' = 1 .. N + 1
      /\ (\A i \in DOMAIN srv : srv'[i] = srv[i]) /\ srv'[N + 1] = r
  BY <1>1, <1>3, ContiguousStep
<1>5. FlightRecords' = FlightRecords
  BY <1>1, ProfileFrame
<1>6. Ordered'
  <2>1. \A i \in 1 .. N + 1 : i <= Len(FlightRecords)
    BY <1>1, <1>2, FlightRecordShapes
  <2>2. \A i \in 1 .. N : srv'[i] = Placed(FlightRecords[i], srv'[i].start)
    BY <1>2, <1>4, <2>1 DEF StreamInv, Ordered
  <2>3. srv'[N + 1] = Placed(FlightRecords[N + 1], srv'[N + 1].start)
    BY <1>3, <1>4 DEF r
  <2>4. \A i \in 1 .. N + 1 : i = N + 1 \/ i \in 1 .. N
    BY <1>2
  <2>5. \A i \in 1 .. N + 1 : ~(i > Len(FlightRecords))
    BY <2>1, <1>2, FlightRecordShapes
  <2>6. \A i \in 1 .. N + 1 : srv'[i] = Placed(FlightRecords[i], srv'[i].start)
    BY <2>2, <2>3, <2>4
  <2> QED BY <2>5, <2>6, <1>4, <1>5 DEF Ordered, Placed
<1> QED BY <1>3, <1>4, <1>6 DEF StreamInv

\* A later record goes out under the next nonce of the application key.
LEMMA ServerSendsStep ==
    ASSUME StreamInv, profile \in Profiles, ServerSends
    PROVE  /\ StreamInv' /\ Len(srv') = Len(srv) + 1 /\ DOMAIN srv' = 1 .. Len(srv) + 1
           /\ (\A i \in DOMAIN srv : srv'[i] = srv[i])
           /\ srv'[Len(srv) + 1].start = StreamEnd(srv)
<1> DEFINE N == Len(srv)
           F == Len(FlightRecords)
<1>1. profile' = profile /\ profile.hello = "ok" /\ N - F \in 0 .. profile.records - 1
  BY DEF ServerSends, LaterRecords
<1>2. N \in Nat /\ StreamEnd(srv) \in Nat /\ DOMAIN srv = 1 .. N /\ F \in Nat \ {0}
  BY StreamEndFacts, FlightRecordShapes
<1>3. PICK in, msgs, n :
         /\ srv' = Append(srv, Placed(Sealed("s ap traffic", N - F, in, msgs, n), StreamEnd(srv)))
         /\ n \in Nat \ {0}
         /\ \/ in = "ApplicationData" /\ msgs = << >>
            \/ in = "Handshake" /\ msgs \in {<<"NewSessionTicket">>, <<"KeyUpdate">>}
            \/ in = "Alert" /\ msgs \in {<<"CloseNotify">>, <<"InternalError">>}
  <2>1. PICK q \in {<<"ApplicationData", << >>, n>> : n \in 1 .. ReadBufLen + 1}
                   \cup {<<"Handshake", <<m>>, 2>> : m \in {"NewSessionTicket", "KeyUpdate"}}
                   \cup {<<"Alert", <<m>>, 1>> : m \in {"CloseNotify", "InternalError"}} :
             srv' = Append(srv, Placed(Sealed("s ap traffic", N - F, q[1], q[2], q[3]), StreamEnd(srv)))
    BY Zenon DEF ServerSends, Sends, Placed, LaterRecords
  <2>2. CASE q \in {<<"ApplicationData", << >>, n>> : n \in 1 .. ReadBufLen + 1}
    <3>1. PICK n \in 1 .. ReadBufLen + 1 : q = <<"ApplicationData", << >>, n>>
      BY <2>2
    <3>2. q[1] = "ApplicationData" /\ q[2] = << >> /\ q[3] = n /\ n \in Nat \ {0}
      BY <3>1, RecordSizes
    <3> QED BY <2>1, <3>2, Zenon
  <2>3. CASE q \in {<<"Handshake", <<m>>, 2>> : m \in {"NewSessionTicket", "KeyUpdate"}}
    <3>1. /\ q[1] = "Handshake" /\ (q[2] = <<"NewSessionTicket">> \/ q[2] = <<"KeyUpdate">>)
          /\ q[3] \in Nat \ {0}
      BY <2>3
    <3> QED BY <2>1, <3>1, Zenon
  <2>4. CASE q \in {<<"Alert", <<m>>, 1>> : m \in {"CloseNotify", "InternalError"}}
    <3>1. /\ q[1] = "Alert" /\ (q[2] = <<"CloseNotify">> \/ q[2] = <<"InternalError">>)
          /\ q[3] \in Nat \ {0}
      BY <2>4
    <3> QED BY <2>1, <3>1, Zenon
  <2> QED BY <2>2, <2>3, <2>4
<1> DEFINE l == "s ap traffic"
           c == N - F
           e == StreamEnd(srv)
           r == Placed(Sealed(l, c, in, msgs, n), e)
<1> HIDE DEF l, c, e
<1>4. /\ r.outer = "ApplicationData" /\ r.inner = in /\ r.nonce = <<ServerAppKey, N - F>>
      /\ r.msgs = msgs /\ r.n = n /\ r.start = StreamEnd(srv)
  <2>1. /\ r.outer = "ApplicationData" /\ r.inner = in /\ r.nonce = <<ServerKey(l), c>>
        /\ r.msgs = msgs /\ r.n = n /\ r.start = e
    BY PlacedSealed
  <2> HIDE DEF r
  <2> QED BY <2>1, Zenon DEF l, c, e, ServerAppKey
<1> HIDE DEF r
<1>5. srv' = Append(srv, r)
  BY <1>3 DEF r, l, c, e
<1>6. /\ srv' \in Seq(ToSet(srv')) /\ Contiguous'
      /\ Len(srv') = N + 1 /\ DOMAIN srv' = 1 .. N + 1
      /\ (\A i \in DOMAIN srv : srv'[i] = srv[i]) /\ srv'[N + 1] = r
  BY <1>3, <1>4, <1>5, ContiguousStep
<1>7. FlightRecords' = FlightRecords /\ ServerAppKey' = ServerAppKey
  BY <1>1, ProfileFrame
<1>8. Ordered'
  <2>1. LaterShape(r)
    BY <1>3, <1>4, Zenon DEF LaterShape
  <2>2. N + 1 > F /\ (N + 1) - F - 1 = N - F
    BY <1>1, <1>2
  <2>3. \A i \in 1 .. N + 1 : i = N + 1 \/ i \in 1 .. N
    BY <1>2
  <2>4. ASSUME NEW i \in 1 .. N + 1, i <= F PROVE srv'[i] = Placed(FlightRecords[i], srv'[i].start)
    <3>1. i \in 1 .. N
      BY <2>2, <2>3, <2>4, <1>2
    <3> QED BY <3>1, <2>4, <1>2, <1>6 DEF StreamInv, Ordered
  <2>5. ASSUME NEW i \in 1 .. N + 1, i > F
        PROVE  /\ profile.hello = "ok" /\ srv'[i].outer = "ApplicationData" /\ LaterShape(srv'[i])
               /\ srv'[i].nonce = <<ServerAppKey, i - F - 1>>
    <3>1. CASE i = N + 1
      BY <3>1, <2>1, <2>2, <1>1, <1>4, <1>6
    <3>2. CASE i \in 1 .. N
      <4>1. srv'[i] = srv[i]
        BY <3>2, <1>2, <1>6
      <4> QED BY <4>1, <3>2, <2>5, <1>2 DEF StreamInv, Ordered
    <3> QED BY <3>1, <3>2, <2>3
  <2> QED BY <2>4, <2>5, <1>1, <1>6, <1>7 DEF Ordered, Placed, LaterShape
<1> QED BY <1>4, <1>6, <1>8 DEF StreamInv

\* What no step of the client touches, and what each kind of step leaves alone.
LEMMA ClientFrames ==
    /\ OpenConnection => UNCHANGED <<profile, server, reading, writing, ks, hs, opened>>
    /\ ClientSends => UNCHANGED <<profile, server, reading, wb, written>>
    /\ HandshakeRecord => UNCHANGED <<profile, server, dec, taken, handed, wb, written, opened>>
    /\ ReaderStep => /\ UNCHANGED <<profile, server, dec, handed, writing, ks, hs, opened>>
                     /\ phase' = phase \/ phase' = "failed"
    /\ TakeStep => UNCHANGED <<profile, server, rdr, taken, rd, writing, session>>
    /\ ApplicationRecord => UNCHANGED <<profile, server, taken, handed, writing, hs>>
    /\ WriterStep => UNCHANGED <<profile, server, reading, hs, opened>>
    /\ CloseConnection => UNCHANGED <<profile, server, reading, written, hs, opened>>
<1>1. ClientSends => UNCHANGED <<profile, server, reading, wb, written>>
  <2>1. ASSUME NEW w, NEW k, NEW h, NEW p, Answer(w, k, h, p)
        PROVE  UNCHANGED <<profile, server, reading, wb, written>>
    BY <2>1, Zenon DEF Answer, respond, respond_blocking, Respond, HandshakeFails, writing
  <2>2. HandshakeFails => UNCHANGED <<profile, server, reading, wb, written>>
    BY Zenon DEF HandshakeFails, writing
  <2> QED BY <2>1, <2>2, Zenon
          DEF ClientSends, client_hello, client_cert, client_cert_verify, client_finished
<1>2. ReaderStep => /\ UNCHANGED <<profile, server, dec, handed, writing, ks, hs, opened>>
                    /\ phase' = phase \/ phase' = "failed"
  <2>1. ASSUME NEW k, HeaderPiece(k)
        PROVE  /\ UNCHANGED <<profile, server, dec, handed, writing, ks, hs, opened>>
               /\ phase' = phase \/ phase' = "failed"
    BY <2>1, Zenon DEF HeaderPiece
  <2>2. ASSUME NEW k, BodyPiece(k)
        PROVE  /\ UNCHANGED <<profile, server, dec, handed, writing, ks, hs, opened>>
               /\ phase' = phase \/ phase' = "failed"
    BY <2>2, Zenon DEF BodyPiece
  <2>3. ReadFails \/ HandshakeRead \/ CancelRead \/ ReadBuffered =>
               /\ UNCHANGED <<profile, server, dec, handed, writing, ks, hs, opened>>
               /\ phase' = phase \/ phase' = "failed"
    BY Zenon DEF ReadFails, HandshakeRead, CancelRead, ReadBuffered, session, reading
  <2> QED BY <2>1, <2>2, <2>3, Zenon DEF ReaderStep
<1>3. OpenConnection => UNCHANGED <<profile, server, reading, writing, ks, hs, opened>>
  BY Zenon DEF OpenConnection
<1>4. HandshakeRecord => UNCHANGED <<profile, server, dec, taken, handed, wb, written, opened>>
  BY Zenon DEF HandshakeRecord
<1>5. TakeStep => UNCHANGED <<profile, server, rdr, taken, rd, writing, session>>
  BY Zenon DEF TakeStep, Take
<1>6. ApplicationRecord => UNCHANGED <<profile, server, taken, handed, writing, hs>>
  BY Zenon DEF ApplicationRecord
<1>7. WriterStep => UNCHANGED <<profile, server, reading, hs, opened>>
  BY Zenon DEF WriterStep, WriteBytes, Flush
<1>8. CloseConnection => UNCHANGED <<profile, server, reading, written, hs, opened>>
  BY Zenon DEF CloseConnection
<1> QED BY <1>1, <1>2, <1>3, <1>4, <1>5, <1>6, <1>7, <1>8, Zenon

\* No step of the client changes the configuration or the server's stream.
LEMMA ClientLeavesServer ==
    ASSUME \/ OpenConnection \/ ClientSends \/ HandshakeRecord \/ ReaderStep
           \/ TakeStep \/ ApplicationRecord \/ WriterStep \/ CloseConnection
    PROVE  UNCHANGED <<profile, srv, lost>>
  BY ClientFrames, Zenon DEF server

\* The server's side of a step that is not the server's.
LEMMA StreamFrame ==
    ASSUME StreamInv, UNCHANGED <<profile, srv>>
    PROVE  StreamInv'
<1>1. FlightRecords' = FlightRecords /\ ServerAppKey' = ServerAppKey
  BY ProfileFrame
<1>2. \A i : EndOf(i)' = EndOf(i)
  BY DEF EndOf
<1>3. Contiguous'
  BY <1>2 DEF StreamInv, Contiguous
<1>4. Ordered'
  BY <1>1 DEF StreamInv, Ordered, Placed, LaterShape
<1> QED BY <1>3, <1>4 DEF StreamInv

\* The stream only grows, at its end, and stays in order.
LEMMA StreamStep ==
    ASSUME StreamInv, profile \in Profiles, Next
    PROVE  /\ StreamInv' /\ profile' = profile /\ profile' \in Profiles
           /\ Len(srv') \in Nat /\ Len(srv') >= Len(srv)
           /\ \A i \in DOMAIN srv : i \in DOMAIN srv' /\ srv'[i] = srv[i]
<1>1. Len(srv) \in Nat /\ DOMAIN srv = 1 .. Len(srv)
  BY StreamEndFacts
<1>2. CASE ServerFlight
  <2>1. profile' = profile
    BY <1>2 DEF ServerFlight
  <2> QED BY <1>1, <1>2, <2>1, ServerFlightStep
<1>3. CASE ServerSends
  <2>1. profile' = profile
    BY <1>3 DEF ServerSends
  <2> QED BY <1>1, <1>3, <2>1, ServerSendsStep
<1>4. CASE UNCHANGED <<profile, srv>>
  BY <1>4, <1>1, StreamFrame
<1>5. TransportLost => UNCHANGED <<profile, srv>>
  BY DEF TransportLost
<1> QED BY <1>2, <1>3, <1>4, <1>5, Steps, ClientLeavesServer, Zenon DEF ServerStep

-----------------------------------------------------------------------------
(* The shape of the reader.                                                *)

\* ensure_contiguous makes room when there can be room.
LEMMA ContiguousBuffer ==
    ASSUME ReaderShapes, NEW len \in Nat
    PROVE  LET q == ensure_contiguous(rdr, len)
           IN  /\ q \in Buffers /\ q.decoded + q.pending <= ReadBufLen /\ q.pending = rdr.pending
               /\ len <= ReadBufLen => q.decoded + len <= ReadBufLen
<1>0. /\ rdr \in Buffers /\ rdr.decoded + rdr.pending <= ReadBufLen
      /\ rdr.buf \in Contents /\ rdr.decoded \in Nat /\ rdr.pending \in Nat /\ ReadBufLen \in Nat
  BY RecordSizes DEF ReaderShapes, Buffers, Contents
<1>1. CASE rdr.decoded + len > ReadBufLen
  <2> DEFINE b == [i \in DOMAIN rdr.buf |-> IF i < rdr.pending THEN rdr.buf[rdr.decoded + i] ELSE rdr.buf[i]]
  <2>1. b \in Contents
    BY <1>0 DEF Contents
  <2>2. ensure_contiguous(rdr, len) = [rdr EXCEPT !.buf = b, !.decoded = 0]
    BY <1>1 DEF ensure_contiguous
  <2> HIDE DEF b
  <2>3. LET q == [rdr EXCEPT !.buf = b, !.decoded = 0]
        IN  q \in Buffers /\ q.decoded = 0 /\ q.pending = rdr.pending
    BY <2>1, <1>0 DEF Buffers
  <2> QED BY <2>2, <2>3, <1>0
<1>2. CASE ~(rdr.decoded + len > ReadBufLen)
  BY <1>2, <1>0 DEF ensure_contiguous
<1> QED BY <1>1, <1>2

\* advance stores what it reads behind what is pending and nowhere else.
LEMMA StoreBuffer ==
    ASSUME ReaderShapes, NEW k \in Nat, NEW remain \in Nat, k <= remain,
           slice_in_bounds(rdr, remain)
    PROVE  LET q == store(rdr, taken, k)
               at == rdr.decoded + rdr.pending
           IN  /\ q \in Buffers /\ q.decoded + q.pending <= ReadBufLen
               /\ q.decoded = rdr.decoded /\ q.pending = rdr.pending + k
               /\ \A i \in 0 .. ReadBufLen - 1 :
                     q.buf[i] = IF i \in at .. at + k - 1 THEN taken + 1 + (i - at) ELSE rdr.buf[i]
<1> DEFINE at == rdr.decoded + rdr.pending
           b == [i \in DOMAIN rdr.buf |->
                   IF i \in at .. at + k - 1 THEN taken + 1 + (i - at) ELSE rdr.buf[i]]
<1>0. /\ rdr \in Buffers /\ rdr.decoded + rdr.pending <= ReadBufLen /\ taken \in Nat
      /\ rdr.buf \in Contents /\ rdr.decoded \in Nat /\ rdr.pending \in Nat /\ ReadBufLen \in Nat
  BY RecordSizes DEF ReaderShapes, Buffers, Contents
<1>1. b \in Contents /\ \A i \in 0 .. ReadBufLen - 1 :
                    b[i] = IF i \in at .. at + k - 1 THEN taken + 1 + (i - at) ELSE rdr.buf[i]
  BY <1>0, SMTT(30) DEF Contents
<1>2. store(rdr, taken, k) = [rdr EXCEPT !.buf = b, !.pending = rdr.pending + k]
  BY DEF store
<1>3. rdr.decoded + (rdr.pending + k) <= ReadBufLen
  BY <1>0 DEF slice_in_bounds
<1> HIDE DEF b, at
<1>4. LET q == store(rdr, taken, k)
      IN  q \in Buffers /\ q.buf = b /\ q.decoded = rdr.decoded /\ q.pending = rdr.pending + k
  <2>1. b \in Contents /\ rdr \in Buffers /\ rdr.pending + k \in Nat
    BY <1>0, <1>1
  <2> QED BY <2>1, <1>2 DEF Buffers
<1> QED BY <1>1, <1>3, <1>4 DEF at

\* consume moves the border and leaves the units where they are.
LEMMA ConsumeBuffer ==
    ASSUME ReaderShapes, NEW len \in Nat, len <= rdr.pending
    PROVE  LET q == consume(rdr, len)
           IN  /\ q \in Buffers /\ q.decoded + q.pending <= ReadBufLen
               /\ q.buf = rdr.buf /\ q.pending = rdr.pending - len
<1>1. /\ rdr \in Buffers /\ rdr.decoded + rdr.pending <= ReadBufLen /\ ReadBufLen \in Nat
      /\ rdr.decoded \in Nat /\ rdr.pending \in Nat
  BY RecordSizes DEF ReaderShapes, Buffers, Contents
<1>2. rdr.pending - len \in Nat /\ rdr.decoded + len \in Nat
      /\ (rdr.decoded + len) + (rdr.pending - len) = rdr.decoded + rdr.pending
  BY <1>1
<1> QED BY <1>1, <1>2 DEF consume, Buffers

\* Where a read is once it is over, or begins anew.
LEMMA FinishFields ==
    ASSUME ReaderShapes, NEW at \in {"idle", "header"}
    PROVE  /\ Finish(at) \in Readings /\ Finish(at).at = at /\ Finish(at).have = 0
           /\ Finish(at).start = taken /\ Finish(at).want = 0 /\ Finish(at).cut = rd.cut
  BY DEF Finish, ReaderShapes, Readings

\* A record of the stream.
LEMMA RecordOfStream ==
    ASSUME StreamInv, NEW r \in ToSet(srv)
    PROVE  /\ r.n \in Nat \ {0} /\ r.start \in Nat
           /\ \E i \in DOMAIN srv : r = srv[i]
  BY DEF StreamInv, Contiguous, ToSet

\* The pieces of a record and the reads that begin and end.
LEMMA ReaderStepShapes ==
    ASSUME ReaderShapes, StreamInv, ReaderStep
    PROVE  ReaderShapes'
<1>0. /\ rd \in Readings /\ rdr \in Buffers /\ rdr.decoded + rdr.pending <= ReadBufLen /\ taken \in Nat
      /\ ReadBufLen \in Nat /\ HeaderLen \in Nat
  BY RecordSizes DEF ReaderShapes
<1>1. dec' = dec
  BY ClientFrames
<1>2. ASSUME NEW k \in 1 .. HeaderLen, HeaderPiece(k) PROVE rd' \in Readings /\ rdr' \in Buffers
                 /\ rdr'.decoded + rdr'.pending <= ReadBufLen /\ taken' \in Nat
  <2>1. taken' \in Nat /\ rd.have + k \in Nat
    <3>1. taken' = taken + k
      BY <1>2, Zenon DEF HeaderPiece
    <3> QED BY <3>1, <1>0 DEF Readings
  <2>2. CASE rd' = rd /\ rdr' = rdr
    BY <2>1, <2>2, <1>0
  <2>3. CASE rd' = [rd EXCEPT !.have = @ + k] /\ rdr' = rdr
    BY <2>1, <2>3, <1>0 DEF Readings
  <2>4. ASSUME NEW len \in Lengths(rd.start), rd' = [rd EXCEPT !.at = "body", !.have = 0, !.want = len],
               rdr' = ensure_contiguous(rdr, len)
        PROVE  rd' \in Readings /\ rdr' \in Buffers /\ rdr'.decoded + rdr'.pending <= ReadBufLen
    <3>1. len \in Nat
      <4>1. CASE HeaderOf(rd.start) = {}
        BY <4>1, <2>4, <1>0 DEF Lengths
      <4>2. CASE HeaderOf(rd.start) # {}
        BY <4>2, <2>4, RecordOfStream DEF Lengths, HeaderOf
      <4> QED BY <4>1, <4>2
    <3>2. rd' \in Readings
      BY <2>4, <3>1, <1>0 DEF Readings
    <3> QED BY <2>4, <3>1, <3>2, ContiguousBuffer
  <2>5. \/ rd' = [rd EXCEPT !.have = @ + k] /\ rdr' = rdr
        \/ \E len \in Lengths(rd.start) :
              rd' = [rd EXCEPT !.at = "body", !.have = 0, !.want = len] /\ rdr' = ensure_contiguous(rdr, len)
        \/ rd' = rd /\ rdr' = rdr
    BY <1>2, Zenon DEF HeaderPiece
  <2> QED BY <2>1, <2>2, <2>3, <2>4, <2>5
<1>3. ASSUME NEW k \in 1 .. ReadBufLen, BodyPiece(k) PROVE rd' \in Readings /\ rdr' \in Buffers
                 /\ rdr'.decoded + rdr'.pending <= ReadBufLen /\ taken' \in Nat
  <2>1. CASE rdr' = rdr /\ taken' = taken /\ rd' = rd
    BY <2>1, <1>0
  <2>2. CASE /\ slice_in_bounds(rdr, rd.want - rd.have) /\ k \in 1 .. rd.want - rd.have
             /\ rdr' = store(rdr, taken, k) /\ taken' = taken + k /\ rd' = [rd EXCEPT !.have = @ + k]
    <3>1. rd.want - rd.have \in Nat /\ k \in Nat /\ k <= rd.want - rd.have
      BY <2>2, <1>0 DEF Readings
    <3>2. rdr' \in Buffers /\ rdr'.decoded + rdr'.pending <= ReadBufLen
      BY <2>2, <3>1, StoreBuffer
    <3>3. rd' \in Readings /\ taken' \in Nat
      BY <2>2, <3>1, <1>0 DEF Readings
    <3> QED BY <3>2, <3>3
  <2> QED BY <1>3, <2>1, <2>2, Zenon DEF BodyPiece
<1>4. ASSUME ReadFails PROVE rd' = rd /\ rdr' = rdr /\ taken' = taken
  BY <1>4 DEF ReadFails, reading
<1>5. ASSUME HandshakeRead PROVE rd' \in Readings /\ rdr' = rdr /\ taken' = taken
  BY <1>0, <1>5 DEF HandshakeRead, Readings
<1>6. ASSUME ReadBuffered PROVE rd' \in Readings /\ rdr' = rdr /\ taken' = taken
  BY <1>6, FinishFields DEF ReadBuffered
<1>7. ASSUME CancelRead PROVE rd' \in Readings /\ rdr' = rdr /\ taken' = taken
  <2>1. Finish("idle") \in Readings
    BY FinishFields
  <2>2. (rd.cut \/ rd.at = "body" \/ rd.have > 0) \in BOOLEAN
    OBVIOUS
  <2>3. rd' = [Finish("idle") EXCEPT !.cut = rd.cut \/ rd.at = "body" \/ rd.have > 0]
    BY <1>7 DEF CancelRead
  <2>4. rd' \in Readings
    BY <2>1, <2>2, <2>3 DEF Readings
  <2> QED BY <1>7, <2>4 DEF CancelRead
<1>8. rd' \in Readings /\ rdr' \in Buffers /\ rdr'.decoded + rdr'.pending <= ReadBufLen /\ taken' \in Nat
  BY <1>0, <1>2, <1>3, <1>4, <1>5, <1>6, <1>7 DEF ReaderStep
<1> QED BY <1>1, <1>8 DEF ReaderShapes

\* What becomes of a record that is there.
RecordOutcome ==
    \/ GenuineRecord = {} /\ HandleGarbage
    \/ \E r \in GenuineRecord : HandleRecord(r)

\* A record after the handshake: the read ends, or goes on to the next one.
LEMMA RecordSteps ==
    ASSUME ApplicationRecord
    PROVE  /\ RecordWhole /\ phase = "up" /\ rdr' = consume(rdr, rd.want)
           /\ IF dec_is_empty(dec') /\ phase' = "up" THEN rd' = Finish("header") ELSE rd' = Finish("idle")
           /\ RecordOutcome
<1>1. RecordWhole /\ phase = "up" /\ rdr' = consume(rdr, rd.want)
  BY Zenon DEF ApplicationRecord
<1>2. IF dec_is_empty(dec') /\ phase' = "up" THEN rd' = Finish("header") ELSE rd' = Finish("idle")
  BY Zenon DEF ApplicationRecord
<1>3. RecordOutcome
  BY Zenon DEF ApplicationRecord, RecordOutcome
<1> QED BY <1>1, <1>2, <1>3, Zenon

\* The window after a caller took some of it.
LEMMA TakeWindow ==
    ASSUME dec \in [offset : Nat, len : Nat, consumed : Nat], dec.consumed <= dec.len,
           NEW after \in {pop(dec, 1), pop(dec, 2), drop_unused(dec)}
    PROVE  /\ after \in [offset : Nat, len : Nat, consumed : Nat]
           /\ after.offset = dec.offset /\ after.len = dec.len
           /\ after.consumed \in dec.consumed .. dec.len
<1>1. /\ dec.offset \in Nat /\ dec.len \in Nat /\ dec.consumed \in Nat
      /\ dec_len(dec) \in Nat /\ dec.consumed + dec_len(dec) = dec.len
  BY DEF dec_len
<1>2. ASSUME NEW c \in Nat, after = pop(dec, c)
      PROVE  \E x \in dec.consumed .. dec.len : after = [dec EXCEPT !.consumed = x]
  <2> DEFINE x == dec.consumed + IF c < dec_len(dec) THEN c ELSE dec_len(dec)
  <2>1. x \in dec.consumed .. dec.len
    BY <1>1
  <2>2. after = [dec EXCEPT !.consumed = x]
    BY <1>2, Zenon DEF pop
  <2> QED BY <2>1, <2>2
<1>3. CASE after = drop_unused(dec)
  BY <1>1, <1>3 DEF drop_unused
<1>4. ASSUME NEW x \in dec.consumed .. dec.len, after = [dec EXCEPT !.consumed = x]
      PROVE  /\ after \in [offset : Nat, len : Nat, consumed : Nat]
             /\ after.offset = dec.offset /\ after.len = dec.len /\ after.consumed = x
  BY <1>1, <1>4
<1> QED BY <1>2, <1>3, <1>4

\* The reader keeps its shape: nothing lies outside the buffer, and no more is
\* consumed of the window than it holds.
LEMMA ReaderShapesStep ==
    ASSUME ReaderShapes, StreamInv, Next
    PROVE  ReaderShapes'
<1>0. /\ rd \in Readings /\ rdr \in Buffers /\ rdr.decoded + rdr.pending <= ReadBufLen /\ taken \in Nat
      /\ dec \in [offset : Nat, len : Nat, consumed : Nat] /\ dec.consumed <= dec.len
      /\ rdr.decoded \in Nat /\ rdr.pending \in Nat /\ rd.want \in Nat
  BY DEF ReaderShapes, Readings, Buffers
<1>1. ASSUME UNCHANGED <<rd, rdr, dec, taken>> PROVE ReaderShapes'
  BY <1>1 DEF ReaderShapes
<1>2. CASE TakeStep
  <2>1. PICK after \in {pop(dec, 1), pop(dec, 2), drop_unused(dec)} : dec' = after
    BY <1>2, Zenon DEF TakeStep, Take
  <2>2. dec' \in [offset : Nat, len : Nat, consumed : Nat] /\ dec'.consumed <= dec'.len
    BY <2>1, <1>0, TakeWindow
  <2>3. UNCHANGED <<rd, rdr, taken>>
    BY <1>2, ClientFrames
  <2> QED BY <2>2, <2>3, <1>0 DEF ReaderShapes
<1>3. ASSUME RecordWhole, rdr' = consume(rdr, rd.want), taken' = taken,
             rd' = Finish("idle") \/ rd' = Finish("header"),
             dec' \in [offset : Nat, len : Nat, consumed : Nat], dec'.consumed <= dec'.len
      PROVE  ReaderShapes'
  <2>1. rd.want <= rdr.pending
    BY <1>0, <1>3 DEF RecordWhole
  <2>2. rdr' \in Buffers /\ rdr'.decoded + rdr'.pending <= ReadBufLen
    BY <1>0, <1>3, <2>1, ConsumeBuffer
  <2>3. rd' \in Readings
    BY <1>3, FinishFields
  <2> QED BY <1>0, <1>3, <2>2, <2>3 DEF ReaderShapes
<1>4. CASE HandshakeRecord
  <2>1. RecordWhole /\ rdr' = consume(rdr, rd.want) /\ rd' = Finish("idle") /\ taken' = taken /\ dec' = dec
    BY <1>4, Zenon DEF HandshakeRecord
  <2> QED BY <1>0, <1>3, <2>1
<1>5. CASE ApplicationRecord
  <2>1. RecordWhole /\ rdr' = consume(rdr, rd.want) /\ (rd' = Finish("idle") \/ rd' = Finish("header"))
    BY <1>5, RecordSteps, Zenon
  <2>2. taken' = taken
    BY <1>5, ClientFrames
  <2>3. \/ dec' = dec
        \/ \E r \in GenuineRecord : dec' = handle_application_data(rdr.decoded, r.n - 1)
    BY <1>5, RecordSteps, Zenon DEF RecordOutcome, HandleRecord, HandleGarbage, Ends
  <2>4. \A r \in GenuineRecord : r.n - 1 \in Nat
    BY RecordOfStream DEF GenuineRecord, HeaderOf
  <2>5. dec' \in [offset : Nat, len : Nat, consumed : Nat] /\ dec'.consumed <= dec'.len
    BY <1>0, <2>3, <2>4 DEF handle_application_data
  <2> QED BY <1>3, <2>1, <2>2, <2>5
<1>6. ServerStep \/ OpenConnection \/ ClientSends \/ WriterStep \/ CloseConnection
         => UNCHANGED <<rd, rdr, dec, taken>>
  <2>1. ServerStep => UNCHANGED reading
    BY Zenon DEF ServerStep, ServerFlight, ServerSends, TransportLost
  <2>2. OpenConnection \/ ClientSends \/ WriterStep \/ CloseConnection => UNCHANGED reading
    BY ClientFrames, Zenon
  <2> QED BY <2>1, <2>2, Zenon DEF reading
<1> QED BY <1>1, <1>2, <1>4, <1>5, <1>6, Steps, ReaderStepShapes, Zenon

-----------------------------------------------------------------------------
(* The caller's units.                                                     *)

\* The places of the units, one by one.
LEMMA PlaceFacts ==
    ASSUME NEW o, NEW d, NEW p
    PROVE  p \in PlacesIn(o, d) <=>
              \/ \E i \in DOMAIN o : /\ o[i].inner = "ApplicationData"
                                     /\ \E k \in DOMAIN o[i].data : p = <<i, k>>
              \/ \E k \in DOMAIN d : p = <<Len(o) + 1, k>>
<1> DEFINE L == Len(o) + 1
           A == {j \in DOMAIN o : o[j].inner = "ApplicationData"}
<1> HIDE DEF L
<1>2. p \in UNION {{i} \X DOMAIN o[i].data : i \in A} <=>
         \E i \in A : \E k \in DOMAIN o[i].data : p = <<i, k>>
  <2>1. p \in UNION {{i} \X DOMAIN o[i].data : i \in A} <=> \E i \in A : p \in {i} \X DOMAIN o[i].data
    BY Zenon
  <2>2. ASSUME NEW i \in A
        PROVE  p \in {i} \X DOMAIN o[i].data <=> \E k \in DOMAIN o[i].data : p = <<i, k>>
    OBVIOUS
  <2> HIDE DEF A
  <2> QED BY <2>1, <2>2, Zenon
<1>3. PlacesIn(o, d) = (UNION {{i} \X DOMAIN o[i].data : i \in A}) \cup ({L} \X DOMAIN d)
  BY Zenon DEF PlacesIn, L
<1>4. p \in PlacesIn(o, d) <=>
         \/ \E i \in A : \E k \in DOMAIN o[i].data : p = <<i, k>>
         \/ \E k \in DOMAIN d : p = <<L, k>>
  <2>1. p \in {L} \X DOMAIN d <=> \E k \in DOMAIN d : p = <<L, k>>
    OBVIOUS
  <2> HIDE DEF A
  <2> QED BY <2>1, <1>2, <1>3, Zenon
<1> QED BY <1>4 DEF L

\* Units written go behind the others in the buffer.
LEMMA UnitsWritten ==
    ASSUME NEW o, o \in Seq(ToSet(o)), NEW d \in Seq(Nat), NEW n \in Nat, UnitsIn(o, d, n),
           NEW e \in Seq(Nat), Len(e) >= Len(d),
           \A k \in 1 .. Len(d) : e[k] = d[k],
           \A k \in Len(d) + 1 .. Len(e) : e[k] = n + (k - Len(d))
    PROVE  UnitsIn(o, e, n + (Len(e) - Len(d)))
<1> DEFINE L == Len(o)
           m == n + (Len(e) - Len(d))
           O == {i \in DOMAIN o : o[i].inner = "ApplicationData"}
<1>1. L \in Nat /\ DOMAIN o = 1 .. L /\ DOMAIN d = 1 .. Len(d) /\ DOMAIN e = 1 .. Len(e)
      /\ Len(d) \in Nat /\ Len(e) \in Nat /\ m \in Nat /\ n <= m
  OBVIOUS
<1>2. ASSUME NEW p \in PlacesIn(o, d)
      PROVE  p \in PlacesIn(o, e) /\ UnitIn(o, e, p) = UnitIn(o, d, p) /\ UnitIn(o, d, p) \in 1 .. n
  <2>1. UnitIn(o, d, p) \in 1 .. n
    BY <1>2 DEF UnitsIn
  <2>2. CASE \E i \in DOMAIN o : /\ o[i].inner = "ApplicationData"
                                 /\ \E k \in DOMAIN o[i].data : p = <<i, k>>
    <3>1. p \in PlacesIn(o, e)
      BY <2>2, PlaceFacts, Zenon
    <3>2. p[1] <= L
      BY <2>2, <1>1
    <3> QED BY <3>1, <3>2, <2>1 DEF UnitIn
  <2>3. CASE \E k \in DOMAIN d : p = <<L + 1, k>>
    <3>1. PICK k \in DOMAIN d : p = <<L + 1, k>>
      BY <2>3
    <3>2. k \in DOMAIN e /\ e[k] = d[k] /\ ~(p[1] <= L) /\ p[2] = k
      BY <3>1, <1>1
    <3>3. p \in PlacesIn(o, e)
      BY <3>1, <3>2, PlaceFacts, Zenon
    <3> QED BY <3>2, <3>3, <2>1 DEF UnitIn
  <2> QED BY <1>2, <2>2, <2>3, PlaceFacts
<1>3. ASSUME NEW p \in PlacesIn(o, e), p \notin PlacesIn(o, d)
      PROVE  \E k \in Len(d) + 1 .. Len(e) :
                p = <<L + 1, k>> /\ UnitIn(o, e, p) = n + (k - Len(d))
  <2>1. PICK k \in DOMAIN e : p = <<L + 1, k>> /\ k \notin DOMAIN d
    BY <1>3, PlaceFacts
  <2>2. k \in Len(d) + 1 .. Len(e) /\ ~(p[1] <= L) /\ p[2] = k
    BY <2>1, <1>1
  <2> QED BY <2>1, <2>2 DEF UnitIn
<1>4. {UnitIn(o, e, p) : p \in PlacesIn(o, e)} = 1 .. m
  <2>1. ASSUME NEW p \in PlacesIn(o, e) PROVE UnitIn(o, e, p) \in 1 .. m
    <3>1. CASE p \in PlacesIn(o, d)
      BY <3>1, <1>1, <1>2
    <3>2. CASE p \notin PlacesIn(o, d)
      BY <3>2, <1>1, <1>3
    <3> QED BY <3>1, <3>2
  <2>2. ASSUME NEW u \in 1 .. m PROVE \E p \in PlacesIn(o, e) : u = UnitIn(o, e, p)
    <3>1. CASE u \in 1 .. n
      BY <3>1, <1>2 DEF UnitsIn
    <3>2. CASE u \notin 1 .. n
      <4> DEFINE k == u - n + Len(d)
                 p == <<L + 1, k>>
      <4>1. k \in Len(d) + 1 .. Len(e) /\ k \in DOMAIN e /\ n + (k - Len(d)) = u
        BY <3>2, <1>1
      <4>2. e[k] = u
        BY <4>1
      <4>3. ~(p[1] <= L) /\ p[2] = k
        BY <1>1
      <4>4. p \in PlacesIn(o, e)
        BY <4>1, PlaceFacts
      <4> QED BY <4>2, <4>3, <4>4 DEF UnitIn
    <3> QED BY <3>1, <3>2
  <2> QED BY <2>1, <2>2
<1>5. ASSUME NEW p \in PlacesIn(o, e), NEW q \in PlacesIn(o, e), Earlier(p, q)
      PROVE  UnitIn(o, e, p) < UnitIn(o, e, q)
  <2>1. CASE p \in PlacesIn(o, d) /\ q \in PlacesIn(o, d)
    BY <2>1, <1>2, <1>5 DEF UnitsIn
  <2>2. CASE p \in PlacesIn(o, d) /\ q \notin PlacesIn(o, d)
    BY <2>2, <1>1, <1>2, <1>3
  <2>3. CASE p \notin PlacesIn(o, d)
    <3>1. PICK k \in Len(d) + 1 .. Len(e) : p = <<L + 1, k>> /\ UnitIn(o, e, p) = n + (k - Len(d))
      BY <2>3, <1>3
    <3>2. p[1] = L + 1 /\ p[2] = k
      BY <3>1
    <3>3. PICK i, j : q = <<i, j>> /\ (i \in 1 .. L \/ (i = L + 1 /\ j \in 1 .. Len(e)))
      BY PlaceFacts, <1>1
    <3>4. q[1] = i /\ q[2] = j
      BY <3>3
    <3>5. i = L + 1 /\ j \in 1 .. Len(e) /\ k < j
      BY <1>5, <1>1, <3>2, <3>3, <3>4 DEF Earlier
    <3>6. ~(q[1] <= L) /\ j \in Len(d) + 1 .. Len(e)
      BY <3>4, <3>5, <1>1, SMTT(30)
    <3>7. UnitIn(o, e, q) = n + (j - Len(d))
      BY <3>4, <3>6 DEF UnitIn
    <3> QED BY <3>1, <3>5, <3>7, <1>1
  <2> QED BY <2>1, <2>2, <2>3
<1> QED BY <1>4, <1>5 DEF UnitsIn

\* The buffer goes out as a record: every unit keeps its place.
LEMMA UnitsFlushed ==
    ASSUME NEW o, o \in Seq(ToSet(o)), NEW d \in Seq(Nat), NEW n, UnitsIn(o, d, n),
           NEW r, \/ r.inner = "ApplicationData" /\ r.data = d
                  \/ r.inner # "ApplicationData" /\ d = << >>
    PROVE  UnitsIn(Append(o, r), << >>, n)
<1> DEFINE L == Len(o)
           a == Append(o, r)
<1>1. /\ L \in Nat /\ DOMAIN o = 1 .. L /\ DOMAIN a = 1 .. L + 1 /\ Len(a) = L + 1
      /\ (\A i \in 1 .. L : a[i] = o[i]) /\ a[L + 1] = r
  BY AppendAny
<1>2. DOMAIN << >> = {}
  OBVIOUS
<1> HIDE DEF a
<1>3. PlacesIn(a, << >>) = PlacesIn(o, d)
  <2>1. ASSUME NEW p \in PlacesIn(a, << >>) PROVE p \in PlacesIn(o, d)
    <3>1. PICK i \in DOMAIN a : a[i].inner = "ApplicationData" /\ \E k \in DOMAIN a[i].data : p = <<i, k>>
      BY <1>2, PlaceFacts
    <3>2. CASE i \in 1 .. L
      BY <3>1, <3>2, <1>1, PlaceFacts
    <3>3. CASE i = L + 1
      BY <3>1, <3>3, <1>1, PlaceFacts
    <3> QED BY <3>2, <3>3, <1>1
  <2>2. ASSUME NEW p \in PlacesIn(o, d) PROVE p \in PlacesIn(a, << >>)
    <3>1. CASE \E i \in DOMAIN o : o[i].inner = "ApplicationData" /\ \E k \in DOMAIN o[i].data : p = <<i, k>>
      <4>1. PICK i \in DOMAIN o : o[i].inner = "ApplicationData" /\ \E k \in DOMAIN o[i].data : p = <<i, k>>
        BY <3>1
      <4>2. i \in DOMAIN a /\ a[i] = o[i]
        BY <1>1, <4>1
      <4> QED BY <4>1, <4>2, PlaceFacts
    <3>2. CASE \E k \in DOMAIN d : p = <<L + 1, k>>
      <4>1. d # << >> /\ L + 1 \in DOMAIN a
        BY <3>2, <1>1, <1>2
      <4> QED BY <3>2, <4>1, <1>1, PlaceFacts
    <3> QED BY <3>1, <3>2, PlaceFacts
  <2> QED BY <2>1, <2>2
<1>4. ASSUME NEW p \in PlacesIn(o, d) PROVE UnitIn(a, << >>, p) = UnitIn(o, d, p)
  <2>1. CASE \E i \in DOMAIN o : \E k : p = <<i, k>>
    BY <2>1, <1>1 DEF UnitIn
  <2>2. CASE \E k \in DOMAIN d : p = <<L + 1, k>>
    <3>1. d # << >> /\ p[1] = L + 1
      BY <2>2, <1>2
    <3> QED BY <3>1, <1>1 DEF UnitIn
  <2> QED BY <2>1, <2>2, PlaceFacts
<1> QED BY <1>3, <1>4 DEF UnitsIn, a

-----------------------------------------------------------------------------
(* The records sent.                                                       *)

\* What the client has to say before its Finished.
LEMMA ClientMessagesFacts ==
    /\ ClientMessages \in Seq(Messages) /\ Len(ClientMessages) \in 0 .. 2
    /\ FinishedIndex = Len(ClientMessages) + 2 /\ FinishedIndex \in 2 .. 4
    /\ ~profile.request => ClientMessages = << >>
    /\ profile.request /\ profile.client = "none" => ClientMessages = <<"ClientCertificate">>
    /\ profile.request /\ profile.client # "none" =>
          ClientMessages = <<"ClientCertificate", "ClientCertificateVerify">>
<1>1. CASE ~profile.request
  BY <1>1 DEF ClientMessages, FinishedIndex
<1>2. CASE profile.request /\ profile.client = "none"
  <2>1. ClientMessages = <<"ClientCertificate">>
    BY <1>2 DEF ClientMessages
  <2>2. ClientMessages \in Seq(Messages)
    BY <2>1 DEF Messages
  <2> QED BY <1>2, <2>1, <2>2 DEF FinishedIndex
<1>3. CASE profile.request /\ profile.client # "none"
  <2>1. ClientMessages = <<"ClientCertificate", "ClientCertificateVerify">>
    BY <1>3 DEF ClientMessages
  <2>2. ClientMessages \in Seq(Messages)
    BY <2>1 DEF Messages
  <2> QED BY <1>3, <2>1, <2>2 DEF FinishedIndex
<1> QED BY <1>1, <1>2, <1>3

\* A record more, with the nonce that is next.
LEMMA RecordSent ==
    ASSUME NEW o, o \in Seq(ToSet(o)), NonceIn(o, TRUE), FinishedIn(o),
           NEW r, NEW running,
           \/ r.nonce = NoSecret /\ (Len(o) = 0 \/ ~running)
           \/ Len(o) + 1 \in 2 .. FinishedIndex /\ r.nonce = <<ClientHsKey, Len(o) - 1>>
           \/ Len(o) >= FinishedIndex /\ r.nonce = <<ClientAppKey, Len(o) - FinishedIndex>>,
           Len(o) + 1 = FinishedIndex => r.inner = "Alert" \/ r.data = ExpectedFinished,
           Len(o) = 0 /\ profile.psk => r.data[2] = ExpectedBinder
    PROVE  NonceIn(Append(o, r), running) /\ FinishedIn(Append(o, r))
<1> DEFINE L == Len(o)
           a == Append(o, r)
<1>1. /\ L \in Nat /\ DOMAIN o = 1 .. L /\ DOMAIN a = 1 .. L + 1 /\ Len(a) = L + 1
      /\ (\A i \in 1 .. L : a[i] = o[i]) /\ a[L + 1] = r
  BY AppendAny
<1>2. FinishedIndex \in 2 .. 4
  BY ClientMessagesFacts
<1> HIDE DEF a, L
<1>3. ASSUME NEW i \in 1 .. L + 1
      PROVE  \/ a[i].nonce = NoSecret /\ (i = 1 \/ (i = L + 1 /\ ~running))
             \/ i \in 2 .. FinishedIndex /\ a[i].nonce = <<ClientHsKey, i - 2>>
             \/ i > FinishedIndex /\ a[i].nonce = <<ClientAppKey, i - FinishedIndex - 1>>
  <2>1. CASE i \in 1 .. L
    BY <2>1, <1>1, <1>2 DEF NonceIn
  <2>2. CASE i = L + 1
    <3>1. /\ L + 1 - 2 = L - 1 /\ (L + 1) - FinishedIndex - 1 = L - FinishedIndex
          /\ L + 1 > FinishedIndex <=> L >= FinishedIndex
      BY <1>1, <1>2
    <3>2. a[i] = r
      BY <2>2, <1>1
    <3>3. CASE r.nonce = NoSecret /\ (L = 0 \/ ~running)
      BY <3>2, <3>3, <2>2
    <3>4. CASE L + 1 \in 2 .. FinishedIndex /\ r.nonce = <<ClientHsKey, L - 1>>
      <4>1. i \in 2 .. FinishedIndex /\ i - 2 = L - 1
        BY <3>4, <2>2, <1>1
      <4> QED BY <4>1, <3>2, <3>4, Zenon
    <3>5. CASE L >= FinishedIndex /\ r.nonce = <<ClientAppKey, L - FinishedIndex>>
      BY <3>1, <3>2, <3>5, <2>2
    <3> QED BY <3>3, <3>4, <3>5 DEF L
  <2> QED BY <1>1, <2>1, <2>2
<1>4. NonceIn(a, running)
  BY <1>1, <1>3 DEF NonceIn
<1>5. FinishedIn(a)
  <2>1. CASE L = 0
    BY <2>1, <1>1, <1>2 DEF FinishedIn, L
  <2>2. CASE L > 0
    <3>1. 1 \in DOMAIN o /\ a[1] = o[1]
      BY <2>2, <1>1
    <3>2. FinishedIndex \in DOMAIN a => FinishedIndex = L + 1 \/ FinishedIndex \in DOMAIN o
      BY <1>1, <1>2
    <3> QED BY <3>1, <3>2, <1>1 DEF FinishedIn, L
  <2> QED BY <2>1, <2>2, <1>1
<1> QED BY <1>4, <1>5 DEF a

\* The same of the next state, where the profile is the same.
LEMMA RecordsFrame ==
    ASSUME profile' = profile
    PROVE  /\ NonceInv' <=> NonceIn(out', Running')
           /\ FinishedInv' <=> FinishedIn(out')
  BY ProfileFrame DEF NonceInv, FinishedInv, NonceIn, FinishedIn

\* write_record into an empty buffer.
LEMMA WriteRecord ==
    ASSUME NEW k, NEW kind, NEW enc, NEW m
    PROVE  LET w == write_record(WriteBuffer_new, k, header(kind, enc), m)
           IN  /\ w.ok /\ w.record.inner = kind /\ w.record.data = <<m>>
               /\ w.record.nonce = IF enc THEN get_nonce(k.write) ELSE NoSecret
               /\ w.ks = IF kind = "Handshake" THEN Hashed(k, m) ELSE k
<1> DEFINE h == header(kind, enc)
           full == [start_record(WriteBuffer_new, h) EXCEPT !.data = <<m>>]
           w == write_record(WriteBuffer_new, k, h, m)
<1>1. h.kind = kind /\ h.encrypted = enc
  BY DEF header
<1>2. full.header = h /\ full.data = <<m>>
  BY Z3T(30) DEF start_record, WriteBuffer_new
<1>3. w.ok /\ w.record = encrypt(k, full)
  BY DEF write_record, WriteBuffer_new
<1>4. w.ks = IF kind = "Handshake" THEN Hashed(k, m) ELSE k
  BY <1>1, Zenon DEF write_record, Hashed
<1> HIDE DEF full, h
<1>5. /\ encrypt(k, full).inner = full.header.kind /\ encrypt(k, full).data = full.data
      /\ encrypt(k, full).nonce = IF full.header.encrypted THEN get_nonce(k.write) ELSE NoSecret
  BY DEF encrypt
<1> HIDE DEF w
<1>6. /\ w.ok /\ w.record.inner = kind /\ w.record.data = <<m>>
      /\ w.record.nonce = IF enc THEN get_nonce(k.write) ELSE NoSecret
  BY <1>1, <1>2, <1>3, <1>5
<1> QED BY <1>4, <1>6 DEF w, h

\* The hello with a PSK: the binder goes behind the rest.
LEMMA Finalize ==
    ASSUME NEW k, NEW m
    PROVE  LET w == write_record(WriteBuffer_new, k, header("Handshake", FALSE), m)
               f == finalize(w)
           IN  /\ f.ok /\ f.ks = w.ks
               /\ f.record.inner = "Handshake" /\ f.record.nonce = NoSecret
               /\ profile.psk => f.record.data[2] = create_psk_binder(w.ks, Truncated)
<1> DEFINE w == write_record(WriteBuffer_new, k, header("Handshake", FALSE), m)
           b == create_psk_binder(w.ks, Truncated)
           f == finalize(w)
<1>1. w.ok /\ w.record.inner = "Handshake" /\ w.record.data = <<m>> /\ w.record.nonce = NoSecret
  <2> DEFINE kind == "Handshake"
             enc == FALSE
             v == write_record(WriteBuffer_new, k, header(kind, enc), m)
  <2> HIDE DEF kind, enc
  <2>1. /\ v.ok /\ v.record.inner = kind /\ v.record.data = <<m>>
        /\ v.record.nonce = IF enc THEN get_nonce(k.write) ELSE NoSecret
    BY WriteRecord
  <2> QED BY <2>1, Zenon DEF kind, enc
<1>2. "record" \in DOMAIN w /\ "data" \in DOMAIN w.record
  BY DEF write_record, encrypt
<1>3. CASE ~profile.psk
  BY <1>1, <1>3 DEF finalize
<1>4. CASE profile.psk
  <2>1. f = [w EXCEPT !.record.data = Append(w.record.data, b)]
    BY <1>4, Zenon DEF finalize
  <2> HIDE DEF w, f, b
  <2>2. f.ok = w.ok /\ f.ks = w.ks /\ f.record = [w.record EXCEPT !.data = Append(w.record.data, b)]
    BY <1>2, <2>1
  <2>3. /\ f.record.data = Append(w.record.data, b)
        /\ f.record.inner = w.record.inner /\ f.record.nonce = w.record.nonce
    BY <1>2, <2>2
  <2>4. Append(<<m>>, b)[2] = b
    OBVIOUS
  <2> QED BY <1>1, <2>2, <2>3, <2>4, ZenonT(30) DEF b, w, f
<1> QED BY <1>3, <1>4

\* An answer is sent and counted, or the transport is gone and the connection
\* with it.
LEMMA AnswerEffect ==
    ASSUME NEW w, NEW k, NEW h, NEW p, Answer(w, k, h, p)
    PROVE  \/ /\ lost \/ ~w.ok
              /\ phase' = "failed" /\ out' = out /\ ks' = ks /\ hs' = hs /\ opened' = FALSE
           \/ out' = Append(out, w.record) /\ ks' = k /\ hs' = h /\ phase' = p /\ opened' = (p = "up")
<1>1. CASE ~w.ok
  BY <1>1, Zenon DEF Answer, HandshakeFails, writing
<1>2. CASE w.ok
  <2>1. Respond(w.record, k, h, p)
    BY <1>2, Zenon DEF Answer, respond, respond_blocking
  <2>2. CASE lost
    BY <2>1, <2>2 DEF Respond
  <2>3. CASE ~lost
    BY <2>1, <2>3 DEF Respond
  <2> QED BY <2>2, <2>3
<1> QED BY <1>1, <1>2

\* A step that fails before it sends.
LEMMA FailsEffect ==
    HandshakeFails => phase' = "failed" /\ out' = out /\ ks' = ks /\ hs' = hs /\ opened' = FALSE
  BY Zenon DEF HandshakeFails, writing

\* The transcript that is set aside is no empty place.
LEMMA TranscriptIsHash == ServerTranscript # NoSecret
<1>1. ServerTranscript[1] = "ClientHello"
  BY TranscriptFacts DEF HelloTranscript
<1>2. NoSecret[1] = "uninitialized"
  BY DEF NoSecret
<1> QED BY <1>1, <1>2

\* A message in an encrypted record.
SealedRecord(k, kind, m) == write_record(WriteBuffer_new, k, header(kind, TRUE), m)

\* A message of the handshake, and an alert, in an encrypted record.
LEMMA WriteSealed ==
    ASSUME NEW k, NEW m, NEW kind, kind \in {"Handshake", "Alert"}
    PROVE  /\ SealedRecord(k, kind, m).ok /\ SealedRecord(k, kind, m).record.inner = kind
           /\ SealedRecord(k, kind, m).record.data = <<m>>
           /\ SealedRecord(k, kind, m).record.nonce = <<k.write.key, k.write.counter>>
           /\ kind = "Handshake" => SealedRecord(k, kind, m).ks = Hashed(k, m)
           /\ kind = "Alert" => SealedRecord(k, kind, m).ks = k
<1> DEFINE enc == TRUE
           w == write_record(WriteBuffer_new, k, header(kind, enc), m)
<1> HIDE DEF enc
<1>1. /\ w.ok /\ w.record.inner = kind /\ w.record.data = <<m>>
      /\ w.record.nonce = IF enc THEN get_nonce(k.write) ELSE NoSecret
      /\ w.ks = IF kind = "Handshake" THEN Hashed(k, m) ELSE k
  BY WriteRecord
<1>2. kind = "Alert" => kind # "Handshake"
  OBVIOUS
<1> HIDE DEF w
<1>3. /\ w.ok /\ w.record.inner = kind /\ w.record.data = <<m>>
      /\ w.record.nonce = <<k.write.key, k.write.counter>>
      /\ kind = "Handshake" => w.ks = Hashed(k, m)
      /\ kind = "Alert" => w.ks = k
  BY <1>1, <1>2, Zenon DEF enc, get_nonce
<1>4. SealedRecord(k, kind, m) = w
  BY Zenon DEF SealedRecord, w, enc
<1> QED BY <1>3, <1>4

-----------------------------------------------------------------------------
(* The sender.                                                             *)

\* The stage of the keys as long as the client does nothing.
LEMMA KeyFrame ==
    ASSUME KeyInv, UNCHANGED <<profile, ks, hs, out>>, profile \in Profiles,
           Len(srv) \in Nat, Len(srv') \in Nat, Len(srv') >= Len(srv)
    PROVE  KeyInv'
<1>1. FlightDone => FlightDone'
  BY ProfileFrame, FlightRecordShapes DEF FlightDone
<1>2. \A t, w, r : HandshakeKeys(t, w, r)' = HandshakeKeys(t, w, r)
  BY ProfileFrame DEF HandshakeKeys, Keys
<1>3. \A t, w, r : AppKeys(t, w, r)' = AppKeys(t, w, r)
  BY ProfileFrame DEF AppKeys, Keys
<1>4. \A t, w : EarlyKeys(t, w)' = EarlyKeys(t, w)
  BY ProfileFrame DEF EarlyKeys, Keys
<1>5. ClientHelloStage' <=> ClientHelloStage
  BY DEF ClientHelloStage
<1>6. ServerHelloStage' <=> ServerHelloStage
  BY <1>4 DEF ServerHelloStage
<1>7. ServerVerifyStage' <=> ServerVerifyStage
  BY <1>2 DEF ServerVerifyStage
<1>8. ClientCertStage => ClientCertStage'
  BY <1>1, <1>2, ProfileFrame DEF ClientCertStage
<1>9. ClientCertVerifyStage => ClientCertVerifyStage'
  BY <1>1, <1>2, ProfileFrame DEF ClientCertVerifyStage
<1>10. ClientFinishedStage => ClientFinishedStage'
  BY <1>1, <1>2, ProfileFrame DEF ClientFinishedStage
<1>11. ApplicationStage => ApplicationStage'
  BY <1>3, ProfileFrame DEF ApplicationStage
<1> QED BY <1>5, <1>6, <1>7, <1>8, <1>9, <1>10, <1>11 DEF KeyInv

\* A step that leaves the keys, the records and the write buffer alone, and may
\* end the connection.
LEMMA SenderFrame ==
    ASSUME SessionShapes, WriteInv, Running, UNCHANGED <<profile, ks, hs, out, wb, written>>,
           lost' \in BOOLEAN, Len(srv) \in Nat, Len(srv') \in Nat, Len(srv') >= Len(srv),
           \/ /\ UNCHANGED <<phase, opened>>
              /\ rd'.at = "idle" \/ rd.at # "idle" \/ hs.state \in {"ServerHello", "ServerVerify"}
                 \/ phase = "up"
           \/ phase' = "failed" /\ opened' \in BOOLEAN
    PROVE  SessionShapes' /\ WriteInv'
<1>1. SessionShapes'
  BY DEF SessionShapes, Phases
<1>2. profile \in Profiles
  BY DEF SessionShapes
<1>3. UnitsInv' <=> UnitsInv
  BY DEF UnitsInv, UnitsIn, PlacesIn, UnitIn
<1>4. BufferInv'
  BY DEF WriteInv, BufferInv
<1>5. NonceInv' /\ FinishedInv'
  <2>1. NonceIn(out, TRUE) /\ FinishedIn(out)
    BY DEF WriteInv, NonceInv, FinishedInv, NonceIn
  <2>2. \A x : NonceIn(out, x)
    BY <2>1 DEF NonceIn
  <2> QED BY <2>1, <2>2, RecordsFrame
<1>6. CASE phase' = "failed"
  BY <1>1, <1>4, <1>5, <1>6 DEF WriteInv, Running, PhaseInv
<1>7. CASE /\ UNCHANGED <<phase, opened>>
           /\ rd'.at = "idle" \/ rd.at # "idle" \/ hs.state \in {"ServerHello", "ServerVerify"}
              \/ phase = "up"
  <2>1. KeyInv'
    BY <1>2, KeyFrame DEF WriteInv
  <2>2. PhaseInv'
    BY <1>7 DEF WriteInv, PhaseInv
  <2>3. (Running => KeyInv /\ (opened => phase = "up"))' /\ (phase # "failed" => UnitsInv)'
    BY <1>3, <1>7, <2>1 DEF WriteInv, Running
  <2> QED BY <1>1, <1>4, <1>5, <2>2, <2>3 DEF WriteInv
<1> QED BY <1>6, <1>7

\* The shape of Handshake.
HandshakeShape(h) ==
    h \in [state : States, traffic_hash : {h.traffic_hash}, secret : BOOLEAN,
           certificate_request : BOOLEAN]

\* A record of the handshake goes out with the nonce that is next, and the keys
\* are those of the next stage.
LEMMA SenderAnswers ==
    ASSUME SessionShapes, WriteInv, phase = "opening",
           UNCHANGED <<profile, lost, wb, written>>, rd'.at = "idle",
           NEW r, out' = Append(out, r), r.inner # "ApplicationData",
           \/ r.nonce = NoSecret /\ (Len(out) = 0 \/ ~Running')
           \/ Len(out) + 1 \in 2 .. FinishedIndex /\ r.nonce = <<ClientHsKey, Len(out) - 1>>,
           Len(out) + 1 = FinishedIndex => r.inner = "Alert" \/ r.data = ExpectedFinished,
           Len(out) = 0 /\ profile.psk => r.data[2] = ExpectedBinder,
           HandshakeShape(hs'), phase' \in {"opening", "up", "failed"}, opened' = (phase' = "up"),
           phase' = "opening" => hs'.state # "ApplicationData",
           phase' = "up" => hs'.state = "ApplicationData",
           phase' # "failed" => KeyInv'
    PROVE  SessionShapes' /\ WriteInv'
<1>1. hs.state # "ApplicationData" /\ Running
  BY DEF WriteInv, PhaseInv, Running
<1>2. wb = WriteBuffer_new /\ wb.data = << >> /\ wb.data \in Seq(Nat)
  BY <1>1 DEF WriteInv, BufferInv, WriteBuffer_new
<1>3. out \in Seq(ToSet(out)) /\ out' \in Seq(ToSet(out'))
  BY AppendAny DEF SessionShapes
<1>4. SessionShapes'
  BY <1>3 DEF SessionShapes, HandshakeShape, Phases
<1>5. NonceInv' /\ FinishedInv'
  <2>1. NonceIn(out, TRUE) /\ FinishedIn(out)
    BY <1>1 DEF WriteInv, NonceInv, FinishedInv, NonceIn
  <2>2. NonceIn(out', Running') /\ FinishedIn(out')
    BY <1>3, <2>1, RecordSent
  <2> QED BY <2>2, RecordsFrame
<1>6. UnitsInv'
  <2>1. UnitsIn(out, wb.data, written)
    BY DEF WriteInv, UnitsInv
  <2>2. UnitsIn(out', << >>, written)
    BY <1>2, <1>3, <2>1, UnitsFlushed
  <2>3. UnitsIn(out', wb.data, written)
    BY <1>2, <2>2
  <2> QED BY <2>3 DEF UnitsInv, UnitsIn, PlacesIn, UnitIn
<1>7. BufferInv'
  BY <1>2 DEF WriteInv, BufferInv
<1>8. PhaseInv'
  BY DEF PhaseInv
<1>9. (Running => KeyInv /\ (opened => phase = "up"))'
  BY DEF Running
<1> QED BY <1>4, <1>5, <1>6, <1>7, <1>8, <1>9 DEF WriteInv

\* What is common to the steps that send: the state they start from.
LEMMA SendingState ==
    ASSUME SessionShapes, WriteInv, phase = "opening"
    PROVE  /\ Running /\ KeyInv /\ wb = WriteBuffer_new /\ HandshakeShape(hs)
           /\ hs.state # "ApplicationData" /\ ~opened /\ profile \in Profiles
           /\ hs.state \notin {"ServerHello", "ServerVerify"} => rd.at = "idle"
           /\ out \in Seq(ToSet(out)) /\ Len(out) \in Nat
<1>1. Running /\ KeyInv
  BY DEF Running, WriteInv
<1>2. hs.state # "ApplicationData" /\ ~opened /\ (hs.state \notin {"ServerHello", "ServerVerify"} => rd.at = "idle")
  BY DEF WriteInv, PhaseInv
<1>3. wb = WriteBuffer_new
  BY <1>2 DEF WriteInv, BufferInv
<1>4. HandshakeShape(hs) /\ profile \in Profiles /\ out \in Seq(ToSet(out)) /\ Len(out) \in Nat
  BY DEF SessionShapes, HandshakeShape
<1> QED BY <1>1, <1>2, <1>3, <1>4

\* The transport is gone under a step that sends.
LEMMA SendingLost ==
    ASSUME SessionShapes, WriteInv, StreamInv, phase = "opening", ClientSends,
           phase' = "failed", out' = out, ks' = ks, hs' = hs, opened' = FALSE
    PROVE  SessionShapes' /\ WriteInv'
<1>1. UNCHANGED <<profile, srv, lost, wb, written>>
  BY ClientFrames DEF server
<1>2. Running /\ lost' \in BOOLEAN
  BY <1>1, SendingState DEF SessionShapes
<1>3. Len(srv) \in Nat
  BY StreamEndFacts
<1>4. Len(srv') \in Nat /\ Len(srv') >= Len(srv)
  BY <1>1, <1>3
<1>5. opened' \in BOOLEAN
  BY Zenon
<1> QED BY <1>1, <1>2, <1>3, <1>4, <1>5, SenderFrame

\* ClientHello: the early secret, and the binder of a PSK.
LEMMA ClientHelloSent ==
    ASSUME SessionShapes, WriteInv, StreamInv, client_hello
    PROVE  SessionShapes' /\ WriteInv'
<1> DEFINE k == initialize_early_secret(ks, Psk)
           w == write_record(wb, k, header("Handshake", FALSE), "ClientHello")
           f == finalize(w)
           h == [hs EXCEPT !.state = "ServerHello", !.secret = TRUE]
<1>1. phase = "opening" /\ hs.state = "ClientHello" /\ Answer(f, Sent(f.ks), h, "opening")
  BY Zenon DEF client_hello, InState
<1>2. /\ Running /\ KeyInv /\ wb = WriteBuffer_new /\ HandshakeShape(hs) /\ rd.at = "idle"
      /\ out \in Seq(ToSet(out)) /\ profile \in Profiles
  BY <1>1, SendingState
<1>3. ks = KeySchedule_new /\ out = << >> /\ hs.certificate_request = FALSE
  BY <1>1, <1>2 DEF KeyInv, ClientHelloStage
<1>4. k = EarlyKeys(<< >>, 0)
  BY <1>3, EarlySecret
<1>5. UNCHANGED <<profile, srv, lost, wb, written, rd>>
  BY ClientFrames, Zenon DEF ClientSends, server, reading
<1>6. w.ks = EarlyKeys(<<"ClientHello">>, 0) /\ Sent(w.ks) = EarlyKeys(<<"ClientHello">>, 1)
  <2> DEFINE m == "ClientHello"
             kind == "Handshake"
             enc == FALSE
             v == write_record(WriteBuffer_new, k, header(kind, enc), m)
             e == << >>
             z == 0
  <2>1. e \in Seq(Messages) /\ z \in Nat
    OBVIOUS
  <2> HIDE DEF m, kind, enc, k, e, z
  <2>2. v.ks = IF kind = "Handshake" THEN Hashed(k, m) ELSE k
    BY WriteRecord
  <2> HIDE DEF v
  <2>3. v = w
    BY <1>2, Zenon DEF v, m, kind, enc
  <2>4. v.ks = Hashed(k, m)
    BY <2>2 DEF kind
  <2>5. k = Keys(EarlyPrk, NoSecret, z, NoSecret, z, e)
    BY <1>4, Zenon DEF e, z, EarlyKeys
  <2>6. Hashed(Keys(EarlyPrk, NoSecret, z, NoSecret, z, e), m) = Keys(EarlyPrk, NoSecret, z, NoSecret, z, Append(e, m))
    BY <2>1, CountKeys
  <2>7. Append(e, m) = <<"ClientHello">>
    BY HelloFacts DEF e, m
  <2>8. w.ks = Keys(EarlyPrk, NoSecret, z, NoSecret, z, <<"ClientHello">>)
    BY <2>3, <2>4, <2>5, <2>6, <2>7, Zenon
  <2>9. w.ks = EarlyKeys(<<"ClientHello">>, 0)
    BY <2>8, Zenon DEF z, EarlyKeys
  <2>10. Sent(EarlyKeys(<<"ClientHello">>, 0)) = EarlyKeys(<<"ClientHello">>, 1)
    BY Z3T(30) DEF EarlyKeys, Keys, Schedule, Traffic, Sent, increment_counter
  <2> QED BY <2>9, <2>10, Zenon
<1>7. /\ f.ok /\ f.ks = w.ks /\ f.record.inner = "Handshake" /\ f.record.nonce = NoSecret
      /\ profile.psk => f.record.data[2] = create_psk_binder(w.ks, Truncated)
  <2> DEFINE m == "ClientHello"
             v == write_record(WriteBuffer_new, k, header("Handshake", FALSE), m)
  <2> HIDE DEF m, k
  <2>1. LET g == finalize(v)
        IN  /\ g.ok /\ g.ks = v.ks /\ g.record.inner = "Handshake" /\ g.record.nonce = NoSecret
            /\ profile.psk => g.record.data[2] = create_psk_binder(v.ks, Truncated)
    BY Finalize
  <2>2. v = w
    BY <1>2, Zenon DEF m
  <2> HIDE DEF v, w
  <2> QED BY <2>1, <2>2, Zenon
<1>8. create_psk_binder(w.ks, Truncated) = ExpectedBinder
  <2> HIDE DEF w
  <2>1. w.ks.binder = Binder
    BY <1>6 DEF EarlyKeys, Keys, Schedule
  <2> QED BY <2>1, Zenon DEF create_psk_binder, ExpectedBinder
<1> HIDE DEF w, f
<1>9. HandshakeShape(h) /\ h.state = "ServerHello" /\ h.certificate_request = FALSE
  BY <1>2, <1>3 DEF HandshakeShape, States
<1> HIDE DEF h
<1>10. CASE phase' = "failed" /\ out' = out /\ ks' = ks /\ hs' = hs /\ opened' = FALSE
  BY <1>1, <1>10, SendingLost, Zenon DEF ClientSends
<1>11. CASE /\ out' = Append(out, f.record) /\ ks' = Sent(f.ks) /\ hs' = h /\ phase' = "opening"
            /\ opened' = ("opening" = "up")
  <2>1. Len(out) = 0 /\ FinishedIndex \in 2 .. 4
    BY <1>3, ClientMessagesFacts
  <2>2. Len(out') = 1
    BY <1>2, <1>11, <2>1, AppendAny
  <2>3. EarlyKeys(<<"ClientHello">>, 1)' = EarlyKeys(<<"ClientHello">>, 1)
    BY <1>5, ProfileFrame DEF EarlyKeys, Keys
  <2>4. ServerHelloStage'
    BY <1>6, <1>7, <1>9, <1>11, <2>2, <2>3 DEF ServerHelloStage
  <2>5. KeyInv'
    BY <1>9, <1>11, <2>4 DEF KeyInv
  <2>6. opened' = (phase' = "up") /\ rd'.at = "idle" /\ hs'.state # "ApplicationData" /\ phase' \in {"opening", "up", "failed"}
    BY <1>2, <1>5, <1>9, <1>11
  <2>7. /\ f.record.nonce = NoSecret /\ Len(out) = 0 /\ f.record.inner # "ApplicationData"
        /\ Len(out) + 1 # FinishedIndex
        /\ profile.psk => f.record.data[2] = ExpectedBinder
    BY <1>7, <1>8, <2>1
  <2> QED BY <1>1, <1>5, <1>9, <1>11, <2>5, <2>6, <2>7, SenderAnswers
<1>12. \A p : Answer(f, Sent(f.ks), h, p) =>
          \/ phase' = "failed" /\ out' = out /\ ks' = ks /\ hs' = hs /\ opened' = FALSE
          \/ out' = Append(out, f.record) /\ ks' = Sent(f.ks) /\ hs' = h /\ phase' = p /\ opened' = (p = "up")
  BY AnswerEffect, ZenonT(30)
<1> QED BY <1>1, <1>10, <1>11, <1>12, Zenon

\* What is in the keys of the handshake, and in those of the application.
LEMMA StageFields ==
    /\ \A t, c, rc : /\ HandshakeKeys(t, c, rc).transcript = t
                     /\ HandshakeKeys(t, c, rc).read.key = ServerHsKey
                     /\ HandshakeKeys(t, c, rc).read.counter = rc
                     /\ HandshakeKeys(t, c, rc).write.key = ClientHsKey
                     /\ HandshakeKeys(t, c, rc).write.counter = c
    /\ \A t, c, rc : /\ AppKeys(t, c, rc).transcript = t
                     /\ AppKeys(t, c, rc).read.key = ServerAppKey
                     /\ AppKeys(t, c, rc).read.counter = rc
                     /\ AppKeys(t, c, rc).write.key = ClientAppKey
                     /\ AppKeys(t, c, rc).write.counter = c
  BY DEF HandshakeKeys, AppKeys, Keys, Schedule, Traffic

\* A message hashed, and a record counted.
LEMMA HashedKeys ==
    \A t, c, rc, m : Hashed(HandshakeKeys(t, c, rc), m) = HandshakeKeys(Append(t, m), c, rc)
  BY Z3T(30) DEF HandshakeKeys, Keys, Schedule, Traffic, Hashed

\* A record sent moves the counter of the client's own key alone.
LEMMA SentKeys ==
    /\ \A t, rc : \A c \in Nat : Sent(HandshakeKeys(t, c, rc)) = HandshakeKeys(t, c + 1, rc)
    /\ \A t, rc : \A c \in Nat : Sent(AppKeys(t, c, rc)) = AppKeys(t, c + 1, rc)
  BY Z3T(30) DEF HandshakeKeys, AppKeys, Keys, Schedule, Traffic, Sent, increment_counter

\* A record under the handshake keys.
LEMMA SealedAnswer ==
    ASSUME NEW k, NEW t, NEW c, NEW rc, k = HandshakeKeys(t, c, rc),
           NEW m, NEW kind, kind \in {"Handshake", "Alert"}
    PROVE  /\ SealedRecord(k, kind, m).record.inner = kind
           /\ SealedRecord(k, kind, m).record.data = <<m>>
           /\ SealedRecord(k, kind, m).record.nonce = <<ClientHsKey, c>>
           /\ kind = "Handshake" => SealedRecord(k, kind, m).ks = HandshakeKeys(Append(t, m), c, rc)
<1>1. /\ SealedRecord(k, kind, m).record.inner = kind
      /\ SealedRecord(k, kind, m).record.data = <<m>>
      /\ SealedRecord(k, kind, m).record.nonce = <<ClientHsKey, c>>
  BY WriteSealed, StageFields
<1>2. kind = "Handshake" => SealedRecord(k, kind, m).ks = Hashed(k, m)
  BY WriteSealed
<1>3. Hashed(k, m) = HandshakeKeys(Append(t, m), c, rc)
  BY HashedKeys, Zenon
<1> QED BY <1>1, <1>2, <1>3, Zenon

\* The client's certificate: the transcript up to the server's Finished is set
\* aside, and the handshake goes on with the signature or without one.
LEMMA ClientCertSent ==
    ASSUME SessionShapes, WriteInv, StreamInv, client_cert
    PROVE  SessionShapes' /\ WriteInv'
<1> DEFINE kind == "Handshake"
           m == "ClientCertificate"
           w == write_record(wb, ks, header(kind, TRUE), m)
           next == IF profile.client = "none" THEN "ClientFinished" ELSE "ClientCertVerify"
           h == [hs EXCEPT !.traffic_hash = ks.transcript, !.state = next]
           o == "opening"
           rc == ks.read.counter
           T == ServerTranscript
           one == 1
<1>1. /\ phase = "opening" /\ hs.state = "ClientCert"
      /\ Answer(w, Sent(w.ks), h, o) \/ HandshakeFails
  BY Zenon DEF client_cert, InState, client_cert_hash
<1>2. /\ Running /\ KeyInv /\ wb = WriteBuffer_new /\ HandshakeShape(hs) /\ rd.at = "idle"
      /\ out \in Seq(ToSet(out)) /\ profile \in Profiles
  BY <1>1, SendingState
<1>3. /\ ks = HandshakeKeys(T, 0, rc) /\ rc \in Nat /\ Len(out) = 1
      /\ profile.request /\ FlightDone
  BY <1>1, <1>2 DEF KeyInv, ClientCertStage
<1>4. UNCHANGED <<profile, srv, lost, wb, written, rd>>
  BY ClientFrames, Zenon DEF ClientSends, server, reading
<1>5. kind \in {"Handshake", "Alert"} /\ kind = "Handshake"
  OBVIOUS
<1> HIDE DEF m, kind, o
<1>6. /\ w.record.inner = kind /\ w.record.nonce = <<ClientHsKey, 0>>
      /\ Sent(w.ks) = HandshakeKeys(Append(T, m), 1, rc)
  <2>1. 0 \in Nat /\ 0 + 1 = 1
    OBVIOUS
  <2>2. w = SealedRecord(ks, kind, m)
    BY <1>2, Zenon DEF SealedRecord
  <2> HIDE DEF w, rc, T
  <2>3. /\ w.record.inner = kind /\ w.record.nonce = <<ClientHsKey, 0>>
        /\ w.ks = HandshakeKeys(Append(T, m), 0, rc)
    BY <1>3, <1>5, <2>2, SealedAnswer
  <2>4. Sent(HandshakeKeys(Append(T, m), 0, rc)) = HandshakeKeys(Append(T, m), 1, rc)
    BY <2>1, SentKeys, Zenon
  <2> QED BY <2>3, <2>4, Zenon
<1>7. ks.transcript = T
  <2> HIDE DEF rc, T
  <2> QED BY <1>3, StageFields
<1>8. next \in States /\ next \in {"ClientFinished", "ClientCertVerify"}
  BY DEF States
<1>9. HandshakeShape(h) /\ h.state = next /\ h.traffic_hash = T
  <2> HIDE DEF next
  <2> QED BY <1>2, <1>7, <1>8 DEF HandshakeShape
<1> HIDE DEF w, h
<1>10. CASE phase' = "failed" /\ out' = out /\ ks' = ks /\ hs' = hs /\ opened' = FALSE
  BY <1>1, <1>10, SendingLost, Zenon DEF ClientSends
<1>11. CASE /\ out' = Append(out, w.record) /\ ks' = Sent(w.ks) /\ hs' = h /\ phase' = o
            /\ opened' = (o = "up")
  <2>0. Len(out') = Len(out) + 1
    BY <1>2, <1>11, AppendAny
  <2>1. Len(out') = 2 /\ Len(ClientMessages) \in 1 .. 2 /\ FinishedIndex = Len(ClientMessages) + 2
    <3>1. ClientMessages = <<"ClientCertificate">> \/ ClientMessages = <<"ClientCertificate", "ClientCertificateVerify">>
      BY <1>3, ClientMessagesFacts
    <3> QED BY <1>3, <2>0, <3>1, ClientMessagesFacts
  <2>2. ks' = HandshakeKeys(Append(T, m), 1, ks'.read.counter) /\ ks'.read.counter \in Nat
    <3>1. ks' = HandshakeKeys(Append(T, m), 1, rc)
      BY <1>6, <1>11
    <3>2. ks'.read.counter = rc
      <4> HIDE DEF rc, T
      <4> QED BY <3>1, StageFields
    <3> QED BY <1>3, <3>1, <3>2, Zenon
  <2>3. \A t, x, y : HandshakeKeys(t, x, y)' = HandshakeKeys(t, x, y)
    BY <1>4, ProfileFrame DEF HandshakeKeys, Keys
  <2>4. /\ ServerTranscript' = T /\ FinishedIndex' = FinishedIndex /\ ClientMessages' = ClientMessages
        /\ profile' = profile
    BY <1>4, ProfileFrame
  <2>5. FlightDone'
    BY <1>3, <1>4, ProfileFrame DEF FlightDone
  <2>6. ASSUME profile.client # "none" PROVE KeyInv'
    <3>1. hs'.state = "ClientCertVerify" /\ hs'.traffic_hash = T
      BY <2>6, <1>9, <1>11
    <3>2. ClientCertVerifyStage'
      BY <1>3, <2>1, <2>2, <2>3, <2>4, <2>5, <2>6, <3>1 DEF ClientCertVerifyStage, m
    <3> QED BY <3>1, <3>2 DEF KeyInv
  <2>7. ASSUME profile.client = "none" PROVE KeyInv'
    <3>1. hs'.state = "ClientFinished" /\ hs'.traffic_hash = T
      BY <2>7, <1>9, <1>11
    <3>2. ClientMessages = <<m>> /\ FinishedIndex = 3
      <4>1. ClientMessages = <<"ClientCertificate">>
        BY <2>7, <1>3, ClientMessagesFacts
      <4> QED BY <4>1, <2>1 DEF m
    <3>3. T \o ClientMessages = Append(T, m)
      <4>1. T \in Seq(Messages) /\ m \in Messages
        BY TranscriptFacts DEF Messages, m
      <4> QED BY <3>2, <4>1, AppendIsConcat
    <3>4. ClientFinishedStage'
      <4>1. FinishedIndex - 2 = 1 /\ Len(out') = FinishedIndex - 1
        BY <2>1, <3>2
      <4>2. ks' = HandshakeKeys(T \o ClientMessages, FinishedIndex - 2, ks'.read.counter)
        BY <4>1, <3>3, <2>2, Zenon
      <4> QED BY <2>2, <2>3, <2>4, <2>5, <3>1, <4>1, <4>2 DEF ClientFinishedStage
    <3> QED BY <3>1, <3>4 DEF KeyInv
  <2>8. /\ opened' = (phase' = "up") /\ rd'.at = "idle" /\ hs'.state # "ApplicationData"
        /\ phase' \in {"opening", "up", "failed"} /\ phase' # "up" /\ HandshakeShape(hs')
    BY <1>2, <1>4, <1>8, <1>9, <1>11 DEF o
  <2>9. /\ Len(out) + 1 \in 2 .. FinishedIndex /\ w.record.nonce = <<ClientHsKey, Len(out) - 1>>
        /\ Len(out) + 1 # FinishedIndex /\ Len(out) # 0 /\ w.record.inner # "ApplicationData"
    <3>1. /\ Len(out) + 1 \in 2 .. FinishedIndex /\ Len(out) - 1 = 0
          /\ Len(out) + 1 # FinishedIndex /\ Len(out) # 0
      BY <1>3, <2>1
    <3> QED BY <1>5, <1>6, <3>1
  <2> QED BY <1>1, <1>4, <1>11, <2>6, <2>7, <2>8, <2>9, SenderAnswers
<1>12. \/ phase' = "failed" /\ out' = out /\ ks' = ks /\ hs' = hs /\ opened' = FALSE
       \/ out' = Append(out, w.record) /\ ks' = Sent(w.ks) /\ hs' = h /\ phase' = o /\ opened' = (o = "up")
  BY <1>1, AnswerEffect, FailsEffect, ZenonT(30)
<1> QED BY <1>10, <1>11, <1>12, Zenon

\* The signature, or close_notify from a provider that cannot sign.
LEMMA ClientCertVerifySent ==
    ASSUME SessionShapes, WriteInv, StreamInv, client_cert_verify
    PROVE  SessionShapes' /\ WriteInv'
<1> DEFINE signed == profile.client = "signer"
           kind == IF signed THEN "Handshake" ELSE "Alert"
           m == IF signed THEN "ClientCertificateVerify" ELSE "CloseNotify"
           w == SealedRecord(ks, kind, m)
           h == [hs EXCEPT !.state = "ClientFinished"]
           o == IF signed THEN "opening" ELSE "failed"
           rc == ks.read.counter
           T == ServerTranscript
           cc == "ClientCertificate"
           A == Append(T, cc)
<1>0. phase = "opening" /\ hs.state = "ClientCertVerify"
  BY Zenon DEF client_cert_verify, InState
<1>2. /\ Running /\ KeyInv /\ wb = WriteBuffer_new /\ HandshakeShape(hs) /\ rd.at = "idle"
      /\ out \in Seq(ToSet(out)) /\ profile \in Profiles
  BY <1>0, SendingState
<1>1. Answer(w, Sent(w.ks), h, o)
  <2>1. CASE signed
    BY <2>1, <1>2, Zenon DEF client_cert_verify, SealedRecord
  <2>2. CASE ~signed
    BY <2>2, <1>2, Zenon DEF client_cert_verify, SealedRecord
  <2> QED BY <2>1, <2>2
<1>3. /\ ks = HandshakeKeys(A, 1, rc) /\ rc \in Nat /\ hs.traffic_hash = T /\ Len(out) = 2
      /\ profile.request /\ profile.client # "none" /\ FlightDone
  BY <1>0, <1>2 DEF KeyInv, ClientCertVerifyStage
<1>4. UNCHANGED <<profile, srv, lost, wb, written, rd>>
  BY ClientFrames, Zenon DEF ClientSends, server, reading
<1>5. /\ kind \in {"Handshake", "Alert"} /\ (signed => kind = "Handshake")
      /\ o \in {"opening", "failed"} /\ (signed <=> o = "opening")
  OBVIOUS
<1> HIDE DEF kind, o
<1>6. /\ w.record.inner = kind /\ w.record.nonce = <<ClientHsKey, 1>>
      /\ kind = "Handshake" => Sent(w.ks) = HandshakeKeys(Append(A, m), 2, rc)
  <2>1. 1 \in Nat /\ 1 + 1 = 2
    OBVIOUS
  <2>2. w = SealedRecord(ks, kind, m)
    OBVIOUS
  <2> HIDE DEF w, rc, T, m, A
  <2>3. /\ w.record.inner = kind /\ w.record.nonce = <<ClientHsKey, 1>>
        /\ kind = "Handshake" => w.ks = HandshakeKeys(Append(A, m), 1, rc)
    BY <1>3, <1>5, <2>2, SealedAnswer
  <2>4. Sent(HandshakeKeys(Append(A, m), 1, rc)) = HandshakeKeys(Append(A, m), 2, rc)
    BY <2>1, SentKeys, Zenon
  <2> QED BY <2>3, <2>4, Zenon
<1>7. ClientMessages = <<"ClientCertificate", "ClientCertificateVerify">> /\ FinishedIndex = 4
  <2>1. ClientMessages = <<"ClientCertificate", "ClientCertificateVerify">>
    BY <1>3, ClientMessagesFacts
  <2> QED BY <2>1, ClientMessagesFacts
<1>8. HandshakeShape(h) /\ h.state = "ClientFinished" /\ h.traffic_hash = T
  BY <1>2, <1>3 DEF HandshakeShape, States
<1> HIDE DEF w, h
<1>9. CASE phase' = "failed" /\ out' = out /\ ks' = ks /\ hs' = hs /\ opened' = FALSE
  BY <1>0, <1>9, SendingLost, Zenon DEF ClientSends
<1>10. CASE /\ out' = Append(out, w.record) /\ ks' = Sent(w.ks) /\ hs' = h /\ phase' = o
            /\ opened' = (o = "up")
  <2>1. Len(out') = Len(out) + 1
    BY <1>2, <1>10, AppendAny
  <2>2. ASSUME signed PROVE KeyInv'
    <3>1. ks' = HandshakeKeys(T \o ClientMessages, 2, rc)
      <4>1. ks' = HandshakeKeys(Append(A, m), 2, rc)
        BY <1>5, <1>6, <1>10, <2>2
      <4>2. Append(A, m) = T \o ClientMessages
        <5> DEFINE n == "ClientCertificateVerify"
        <5>1. T \in Seq(Messages) /\ cc \in Messages /\ n \in Messages /\ m = n
          BY <2>2, TranscriptFacts DEF Messages
        <5>2. <<cc, n>> = ClientMessages
          BY <1>7
        <5> HIDE DEF cc, n, m, T
        <5>3. \A i \in 1 .. Len(T) + 2 : Append(Append(T, cc), n)[i] = (T \o <<cc, n>>)[i]
          BY <5>1
        <5>4. Append(Append(T, cc), n) = T \o <<cc, n>>
          <6>1. Append(Append(T, cc), n) \in Seq(Messages) /\ Len(Append(Append(T, cc), n)) = Len(T) + 2
            BY <5>1
          <6>2. T \o <<cc, n>> \in Seq(Messages) /\ Len(T \o <<cc, n>>) = Len(T) + 2
            BY <5>1
          <6> QED BY <5>3, <6>1, <6>2, SeqEqual
        <5> QED BY <5>1, <5>2, <5>4
      <4> QED BY <4>1, <4>2
    <3>2. ks'.read.counter = rc
      <4> HIDE DEF rc, T
      <4> QED BY <3>1, StageFields
    <3>3. \A t, x, y : HandshakeKeys(t, x, y)' = HandshakeKeys(t, x, y)
      BY <1>4, ProfileFrame DEF HandshakeKeys, Keys
    <3>4. /\ ServerTranscript' = T /\ FinishedIndex' = FinishedIndex /\ ClientMessages' = ClientMessages
      BY <1>4, ProfileFrame
    <3>5. FlightDone'
      BY <1>3, <1>4, ProfileFrame DEF FlightDone
    <3>6. FinishedIndex - 2 = 2 /\ Len(out') = FinishedIndex - 1
      BY <1>3, <1>7, <2>1
    <3>7. ks' = HandshakeKeys(T \o ClientMessages, FinishedIndex - 2, ks'.read.counter)
      BY <3>1, <3>2, <3>6, Zenon
    <3>8. hs'.state = "ClientFinished" /\ hs'.traffic_hash = T
      BY <1>8, <1>10
    <3>9. ClientFinishedStage'
      BY <1>3, <3>2, <3>3, <3>4, <3>5, <3>6, <3>7, <3>8 DEF ClientFinishedStage
    <3> QED BY <3>8, <3>9 DEF KeyInv
  <2>3. /\ opened' = (phase' = "up") /\ rd'.at = "idle" /\ hs'.state # "ApplicationData"
        /\ phase' \in {"opening", "up", "failed"} /\ phase' # "up" /\ HandshakeShape(hs')
        /\ phase' # "failed" => signed
    BY <1>2, <1>4, <1>5, <1>8, <1>10
  <2>4. /\ Len(out) + 1 \in 2 .. FinishedIndex /\ w.record.nonce = <<ClientHsKey, Len(out) - 1>>
        /\ Len(out) + 1 # FinishedIndex /\ Len(out) # 0 /\ w.record.inner # "ApplicationData"
    <3>1. /\ Len(out) + 1 \in 2 .. FinishedIndex /\ Len(out) - 1 = 1
          /\ Len(out) + 1 # FinishedIndex /\ Len(out) # 0
      BY <1>3, <1>7
    <3> QED BY <1>5, <1>6, <3>1
  <2>5. UNCHANGED <<profile, lost, wb, written>>
    BY <1>4
  <2> QED BY <1>0, <1>10, <2>2, <2>3, <2>4, <2>5, SenderAnswers
<1>11. \/ phase' = "failed" /\ out' = out /\ ks' = ks /\ hs' = hs /\ opened' = FALSE
       \/ out' = Append(out, w.record) /\ ks' = Sent(w.ks) /\ hs' = h /\ phase' = o /\ opened' = (o = "up")
  BY <1>1, AnswerEffect, ZenonT(30)
<1> QED BY <1>9, <1>10, <1>11, Zenon

\* The client's Finished, and the application keys.
LEMMA ClientFinishedSent ==
    ASSUME SessionShapes, WriteInv, StreamInv, client_finished
    PROVE  /\ SessionShapes' /\ WriteInv'
           /\ phase' = "up" => ks'.read.counter = 0 /\ FlightDone
<1> DEFINE kind == "Handshake"
           m == create_client_finished(ks)
           w == SealedRecord(ks, kind, m)
           k == client_finished_finalize(Sent(w.ks))
           h == [hs EXCEPT !.state = "ApplicationData", !.traffic_hash = NoSecret]
           o == "up"
           rc == ks.read.counter
           T == ServerTranscript
           A == T \o ClientMessages
           c == FinishedIndex - 2
<1>0. phase = "opening" /\ hs.state = "ClientFinished"
  BY Zenon DEF client_finished, InState
<1>2. /\ Running /\ KeyInv /\ wb = WriteBuffer_new /\ HandshakeShape(hs) /\ rd.at = "idle"
      /\ out \in Seq(ToSet(out)) /\ profile \in Profiles
  BY <1>0, SendingState
<1>1a. hs.traffic_hash # NoSecret
  BY <1>0, <1>2, TranscriptIsHash DEF KeyInv, ClientFinishedStage
<1>1. Answer(w, k, h, o)
  BY <1>1a, <1>2, Zenon DEF client_finished, SealedRecord
<1>3. /\ ks = HandshakeKeys(A, c, rc) /\ rc \in Nat /\ hs.traffic_hash = T
      /\ Len(out) = FinishedIndex - 1 /\ FlightDone
  BY <1>0, <1>2 DEF KeyInv, ClientFinishedStage
<1>4. UNCHANGED <<profile, srv, lost, wb, written, rd>>
  BY ClientFrames, Zenon DEF ClientSends, server, reading
<1>5. kind \in {"Handshake", "Alert"} /\ kind = "Handshake" /\ FinishedIndex \in 2 .. 4 /\ c \in Nat
  BY ClientMessagesFacts
<1> HIDE DEF kind, o, c
<1>6. /\ w.record.inner = kind /\ w.record.nonce = <<ClientHsKey, c>> /\ w.record.data = <<m>>
      /\ Sent(w.ks) = HandshakeKeys(Append(A, m), c + 1, rc)
  <2>2. w = SealedRecord(ks, kind, m)
    OBVIOUS
  <2> HIDE DEF w, rc, T, m, A
  <2>3. /\ w.record.inner = kind /\ w.record.nonce = <<ClientHsKey, c>> /\ w.record.data = <<m>>
        /\ w.ks = HandshakeKeys(Append(A, m), c, rc)
    BY <1>3, <1>5, <2>2, SealedAnswer
  <2>4. Sent(HandshakeKeys(Append(A, m), c, rc)) = HandshakeKeys(Append(A, m), c + 1, rc)
    BY <1>5, SentKeys, Zenon
  <2> QED BY <2>3, <2>4, Zenon
<1>7. <<m>> = ExpectedFinished
  <2> HIDE DEF rc, c
  <2>1. ks.write.key = ClientHsKey /\ ks.transcript = A
    <3> HIDE DEF A
    <3> QED BY <1>3, StageFields
  <2> QED BY <2>1, Zenon DEF create_client_finished, ExpectedFinished
<1>8. k = AppKeys(T, 0, 0)
  <2> DEFINE d == c + 1
             B == Append(A, m)
  <2> HIDE DEF d, B, T, rc, w
  <2>1. Sent(w.ks) = HandshakeKeys(B, d, rc)
    BY <1>6, Zenon DEF d, B
  <2>2. [HandshakeKeys(B, d, rc) EXCEPT !.transcript = T] = HandshakeKeys(T, d, rc)
    BY Z3T(30) DEF HandshakeKeys, Keys, Schedule
  <2>3. initialize_master_secret(HandshakeKeys(ServerTranscript, d, rc)) = AppKeys(ServerTranscript, 0, 0)
    BY MasterSecret
  <2> QED BY <1>3, <2>1, <2>2, <2>3, Zenon DEF client_finished_finalize, T
<1>9. HandshakeShape(h) /\ h.state = "ApplicationData"
  BY <1>2 DEF HandshakeShape, States
<1> HIDE DEF w, h, k
<1>10. CASE phase' = "failed" /\ out' = out /\ ks' = ks /\ hs' = hs /\ opened' = FALSE
  <2>1. SessionShapes' /\ WriteInv'
    BY <1>0, <1>10, SendingLost, Zenon DEF ClientSends
  <2> QED BY <1>10, <2>1
<1>11. CASE /\ out' = Append(out, w.record) /\ ks' = k /\ hs' = h /\ phase' = o
            /\ opened' = (o = "up")
  <2>1. Len(out') = Len(out) + 1
    BY <1>2, <1>11, AppendAny
  <2>2. KeyInv'
    <3>1. ks' = AppKeys(T, 0, 0)
      BY <1>8, <1>11
    <3>2. ks'.read.counter = 0 /\ ks'.transcript = T
      <4> HIDE DEF T
      <4> QED BY <3>1, StageFields
    <3>3. \A t, x, y : AppKeys(t, x, y)' = AppKeys(t, x, y)
      BY <1>4, ProfileFrame DEF AppKeys, Keys
    <3>4. FinishedIndex' = FinishedIndex
      BY <1>4, ProfileFrame
    <3>5. Len(out') = FinishedIndex /\ Len(out') - FinishedIndex = 0
      BY <1>3, <1>5, <2>1
    <3>6. ks' = AppKeys(ks'.transcript, Len(out') - FinishedIndex, ks'.read.counter)
      BY <3>1, <3>2, <3>5, Zenon
    <3>7. ApplicationStage'
      BY <1>5, <3>2, <3>3, <3>4, <3>5, <3>6 DEF ApplicationStage
    <3>8. hs'.state = "ApplicationData"
      BY <1>9, <1>11
    <3> QED BY <3>7, <3>8 DEF KeyInv
  <2>3. /\ opened' = (phase' = "up") /\ rd'.at = "idle" /\ hs'.state = "ApplicationData"
        /\ phase' \in {"opening", "up", "failed"} /\ phase' # "opening" /\ HandshakeShape(hs')
    BY <1>2, <1>4, <1>9, <1>11 DEF o
  <2>4. /\ Len(out) + 1 \in 2 .. FinishedIndex /\ w.record.nonce = <<ClientHsKey, Len(out) - 1>>
        /\ w.record.data = ExpectedFinished /\ Len(out) # 0 /\ w.record.inner # "ApplicationData"
    <3>1. Len(out) + 1 \in 2 .. FinishedIndex /\ Len(out) - 1 = c /\ Len(out) # 0
      BY <1>3, <1>5 DEF c
    <3> QED BY <1>5, <1>6, <1>7, <3>1
  <2>5. UNCHANGED <<profile, lost, wb, written>>
    BY <1>4
  <2>6. SessionShapes' /\ WriteInv'
    BY <1>0, <1>11, <2>2, <2>3, <2>4, <2>5, SenderAnswers
  <2>7. ks'.read.counter = 0
    <3> HIDE DEF T
    <3> QED BY <1>8, <1>11, StageFields
  <2> QED BY <1>3, <2>6, <2>7
<1>12. \/ phase' = "failed" /\ out' = out /\ ks' = ks /\ hs' = hs /\ opened' = FALSE
       \/ out' = Append(out, w.record) /\ ks' = k /\ hs' = h /\ phase' = o /\ opened' = (o = "up")
  BY <1>1, AnswerEffect, ZenonT(30)
<1> QED BY <1>10, <1>11, <1>12, Zenon

-----------------------------------------------------------------------------
(* The server's records under its keys.                                    *)

\* The server's two keys are not the same.
LEMMA ServerKeysDiffer == ServerHsKey # ServerAppKey
<1>1. ServerHsKey[1] = "s hs traffic"
  BY DEF ServerHsKey, ServerKey, Expand
<1>2. ServerAppKey[1] = "s ap traffic"
  BY DEF ServerAppKey, ServerKey, Expand
<1> QED BY <1>1, <1>2

\* A record that opens under the server's handshake key is the record of its
\* flight with that number.
LEMMA HandshakeKeyRecord ==
    ASSUME StreamInv, profile \in Profiles, NEW r \in ToSet(srv), NEW c, r.nonce = <<ServerHsKey, c>>
    PROVE  /\ profile.hello = "ok"
           /\ \E i \in PlainRecords + 1 .. PlainRecords + SealedRecords :
                 /\ i \in DOMAIN srv /\ r = srv[i] /\ c = i - PlainRecords - 1
                 /\ r.outer = "ApplicationData" /\ r.inner = "Handshake"
                 /\ r.msgs = IF profile.coalesced THEN Flight ELSE <<Flight[i - PlainRecords]>>
<1>1. PICK i \in DOMAIN srv : r = srv[i]
  BY RecordOfStream
<1>2. i \in Nat /\ i >= 1 /\ Len(FlightRecords) \in Nat \ {0}
  BY StreamEndFacts, FlightRecordShapes
<1>3. i <= Len(FlightRecords)
  <2> SUFFICES ASSUME i > Len(FlightRecords) PROVE FALSE
    BY <1>2
  <2>1. r.nonce = <<ServerAppKey, i - Len(FlightRecords) - 1>>
    BY <1>1 DEF StreamInv, Ordered
  <2> QED BY <2>1, ServerKeysDiffer
<1>4. r = Placed(FlightRecords[i], r.start)
  BY <1>1, <1>3 DEF StreamInv, Ordered
<1>5. ASSUME NEW o, NEW m PROVE FlightRecords[i] # Plain(o, m)
  <2>1. Placed(Plain(o, m), r.start).nonce = NoSecret
    BY PlacedPlain
  <2> QED BY <2>1, <1>4, PairIsNoSecretNot
<1>6. profile.hello = "ok"
  <2> SUFFICES ASSUME profile.hello # "ok" PROVE FALSE
    OBVIOUS
  <2>1. profile.hello = "alert" \/ profile.hello = "retry"
    BY ProfilesAssumption DEF ProfileType
  <2>2. \E o, m : FlightRecords = <<Plain(o, m)>>
    BY <2>1 DEF FlightRecords
  <2>3. i = 1
    BY <2>2, <1>2, <1>3
  <2> QED BY <2>2, <2>3, <1>5
<1>7. /\ PlainRecords \in 1 .. 2 /\ SealedRecords \in 1 .. 5
      /\ Len(FlightRecords) = PlainRecords + SealedRecords
  BY <1>6, FlightRecordFacts
<1>8. i \in PlainRecords + 1 .. PlainRecords + SealedRecords
  <2>1. i # 1
    BY <1>5, <1>6, FlightRecordFacts
  <2>2. ~(i = 2 /\ PlainRecords = 2)
    BY <1>5, <1>6, FlightRecordFacts
  <2> QED BY <2>1, <2>2, <1>2, <1>3, <1>7
<1> DEFINE l == "s hs traffic"
           d == i - PlainRecords - 1
           h == "Handshake"
           m == IF profile.coalesced THEN Flight ELSE <<Flight[i - PlainRecords]>>
           n == 2
<1>9. FlightRecords[i] = Sealed(l, d, h, m, n)
  BY <1>8, <1>6, FlightRecordFacts, Zenon
<1>10. ServerKey(l) = ServerHsKey
  BY DEF ServerHsKey
<1> HIDE DEF l, d, h, m, n
<1>11. /\ r.outer = "ApplicationData" /\ r.inner = h /\ r.nonce = <<ServerKey(l), d>> /\ r.msgs = m
  BY <1>4, <1>9, PlacedSealed
<1>12. c = d
  BY <1>11
<1> QED BY <1>1, <1>6, <1>8, <1>11, <1>12, Zenon DEF d, h, m

\* A record that opens under the server's application key is the record after
\* its flight with that number.
LEMMA ApplicationKeyRecord ==
    ASSUME StreamInv, profile \in Profiles, NEW r \in ToSet(srv), NEW c \in Nat,
           r.nonce = <<ServerAppKey, c>>
    PROVE  LET i == Len(FlightRecords) + c + 1
           IN  /\ profile.hello = "ok" /\ i \in DOMAIN srv /\ r = srv[i]
               /\ r.outer = "ApplicationData" /\ LaterShape(r)
<1>1. PICK i \in DOMAIN srv : r = srv[i]
  BY RecordOfStream
<1>2. i \in Nat /\ i >= 1 /\ Len(FlightRecords) \in Nat \ {0}
  BY StreamEndFacts, FlightRecordShapes
<1>3. i > Len(FlightRecords)
  <2> SUFFICES ASSUME i <= Len(FlightRecords) PROVE FALSE
    BY <1>2
  <2>1. r = Placed(FlightRecords[i], r.start)
    BY <1>1 DEF StreamInv, Ordered
  <2>2. ASSUME NEW o, NEW m PROVE FlightRecords[i] # Plain(o, m)
    <3>1. Placed(Plain(o, m), r.start).nonce = NoSecret
      BY PlacedPlain
    <3> QED BY <2>1, <3>1, PairIsNoSecretNot
  <2>3. profile.hello = "ok"
    <3> SUFFICES ASSUME profile.hello # "ok" PROVE FALSE
      OBVIOUS
    <3>1. profile.hello = "alert" \/ profile.hello = "retry"
      BY ProfilesAssumption DEF ProfileType
    <3>2. \E o, m : FlightRecords = <<Plain(o, m)>>
      BY <3>1 DEF FlightRecords
    <3>3. i = 1
      BY <3>2, <1>2
    <3> QED BY <3>2, <3>3, <2>2
  <2>4. /\ PlainRecords \in 1 .. 2 /\ SealedRecords \in 1 .. 5
        /\ Len(FlightRecords) = PlainRecords + SealedRecords
    BY <2>3, FlightRecordFacts
  <2>5. i \in PlainRecords + 1 .. PlainRecords + SealedRecords
    <3>1. i # 1
      BY <2>2, <2>3, FlightRecordFacts
    <3>2. ~(i = 2 /\ PlainRecords = 2)
      BY <2>2, <2>3, FlightRecordFacts
    <3> QED BY <3>1, <3>2, <2>4, <1>2
  <2> DEFINE l == "s hs traffic"
             d == i - PlainRecords - 1
             h == "Handshake"
             m == IF profile.coalesced THEN Flight ELSE <<Flight[i - PlainRecords]>>
             n == 2
  <2>6. FlightRecords[i] = Sealed(l, d, h, m, n)
    BY <2>3, <2>5, FlightRecordFacts, Zenon
  <2>7. ServerKey(l) = ServerHsKey
    BY DEF ServerHsKey
  <2> HIDE DEF l, d, h, m, n
  <2>8. r.nonce = <<ServerKey(l), d>>
    BY <2>1, <2>6, PlacedSealed
  <2> QED BY <2>7, <2>8, ServerKeysDiffer
<1>4. /\ profile.hello = "ok" /\ r.outer = "ApplicationData" /\ LaterShape(r)
      /\ r.nonce = <<ServerAppKey, i - Len(FlightRecords) - 1>>
  BY <1>1, <1>3 DEF StreamInv, Ordered
<1>5. c = i - Len(FlightRecords) - 1
  BY <1>4
<1>6. i = Len(FlightRecords) + c + 1
  BY <1>2, <1>5
<1> QED BY <1>1, <1>4, <1>6

-----------------------------------------------------------------------------
(* The server's flight as the client takes it.                             *)

ResultShape(a) == a.ok \in BOOLEAN /\ HandshakeShape(a.hs)

\* Before the server's Finished, and after it.
Verifying(a, c) ==
    /\ ResultShape(a)
    /\ a.ok => /\ a.hs.state = "ServerVerify" /\ a.ks = HandshakeKeys(a.ks.transcript, 0, c)
               /\ a.ks.transcript \in Seq(Messages)
               /\ a.hs.certificate_request <=> Requested(a.ks.transcript)
Verified(a, c) ==
    /\ ResultShape(a)
    /\ a.ok => /\ a.ks = HandshakeKeys(ServerTranscript, 0, c)
               /\ \/ a.hs.state = "ClientCert" /\ profile.request /\ a.hs.certificate_request
                  \/ /\ a.hs.state = "ClientFinished" /\ ~profile.request
                     /\ a.hs.traffic_hash = ServerTranscript

\* A message joins the transcript.
LEMMA HashedTranscript ==
    ASSUME NEW t \in Seq(Messages), NEW m \in Messages
    PROVE  /\ Append(t, m) \in Seq(Messages)
           /\ Requested(Append(t, m)) <=> Requested(t) \/ m = "CertificateRequest"
<1>1. /\ Append(t, m) \in Seq(Messages) /\ DOMAIN t = 1 .. Len(t) /\ DOMAIN Append(t, m) = 1 .. Len(t) + 1
      /\ (\A i \in 1 .. Len(t) : Append(t, m)[i] = t[i]) /\ Append(t, m)[Len(t) + 1] = m /\ Len(t) \in Nat
  OBVIOUS
<1> QED BY <1>1 DEF Requested

\* What a result holds.
LEMMA ResultFields ==
    /\ \A ok, k, h : Result(ok, k, h).ok = ok /\ Result(ok, k, h).ks = k /\ Result(ok, k, h).hs = h
    /\ \A k, h : ~Abort(k, h).ok /\ Abort(k, h).ok \in BOOLEAN /\ Abort(k, h).ks = k /\ Abort(k, h).hs = h
  BY DEF Result, Abort

\* The messages before Finished.
LEMMA MessageBeforeFinished ==
    ASSUME NEW a, NEW c, Verifying(a, c),
           NEW m \in {"EncryptedExtensions", "CertificateRequest", "Certificate", "CertificateVerify"}
    PROVE  Verifying(ServerMessage(a, m), c)
<1> DEFINE keys == Hashed(a.ks, m)
           t == a.ks.transcript
<1>1. CASE ~a.ok
  BY <1>1, Zenon DEF ServerMessage
<1>2. CASE a.ok
  <2>0. HandshakeShape(a.hs)
    BY DEF Verifying, ResultShape
  <2>1. /\ a.hs.state = "ServerVerify" /\ a.ks = HandshakeKeys(t, 0, c) /\ t \in Seq(Messages)
        /\ a.hs.certificate_request <=> Requested(t)
    BY <1>2 DEF Verifying
  <2>2. m \in Messages
    BY DEF Messages
  <2>3. keys = HandshakeKeys(Append(t, m), 0, c)
    BY <2>1, HashedKeys
  <2>4. keys.transcript = Append(t, m)
    <3> HIDE DEF keys, t
    <3> QED BY <2>3, StageFields
  <2>5. /\ keys = HandshakeKeys(keys.transcript, 0, c) /\ keys.transcript \in Seq(Messages)
        /\ Requested(keys.transcript) <=> Requested(t) \/ m = "CertificateRequest"
    <3>1. Append(t, m) \in Seq(Messages) /\ (Requested(Append(t, m)) <=> Requested(t) \/ m = "CertificateRequest")
      <4> HIDE DEF t
      <4> QED BY <2>1, <2>2, HashedTranscript
    <3> QED BY <2>3, <2>4, <3>1, Zenon
  <2> HIDE DEF keys, t
  <2>6. CASE ~extensions_parse(m)
    <3>1. ServerMessage(a, m) = Abort(a.ks, a.hs)
      BY <1>2, <2>6, Zenon DEF ServerMessage
    <3>2. /\ ~ServerMessage(a, m).ok /\ ServerMessage(a, m).ok \in BOOLEAN
          /\ ServerMessage(a, m).hs = a.hs
      BY <3>1, ResultFields, SMT
    <3> QED BY <3>2, <2>0, Zenon DEF Verifying, ResultShape
  <2>7. CASE extensions_parse(m)
    <3>0. ServerMessage(a, m) = server_message(a, m)
      BY <1>2, <2>7 DEF ServerMessage
    <3>1. ASSUME NEW ok \in BOOLEAN, NEW h, HandshakeShape(h), h.state = "ServerVerify",
                 h.certificate_request <=> Requested(keys.transcript),
                 server_message(a, m) = Result(ok, keys, h)
          PROVE  Verifying(server_message(a, m), c)
      <4>1. /\ server_message(a, m).ok \in BOOLEAN /\ server_message(a, m).hs = h
            /\ server_message(a, m).ks = keys
        BY <3>1, ResultFields, SMT
      <4> QED BY <3>1, <4>1, <2>5, Zenon DEF Verifying, ResultShape
    <3>2. CASE m = "CertificateRequest"
      <4> DEFINE h == [a.hs EXCEPT !.certificate_request = TRUE]
      <4>1. HandshakeShape(h) /\ h.state = "ServerVerify" /\ h.certificate_request
        BY <2>0, <2>1 DEF HandshakeShape, States
      <4>2. server_message(a, m) = Result(TRUE, keys, h)
        BY <3>2, Zenon DEF server_message, keys
      <4> HIDE DEF h
      <4> QED BY <4>1, <4>2, <3>0, <3>1, <3>2, <2>5
    <3>3. CASE m # "CertificateRequest"
      <4>1. \E ok \in BOOLEAN : server_message(a, m) = Result(ok, keys, a.hs)
        BY <3>3 DEF server_message, keys
      <4>2. a.hs.certificate_request <=> Requested(keys.transcript)
        BY <2>1, <2>5, <3>3
      <4> QED BY <4>1, <4>2, <3>0, <3>1, <2>0, <2>1
    <3> QED BY <3>2, <3>3
  <2> QED BY <2>6, <2>7
<1> QED BY <1>1, <1>2

\* The server's Finished: only over its own transcript, which is then the same
\* at both ends.
LEMMA MessageFinished ==
    ASSUME NEW a, NEW c, Verifying(a, c)
    PROVE  Verified(ServerMessage(a, "Finished"), c)
<1> DEFINE m == "Finished"
           b == ServerMessage(a, m)
           keys == Hashed(a.ks, m)
           t == a.ks.transcript
           u == HelloTranscript \o Front(Flight)
           yes == TRUE
           no == FALSE
<1>1. CASE ~a.ok
  <2>1. b = a
    BY <1>1, Zenon DEF ServerMessage
  <2> QED BY <1>1, <2>1, Zenon DEF Verified, Verifying
<1>2. CASE a.ok
  <2>0. HandshakeShape(a.hs)
    BY DEF Verifying, ResultShape
  <2>1. /\ a.ks = HandshakeKeys(t, 0, c) /\ t \in Seq(Messages)
        /\ a.hs.certificate_request <=> Requested(t)
    BY <1>2 DEF Verifying
  <2>2. b = server_finished(a)
    BY <1>2 DEF ServerMessage, extensions_parse
  <2>3. CASE ~verify_server_finished(a.ks, ServerVerify, a.ks.transcript)
    <3>1. b = Result(no, a.ks, a.hs)
      BY <2>2, <2>3, Zenon DEF server_finished
    <3>2. ~b.ok /\ b.ok \in BOOLEAN /\ b.hs = a.hs
      <4>1. ~no /\ no \in BOOLEAN
        OBVIOUS
      <4> HIDE DEF no, b
      <4> QED BY <3>1, <4>1, ResultFields, SMT
    <3> QED BY <2>0, <3>2, Zenon DEF Verified, ResultShape
  <2>4. CASE verify_server_finished(a.ks, ServerVerify, a.ks.transcript)
    <3>1. t = u
      <4>1. ServerVerify = Mac(a.ks.read.key, t)
        BY <2>4 DEF verify_server_finished
      <4>2. \A x, y, z, w : Mac(x, y) = Mac(z, w) => y = w
        BY DEF Mac
      <4>3. ServerVerify = Mac(ServerKey("s hs traffic"), u)
        BY Zenon DEF ServerVerify
      <4> HIDE DEF t, u
      <4> QED BY <4>1, <4>2, <4>3, Zenon
    <3>2. keys = HandshakeKeys(Append(t, m), 0, c)
      <4> HIDE DEF m, t
      <4> QED BY <2>1, HashedKeys DEF keys
    <3>3. Append(t, m) = ServerTranscript /\ (a.hs.certificate_request <=> profile.request)
      <4>1. Append(u, m) = ServerTranscript /\ (Requested(u) <=> profile.request)
        BY TranscriptFacts
      <4> HIDE DEF m, t, u
      <4> QED BY <2>1, <3>1, <4>1, Zenon
    <3>4. keys = HandshakeKeys(ServerTranscript, 0, c)
      BY <3>2, <3>3, Zenon
    <3>5. keys.transcript = ServerTranscript
      <4> HIDE DEF keys
      <4> QED BY <3>4, StageFields
    <3>6. ASSUME NEW h, HandshakeShape(h), b = Result(yes, keys, h),
                 \/ h.state = "ClientCert" /\ profile.request /\ h.certificate_request
                 \/ h.state = "ClientFinished" /\ ~profile.request /\ h.traffic_hash = ServerTranscript
          PROVE  Verified(b, c)
      <4>0. yes \in BOOLEAN
        OBVIOUS
      <4> HIDE DEF keys, b, yes
      <4>1. b.ok \in BOOLEAN /\ b.hs = h /\ b.ks = keys
        BY <4>0, <3>6, ResultFields, SMT
      <4> QED BY <3>4, <3>6, <4>1, Zenon DEF Verified, ResultShape
    <3> HIDE DEF t, u
    <3>7. CASE a.hs.certificate_request
      <4> DEFINE h == [a.hs EXCEPT !.state = "ClientCert"]
      <4>1. HandshakeShape(h) /\ h.state = "ClientCert" /\ h.certificate_request
        BY <2>0, <3>7 DEF HandshakeShape, States
      <4>2. b = Result(yes, keys, h)
        BY <2>2, <2>4, <3>7, Zenon DEF server_finished
      <4> HIDE DEF h, b, keys, yes
      <4>3. Verified(b, c)
        BY <4>1, <4>2, <3>3, <3>6, <3>7
      <4> QED BY <4>3, Zenon DEF b, m
    <3>8. CASE ~a.hs.certificate_request
      <4> DEFINE x == keys.transcript
                 h == [a.hs EXCEPT !.state = "ClientFinished", !.traffic_hash = x]
      <4>1. b = Result(yes, keys, h)
        BY <2>2, <2>4, <3>8, Zenon DEF server_finished
      <4> HIDE DEF x
      <4>2. HandshakeShape(h) /\ h.state = "ClientFinished" /\ h.traffic_hash = x
        <5> DEFINE g == [a.hs EXCEPT !.state = "ClientFinished"]
        <5>1. HandshakeShape(g) /\ g.state = "ClientFinished"
          BY <2>0 DEF HandshakeShape, States
        <5>2. h = [g EXCEPT !.traffic_hash = x]
          BY Zenon
        <5> HIDE DEF g, h
        <5>3. DOMAIN g = {"state", "traffic_hash", "secret", "certificate_request"}
          BY <5>1 DEF HandshakeShape
        <5>4. h.state = g.state /\ h.traffic_hash = x /\ h.secret = g.secret
              /\ h.certificate_request = g.certificate_request /\ DOMAIN h = DOMAIN g
          BY <5>2, <5>3
        <5>5. h = [state |-> g.state, traffic_hash |-> x, secret |-> g.secret,
                   certificate_request |-> g.certificate_request]
          BY <5>1, <5>2 DEF HandshakeShape
        <5> QED BY <5>1, <5>4, <5>5 DEF HandshakeShape
      <4>3. x = ServerTranscript
        BY <3>5 DEF x
      <4> HIDE DEF h, b, keys, yes
      <4>4. Verified(b, c)
        BY <4>1, <4>2, <4>3, <3>3, <3>6, <3>8
      <4> QED BY <4>4, Zenon DEF b, m
    <3> QED BY <3>7, <3>8
  <2> QED BY <2>3, <2>4
<1> QED BY <1>1, <1>2

\* A record of one message.
LEMMA OneMessage ==
    ASSUME NEW a, NEW m
    PROVE  ServerMessages(a, <<m>>) = ServerMessage(a, m)
<1> DEFINE s == <<m>>
<1>1. Len(s) = 1 /\ s[1] = m
  OBVIOUS
<1> HIDE DEF s
<1>2. 1 <= Len(s) /\ ~(2 <= Len(s)) /\ ~(3 <= Len(s)) /\ ~(4 <= Len(s)) /\ ~(5 <= Len(s))
  BY <1>1
<1>3. ServerMessages(a, s) = ServerMessage(a, s[1])
  BY <1>2, Zenon DEF ServerMessages
<1> QED BY <1>1, <1>3, Zenon DEF s

\* A record of the whole flight.
LEMMA WholeFlight ==
    ASSUME NEW a, NEW c, Verifying(a, c)
    PROVE  Verified(ServerMessages(a, Flight), c)
<1> DEFINE f == Flight
           n == Len(f)
           Then(b, i) == IF i <= n THEN ServerMessage(b, f[i]) ELSE b
           b1 == Then(a, 1)
           b2 == Then(b1, 2)
           b3 == Then(b2, 3)
           b4 == Then(b3, 4)
           b5 == Then(b4, 5)
<1>1. n \in 2 .. 5
  BY FlightFacts
<1>2. ASSUME NEW b, Verifying(b, c), NEW i \in 1 .. n - 1
      PROVE  Verifying(Then(b, i), c)
  <2>1. i \in 1 .. n /\ f[i] # "Finished"
    BY <1>1, <1>2, FlightFacts
  <2>2. f[i] \in {"EncryptedExtensions", "CertificateRequest", "Certificate", "CertificateVerify"}
    BY <2>1, FlightFacts
  <2>3. Then(b, i) = ServerMessage(b, f[i])
    BY <2>1, <1>1
  <2> HIDE DEF f, n, Then
  <2> QED BY <1>2, <2>2, <2>3, MessageBeforeFinished
<1>3. ASSUME NEW b, Verifying(b, c)
      PROVE  Verified(Then(b, n), c)
  <2>1. f[n] = "Finished" /\ n <= n
    BY <1>1, FlightFacts
  <2>2. Then(b, n) = ServerMessage(b, "Finished")
    BY <2>1, Zenon
  <2>3. Verified(ServerMessage(b, "Finished"), c)
    BY <1>3, MessageFinished
  <2> QED BY <2>2, <2>3, Zenon
<1>4. ASSUME NEW b, NEW i \in Nat, i > n PROVE Then(b, i) = b
  BY <1>1, <1>4
<1>5. ServerMessages(a, f) = b5
  BY Zenon DEF ServerMessages
<1> HIDE DEF f, n, Then
<1>6. Verifying(b1, c)
  BY <1>1, <1>2
<1>7. CASE n = 2
  <2>1. Verified(b2, c)
    BY <1>3, <1>6, <1>7
  <2>2. b3 = b2 /\ b4 = b3 /\ b5 = b4
    BY <1>4, <1>7
  <2> QED BY <2>1, <2>2, <1>5 DEF f
<1>8. CASE n = 3
  <2>1. Verifying(b2, c)
    BY <1>2, <1>6, <1>8
  <2>2. Verified(b3, c)
    BY <1>3, <2>1, <1>8
  <2>3. b4 = b3 /\ b5 = b4
    BY <1>4, <1>8
  <2> QED BY <2>2, <2>3, <1>5 DEF f
<1>9. CASE n = 4
  <2>1. Verifying(b2, c)
    BY <1>2, <1>6, <1>9
  <2>2. Verifying(b3, c)
    BY <1>2, <2>1, <1>9
  <2>3. Verified(b4, c)
    BY <1>3, <2>2, <1>9
  <2>4. b5 = b4
    BY <1>4, <1>9
  <2> QED BY <2>3, <2>4, <1>5 DEF f
<1>10. CASE n = 5
  <2>1. Verifying(b2, c)
    BY <1>2, <1>6, <1>10
  <2>2. Verifying(b3, c)
    BY <1>2, <2>1, <1>10
  <2>3. Verifying(b4, c)
    BY <1>2, <2>2, <1>10
  <2>4. Verified(b5, c)
    BY <1>3, <2>3, <1>10
  <2> QED BY <2>4, <1>5 DEF f
<1> QED BY <1>1, <1>7, <1>8, <1>9, <1>10

\* A record the client opens while it waits for the server's flight: either
\* the flight goes on, or all of it is there and verified.
LEMMA FlightRecordTaken ==
    ASSUME StreamInv, profile \in Profiles, NEW r \in ToSet(srv), NEW a, NEW c \in Nat,
           Verifying(a, c), r.nonce = <<ServerHsKey, c>>
    PROVE  \/ Verifying(ServerMessages(a, r.msgs), c)
           \/ Verified(ServerMessages(a, r.msgs), c) /\ FlightDone
<1>1. profile.hello = "ok"
  BY HandshakeKeyRecord
<1>2. PICK i \in PlainRecords + 1 .. PlainRecords + SealedRecords :
         /\ i \in DOMAIN srv
         /\ r.msgs = IF profile.coalesced THEN Flight ELSE <<Flight[i - PlainRecords]>>
  BY HandshakeKeyRecord
<1>3. /\ PlainRecords \in 1 .. 2 /\ SealedRecords \in 1 .. 5
      /\ Len(FlightRecords) = PlainRecords + SealedRecords
      /\ Len(srv) \in Nat /\ i \in 1 .. Len(srv)
  <2>1. Len(srv) \in Nat /\ DOMAIN srv = 1 .. Len(srv)
    BY DEF StreamInv
  <2> QED BY <1>1, <1>2, <2>1, FlightRecordFacts
<1>4. ASSUME i = PlainRecords + SealedRecords PROVE FlightDone
  BY <1>1, <1>3, <1>4 DEF FlightDone
<1>5. CASE profile.coalesced
  <2>1. SealedRecords = 1 /\ r.msgs = Flight
    BY <1>2, <1>5 DEF SealedRecords
  <2>2. FlightDone
    BY <1>2, <1>3, <1>4, <2>1
  <2> QED BY <2>1, <2>2, WholeFlight
<1>6. CASE ~profile.coalesced
  <2> DEFINE j == i - PlainRecords
             m == Flight[j]
  <2>1. SealedRecords = Len(Flight) /\ r.msgs = <<m>>
    BY <1>2, <1>6 DEF SealedRecords
  <2>2. Len(Flight) \in 2 .. 5 /\ j \in 1 .. Len(Flight)
    BY <1>2, <1>3, <2>1, FlightFacts, SMTT(30)
  <2>3. ServerMessages(a, r.msgs) = ServerMessage(a, m)
    BY <2>1, OneMessage, Zenon
  <2>4. CASE j = Len(Flight)
    <3>1. m = "Finished" /\ FlightDone
      BY <2>1, <2>2, <2>4, <1>2, <1>3, <1>4, FlightFacts
    <3> QED BY <2>3, <3>1, MessageFinished, Zenon
  <2>5. CASE j # Len(Flight)
    <3>1. m \in {"EncryptedExtensions", "CertificateRequest", "Certificate", "CertificateVerify"}
      BY <2>2, <2>5, FlightFacts
    <3> HIDE DEF m
    <3>2. Verifying(ServerMessage(a, m), c)
      BY <3>1, MessageBeforeFinished
    <3> QED BY <2>3, <3>2, Zenon
  <2> QED BY <2>4, <2>5
<1> QED BY <1>5, <1>6

\* The keys and the state of a handshake that has heard from the server.
Heeded(a) == \E c \in Nat : Verifying(a, c) \/ (Verified(a, c) /\ FlightDone)

\* A record received under the handshake keys is counted.
LEMMA ReceivedKeys ==
    /\ \A t, wc : \A c \in Nat : Received(HandshakeKeys(t, wc, c)) = HandshakeKeys(t, wc, c + 1)
    /\ \A t, wc : \A c \in Nat : Received(AppKeys(t, wc, c)) = AppKeys(t, wc, c + 1)
  BY Z3T(30) DEF HandshakeKeys, AppKeys, Keys, Schedule, Traffic, Received, increment_counter

\* A message hashed before there are keys.
LEMMA HashedEarly ==
    \A t, c, m : Hashed(EarlyKeys(t, c), m) = EarlyKeys(Append(t, m), c)
  BY Z3T(30) DEF EarlyKeys, Keys, Schedule, Traffic, Hashed

\* What is left of a result that is counted.
LEMMA HeededCounted ==
    ASSUME NEW a, NEW c \in Nat, a.ok,
           Verifying(a, c) \/ (Verified(a, c) /\ FlightDone)
    PROVE  Heeded(Result(TRUE, Received(a.ks), a.hs))
<1> DEFINE yes == TRUE
           k == Received(a.ks)
           b == Result(yes, k, a.hs)
           d == c + 1
<1>0. yes \in BOOLEAN /\ d \in Nat
  OBVIOUS
<1> HIDE DEF yes, k, d
<1>1. b.ok \in BOOLEAN /\ b.ks = k /\ b.hs = a.hs
  BY <1>0, ResultFields
<1>2. HandshakeShape(a.hs)
  BY Zenon DEF Verifying, Verified, ResultShape
<1> HIDE DEF b
<1>3. CASE Verifying(a, c)
  <2> DEFINE t == a.ks.transcript
  <2>1. /\ a.hs.state = "ServerVerify" /\ a.ks = HandshakeKeys(t, 0, c) /\ t \in Seq(Messages)
        /\ a.hs.certificate_request <=> Requested(t)
    BY <1>3, Zenon DEF Verifying
  <2> HIDE DEF t
  <2>2. k = HandshakeKeys(t, 0, d)
    BY <2>1, ReceivedKeys, Zenon DEF k, d
  <2>3. k.transcript = t
    BY <2>2, StageFields
  <2>4. Verifying(b, d)
    BY <1>1, <1>2, <2>1, <2>2, <2>3, Zenon DEF Verifying, ResultShape
  <2> QED BY <1>0, <2>4, Zenon DEF Heeded, b, k, yes
<1>4. CASE Verified(a, c) /\ FlightDone
  <2>1. a.ks = HandshakeKeys(ServerTranscript, 0, c)
    BY <1>4, Zenon DEF Verified
  <2>2. k = HandshakeKeys(ServerTranscript, 0, d)
    <3> DEFINE t == ServerTranscript
    <3>1. a.ks = HandshakeKeys(t, 0, c)
      BY <2>1
    <3> HIDE DEF t
    <3>2. Received(HandshakeKeys(t, 0, c)) = HandshakeKeys(t, 0, d)
      BY ReceivedKeys, Zenon DEF d
    <3>3. k = HandshakeKeys(t, 0, d)
      BY <3>1, <3>2, Zenon DEF k
    <3> QED BY <3>3 DEF t
  <2>3. Verified(b, d)
    BY <1>1, <1>2, <1>4, <2>2, Zenon DEF Verified, ResultShape
  <2> QED BY <1>0, <1>4, <2>3, Zenon DEF Heeded, b, k, yes
<1> QED BY <1>3, <1>4

\* A handshake that cannot go on.
LEMMA HeededNot ==
    ASSUME NEW k, NEW h, HandshakeShape(h)
    PROVE  Heeded(Result(FALSE, k, h))
<1> DEFINE no == FALSE
           a == Result(no, k, h)
<1>0. ~no /\ no \in BOOLEAN /\ 0 \in Nat
  OBVIOUS
<1> HIDE DEF no
<1>1. ~a.ok /\ a.ok \in BOOLEAN /\ a.hs = h
  BY <1>0, ResultFields
<1> HIDE DEF a
<1>2. Verifying(a, 0)
  BY <1>1, Zenon DEF Verifying, ResultShape
<1> QED BY <1>0, <1>2, Zenon DEF Heeded, a, no

\* A ServerHello gives the handshake keys, from the transcript of both hellos.
LEMMA ServerHelloTaken ==
    ASSUME SessionShapes, WriteInv, phase = "opening", hs.state = "ServerHello", NEW r,
           r.outer = "Handshake", r.msgs[1] = "ServerHello", hs.secret
    PROVE  /\ process_server_hello(r).ok /\ Verifying(process_server_hello(r), 0)
           /\ process_server_hello(r).ks.transcript = HelloTranscript
<1> DEFINE m == "ServerHello"
           yes == TRUE
           k == initialize_handshake_secret(Hashed(ks, m), Dhe)
           h == [hs EXCEPT !.secret = FALSE, !.state = "ServerVerify"]
           a == Result(yes, k, h)
<1>1. HandshakeShape(hs) /\ KeyInv
  BY SendingState
<1>2. calculate_shared_secret(m) = Dhe /\ Dhe # NoSecret
  BY DEF calculate_shared_secret, Dhe, NoSecret
<1>3. process_server_hello(r) = a
  BY <1>2, Zenon DEF process_server_hello
<1>4. ks = EarlyKeys(<<"ClientHello">>, 1) /\ hs.certificate_request = FALSE
  BY <1>1 DEF KeyInv, ServerHelloStage
<1>5. Hashed(ks, m) = EarlyKeys(HelloTranscript, 1)
  <2> DEFINE t == <<"ClientHello">>
             one == 1
  <2>1. Append(t, m) = HelloTranscript
    BY HelloFacts
  <2>2. ks = EarlyKeys(t, one)
    BY <1>4
  <2> HIDE DEF t, m, one
  <2>3. Hashed(EarlyKeys(t, one), m) = EarlyKeys(Append(t, m), one)
    BY HashedEarly, Zenon
  <2> QED BY <2>1, <2>2, <2>3, Zenon DEF one
<1>6. k = HandshakeKeys(HelloTranscript, 0, 0)
  BY <1>5, HandshakeSecret, Zenon
<1> HIDE DEF k
<1>7. k.transcript = HelloTranscript
  BY <1>6, StageFields
<1>8. ~Requested(HelloTranscript) /\ HelloTranscript \in Seq(Messages)
  BY HelloFacts DEF Requested
<1>9. HandshakeShape(h) /\ h.state = "ServerVerify" /\ ~h.certificate_request
  <2> DEFINE g == [hs EXCEPT !.secret = FALSE]
  <2>1. HandshakeShape(g) /\ ~g.certificate_request
    BY <1>1, <1>4 DEF HandshakeShape
  <2>2. h = [g EXCEPT !.state = "ServerVerify"]
    BY Zenon
  <2> HIDE DEF g, h
  <2> QED BY <2>1, <2>2 DEF HandshakeShape, States
<1>10. yes \in BOOLEAN /\ yes
  OBVIOUS
<1> HIDE DEF h, yes
<1>11. a.ok = yes /\ a.ks = k /\ a.hs = h
  BY ResultFields
<1> HIDE DEF a
<1>12. Verifying(a, 0)
  BY <1>6, <1>7, <1>8, <1>9, <1>10, <1>11, Zenon DEF Verifying, ResultShape
<1> QED BY <1>3, <1>7, <1>10, <1>11, <1>12, Zenon

\* The answer to the ClientHello: a ServerHello, or the end of the handshake.
LEMMA ServerHelloHeard ==
    ASSUME SessionShapes, WriteInv, phase = "opening", hs.state = "ServerHello", NEW r
    PROVE  Heeded(process_server_hello(r))
<1> DEFINE go == r.outer = "Handshake" /\ calculate_shared_secret(r.msgs[1]) # NoSecret /\ hs.secret
<1>1. HandshakeShape(hs)
  BY SendingState
<1>2. CASE ~go
  <2>1. process_server_hello(r) = Result(FALSE, ks, hs)
    BY <1>2, Zenon DEF process_server_hello
  <2> QED BY <1>1, <2>1, HeededNot, Zenon
<1>3. CASE go
  <2>1. r.outer = "Handshake" /\ r.msgs[1] = "ServerHello" /\ hs.secret
    BY <1>3, Zenon DEF calculate_shared_secret
  <2>2. Verifying(process_server_hello(r), 0)
    BY <2>1, ServerHelloTaken
  <2>3. 0 \in Nat
    OBVIOUS
  <2> QED BY <2>2, <2>3, Zenon DEF Heeded
<1> QED BY <1>2, <1>3

\* A record of the server's flight.
LEMMA ServerVerifyHeard ==
    ASSUME SessionShapes, WriteInv, StreamInv, phase = "opening", hs.state = "ServerVerify",
           NEW r \in ToSet(srv)
    PROVE  Heeded(process_server_verify(r))
<1> DEFINE yes == TRUE
           a == Result(yes, ks, hs)
           b == ServerMessages(a, r.msgs)
           c == ks.read.counter
<1>1. HandshakeShape(hs) /\ KeyInv /\ profile \in Profiles
  BY SendingState
<1>2. /\ ks = HandshakeKeys(ks.transcript, 0, c) /\ c \in Nat
      /\ ks.transcript \in Seq(Messages) /\ (hs.certificate_request <=> Requested(ks.transcript))
  BY <1>1 DEF KeyInv, ServerVerifyStage
<1>3. yes \in BOOLEAN
  OBVIOUS
<1> HIDE DEF yes, c
<1>4. a.ok \in BOOLEAN /\ a.ok = yes /\ a.ks = ks /\ a.hs = hs
  BY <1>3, ResultFields
<1> HIDE DEF a
<1>5. Verifying(a, c)
  BY <1>1, <1>2, <1>4, Zenon DEF Verifying, ResultShape
<1>6. CASE r.outer = "ChangeCipherSpec"
  <2>1. process_server_verify(r) = a
    BY <1>6 DEF process_server_verify, a, yes, Decrypts
  <2> QED BY <1>2, <1>5, <2>1, Zenon DEF Heeded
<1>7. CASE r.outer # "ChangeCipherSpec" /\ Decrypts(r) /\ r.inner = "Handshake"
  <2>1. process_server_verify(r) = IF b.ok THEN Result(TRUE, Received(b.ks), b.hs) ELSE b
    BY <1>7, Zenon DEF process_server_verify, b, a, yes
  <2>2. r.nonce = <<ServerHsKey, c>>
    <3>1. r.nonce = <<ks.read.key, c>>
      BY <1>7, Zenon DEF Decrypts, get_nonce, c
    <3>2. ks.read.key = ServerHsKey
      <4> DEFINE t == ks.transcript
      <4>1. ks = HandshakeKeys(t, 0, c)
        BY <1>2
      <4> HIDE DEF t
      <4> QED BY <4>1, StageFields
    <3> QED BY <3>1, <3>2, Zenon
  <2>3. Verifying(b, c) \/ (Verified(b, c) /\ FlightDone)
    BY <1>1, <1>2, <1>5, <2>2, FlightRecordTaken
  <2> HIDE DEF b
  <2>4. CASE b.ok
    BY <2>1, <2>3, <2>4, <1>2, HeededCounted, Zenon
  <2>5. CASE ~b.ok
    BY <2>1, <2>3, <2>5, <1>2, Zenon DEF Heeded
  <2> QED BY <2>4, <2>5
<1>8. CASE r.outer # "ChangeCipherSpec" /\ ~(Decrypts(r) /\ r.inner = "Handshake")
  <2>1. process_server_verify(r) = Result(FALSE, ks, hs)
    BY <1>8, Zenon DEF process_server_verify
  <2> QED BY <1>1, <2>1, HeededNot, Zenon
<1> QED BY <1>6, <1>7, <1>8

\* A step that sends nothing: the handshake goes on with other keys, or ends.
LEMMA SenderHears ==
    ASSUME SessionShapes, WriteInv, phase = "opening",
           UNCHANGED <<profile, lost, out, wb, written, opened>>, rd'.at = "idle",
           HandshakeShape(hs'),
           \/ phase' = "failed"
           \/ phase' = phase /\ KeyInv' /\ hs'.state # "ApplicationData"
    PROVE  SessionShapes' /\ WriteInv'
<1>1. hs.state # "ApplicationData" /\ Running /\ ~opened
  BY DEF WriteInv, PhaseInv, Running
<1>2. SessionShapes'
  BY DEF SessionShapes, HandshakeShape, Phases
<1>3. UnitsInv'
  BY DEF WriteInv, UnitsInv, UnitsIn, PlacesIn, UnitIn
<1>4. BufferInv'
  BY <1>1 DEF WriteInv, BufferInv
<1>5. NonceInv' /\ FinishedInv'
  <2>1. NonceIn(out, TRUE) /\ FinishedIn(out)
    BY <1>1 DEF WriteInv, NonceInv, FinishedInv, NonceIn
  <2>2. \A x : NonceIn(out, x)
    BY <2>1 DEF NonceIn
  <2> QED BY <2>1, <2>2, RecordsFrame
<1>6. PhaseInv'
  BY <1>1 DEF WriteInv, PhaseInv
<1>7. (Running => KeyInv /\ (opened => phase = "up"))'
  BY <1>1 DEF Running
<1> QED BY <1>2, <1>3, <1>4, <1>5, <1>6, <1>7 DEF WriteInv

\* The keys after a record of the handshake are those of the stage it leads to.
LEMMA HeededKeys ==
    ASSUME NEW a, Heeded(a), a.ok, UNCHANGED <<profile, srv, out>>, ks' = a.ks, hs' = a.hs,
           Len(out) = 1
    PROVE  KeyInv' /\ hs'.state # "ApplicationData"
<1>1. PICK c \in Nat : Verifying(a, c) \/ (Verified(a, c) /\ FlightDone)
  BY DEF Heeded
<1>2. \A t, w, r : HandshakeKeys(t, w, r)' = HandshakeKeys(t, w, r)
  BY ProfileFrame DEF HandshakeKeys, Keys
<1>3. CASE Verifying(a, c)
  <2> DEFINE t == a.ks.transcript
  <2>1. /\ hs'.state = "ServerVerify" /\ ks' = HandshakeKeys(t, 0, c) /\ t \in Seq(Messages)
        /\ hs'.certificate_request <=> Requested(t)
    BY <1>3, Zenon DEF Verifying
  <2> HIDE DEF t
  <2>2. ks'.transcript = t /\ ks'.read.counter = c
    BY <2>1, StageFields
  <2>3. ks' = HandshakeKeys(t, 0, c)'
    BY <2>1, <1>2, Zenon DEF t
  <2>4. ServerVerifyStage'
    <3>1. (ks = HandshakeKeys(ks.transcript, 0, ks.read.counter))'
      BY <2>2, <2>1, <1>2, Zenon
    <3>2. (ks.read.counter \in Nat)' /\ (ks.transcript \in Seq(Messages))' /\ (Len(out) = 1)'
      BY <2>1, <2>2
    <3>3. (hs.certificate_request <=> Requested(ks.transcript))'
      BY <2>1, <2>2 DEF Requested
    <3> QED BY <3>1, <3>2, <3>3 DEF ServerVerifyStage
  <2> QED BY <2>1, <2>4 DEF KeyInv
<1>4. CASE Verified(a, c) /\ FlightDone
  <2> DEFINE t == ServerTranscript
  <2>1. ks' = HandshakeKeys(t, 0, c)
    BY <1>4, Zenon DEF Verified
  <2>2. FlightDone' /\ ServerTranscript' = t /\ profile' = profile
    BY <1>4, ProfileFrame DEF FlightDone
  <2> HIDE DEF t
  <2>3. ks'.read.counter = c
    BY <2>1, StageFields
  <2>4. (ks = HandshakeKeys(ServerTranscript, 0, ks.read.counter))'
    BY <2>1, <2>2, <2>3, <1>2, Zenon
  <2>5. CASE hs'.state = "ClientCert" /\ profile.request /\ hs'.certificate_request
    <3>1. ClientCertStage'
      BY <2>2, <2>3, <2>4, <2>5 DEF ClientCertStage
    <3> QED BY <3>1, <2>5 DEF KeyInv
  <2>6. CASE hs'.state = "ClientFinished" /\ ~profile.request /\ hs'.traffic_hash = t
    <3>1. ClientMessages' = << >> /\ FinishedIndex' = 2
      BY <2>2, <2>6 DEF ClientMessages, FinishedIndex
    <3>2. (ServerTranscript \o ClientMessages)' = ServerTranscript'
      <4>1. t \in Seq(Messages)
        BY TranscriptFacts DEF t
      <4>2. t \o << >> = t
        BY <4>1, ConcatEmptySeq
      <4> QED BY <4>2, <3>1, <2>2
    <3>3. (ks = HandshakeKeys(ServerTranscript \o ClientMessages, FinishedIndex - 2, ks.read.counter))'
      <4>1. FinishedIndex' - 2 = 0
        BY <3>1
      <4> QED BY <4>1, <3>2, <2>4, Zenon
    <3>4. (Len(out) = FinishedIndex - 1)'
      BY <3>1
    <3>5. ClientFinishedStage'
      BY <2>2, <2>3, <2>6, <3>3, <3>4 DEF ClientFinishedStage
    <3> QED BY <3>5, <2>6 DEF KeyInv
  <2> QED BY <1>4, <2>5, <2>6 DEF Verified, t
<1> QED BY <1>1, <1>3, <1>4

\* The rest of State::process once a record of the handshake is there.
LEMMA HandshakeRecordStep ==
    ASSUME SessionShapes, ReaderShapes, WriteInv, StreamInv, HandshakeRecord
    PROVE  SessionShapes' /\ WriteInv'
<1>1. /\ RecordWhole /\ phase = "opening" /\ rd' = Finish("idle")
      /\ UNCHANGED <<profile, srv, lost, wb, written, opened>>
  BY Zenon DEF HandshakeRecord, server
<1>2. hs.state \in {"ServerHello", "ServerVerify"}
  BY <1>1 DEF RecordWhole, WriteInv, PhaseInv
<1>3. /\ Running /\ KeyInv /\ wb = WriteBuffer_new /\ HandshakeShape(hs) /\ ~opened
      /\ out \in Seq(ToSet(out))
  BY <1>1, SendingState
<1>4. Len(out) = 1
  BY <1>2, <1>3 DEF KeyInv, ServerHelloStage, ServerVerifyStage
<1>5. rd'.at = "idle"
  BY <1>1, FinishFields DEF ReaderShapes
<1>6. PICK res : Heeded(res) /\ HandleProcessingError(res)
  <2>1. PICK r \in GenuineRecord :
           HandleProcessingError(IF hs.state = "ServerHello" THEN process_server_hello(r)
                                 ELSE process_server_verify(r))
    BY Zenon DEF HandshakeRecord, handle_processing_error, handle_processing_error_blocking
  <2>2. r \in ToSet(srv)
    BY Zenon DEF GenuineRecord, HeaderOf
  <2>3. CASE hs.state = "ServerHello"
    <3>1. Heeded(process_server_hello(r))
      BY <1>1, <2>3, ServerHelloHeard
    <3> QED BY <2>1, <2>3, <3>1, Zenon
  <2>4. CASE hs.state # "ServerHello"
    <3>1. Heeded(process_server_verify(r))
      BY <1>1, <1>2, <2>2, <2>4, ServerVerifyHeard
    <3> QED BY <2>1, <2>4, <3>1, Zenon
  <2> QED BY <2>3, <2>4
<1>7. HandshakeShape(res.hs)
  BY <1>6, Zenon DEF Heeded, Verifying, Verified, ResultShape
<1>8. CASE res.ok
  <2>1. ks' = res.ks /\ hs' = res.hs /\ out' = out /\ phase' = phase
    BY <1>6, <1>8, Zenon DEF HandleProcessingError
  <2>2. KeyInv' /\ hs'.state # "ApplicationData"
    BY <1>1, <1>4, <1>6, <1>8, <2>1, HeededKeys
  <2> QED BY <1>1, <1>5, <1>7, <2>1, <2>2, SenderHears
<1>9. CASE ~res.ok
  <2> DEFINE kind == "Alert"
             enc == FALSE
             m == "IllegalParameter"
             w == write_record(wb, ks, header(kind, enc), m)
             r == w.record
  <2>1. phase' = "failed" /\ ks' = res.ks /\ hs' = res.hs /\ (out' = out \/ out' = Append(out, r))
    BY <1>6, <1>9, Zenon DEF HandleProcessingError
  <2>2. r.inner = "Alert" /\ r.nonce = NoSecret
    <3>1. ~enc /\ kind = "Alert"
      OBVIOUS
    <3> HIDE DEF enc, kind, m
    <3>2. r.inner = kind /\ r.nonce = IF enc THEN get_nonce(ks.write) ELSE NoSecret
      BY <1>3, WriteRecord
    <3> QED BY <3>1, <3>2
  <2> HIDE DEF r, w
  <2>3. CASE out' = Append(out, r)
    <3>1. ~Running' /\ opened' = (phase' = "up")
      BY <1>1, <1>3, <2>1 DEF Running, SessionShapes
    <3> QED BY <1>1, <1>4, <1>5, <1>7, <2>1, <2>2, <2>3, <3>1, SenderAnswers
  <2>4. CASE out' = out
    BY <1>1, <1>3, <1>5, <1>7, <2>1, <2>4, SenderHears
  <2> QED BY <2>1, <2>3, <2>4
<1> QED BY <1>8, <1>9

-----------------------------------------------------------------------------
(* Sending application data.                                               *)

\* The write buffer, empty or with an open record in it.
BufferShape(b) ==
    /\ b \in [pos : Nat, header : {NoHeader, AppHeader}, data : Seq(Nat)]
    /\ b = WriteBuffer_new \/ (b.header = AppHeader /\ b.pos = HeaderLen + Len(b.data))
    /\ b.pos <= MaxBlockSize

\* A step after the handshake.
LEMMA ApplicationSender ==
    ASSUME SessionShapes, UNCHANGED <<profile, lost, hs>>, hs.state = "ApplicationData",
           phase' \in {"up", "peer_closed", "closed", "failed"}, opened' \in BOOLEAN,
           Running' => opened' = (phase' = "up"),
           Running' => ApplicationStage',
           out' \in Seq(ToSet(out')), NonceIn(out', Running'), FinishedIn(out'),
           written' \in Nat, BufferShape(wb'),
           phase' # "failed" => UnitsIn(out', wb'.data, written')
    PROVE  SessionShapes' /\ WriteInv'
<1>1. SessionShapes'
  BY DEF SessionShapes, Phases
<1>2. NonceInv' /\ FinishedInv'
  BY RecordsFrame
<1>3. BufferInv'
  BY DEF BufferInv, BufferShape
<1>4. PhaseInv'
  BY DEF PhaseInv, Running
<1>5. (Running => KeyInv /\ (opened => phase = "up"))'
  BY DEF KeyInv
<1>6. (phase # "failed" => UnitsInv)'
  BY DEF UnitsInv, UnitsIn, PlacesIn, UnitIn
<1> QED BY <1>1, <1>2, <1>3, <1>4, <1>5, <1>6 DEF WriteInv

\* The state such a step starts from.
LEMMA ApplicationState ==
    ASSUME SessionShapes, WriteInv, Running, phase \in {"up", "peer_closed"}
    PROVE  /\ hs.state = "ApplicationData" /\ ApplicationStage
           /\ opened = (phase = "up")
           /\ out \in Seq(ToSet(out)) /\ Len(out) \in Nat /\ FinishedIndex \in 2 .. 4
           /\ Len(out) - FinishedIndex \in Nat
           /\ NonceIn(out, TRUE) /\ FinishedIn(out)
           /\ written \in Nat /\ BufferShape(wb) /\ UnitsIn(out, wb.data, written)
           /\ profile \in Profiles /\ opened \in BOOLEAN /\ lost \in BOOLEAN
<1>1. hs.state = "ApplicationData"
  BY DEF WriteInv, PhaseInv
<1>2. ApplicationStage
  BY <1>1 DEF WriteInv, KeyInv
<1>3. opened = (phase = "up")
  BY DEF WriteInv, PhaseInv, SessionShapes
<1>4. out \in Seq(ToSet(out)) /\ Len(out) \in Nat
  BY DEF SessionShapes
<1>5. NonceIn(out, TRUE) /\ FinishedIn(out)
  BY DEF WriteInv, NonceInv, FinishedInv, NonceIn
<1>6. written \in Nat /\ BufferShape(wb)
  BY DEF WriteInv, BufferInv, BufferShape
<1>7. UnitsIn(out, wb.data, written)
  BY DEF WriteInv, UnitsInv
<1>8. FinishedIndex \in 2 .. 4
  BY ClientMessagesFacts
<1>9. Len(out) - FinishedIndex \in Nat
  BY <1>2, <1>4, <1>8 DEF ApplicationStage
<1>10. profile \in Profiles /\ opened \in BOOLEAN /\ lost \in BOOLEAN
  BY DEF SessionShapes
<1> QED BY <1>1, <1>2, <1>3, <1>4, <1>5, <1>6, <1>7, <1>8, <1>9, <1>10

\* The write counter is the number of records sent after Finished.
Counted(k, o, t, rc) == Len(o) >= FinishedIndex /\ k = AppKeys(t, Len(o) - FinishedIndex, rc)

\* The nonce a record may have: the next one, or none if it is the last.
NextNonce(r, k, running) ==
    \/ r.nonce = <<k.write.key, k.write.counter>>
    \/ r.nonce = NoSecret /\ ~running

\* A record under the application keys is counted.
LEMMA ApplicationRecordSent ==
    ASSUME NEW o, o \in Seq(ToSet(o)), NonceIn(o, TRUE), FinishedIn(o),
           NEW r, NEW running, NEW k, NEW t, NEW rc, Counted(k, o, t, rc), NextNonce(r, k, running)
    PROVE  /\ NonceIn(Append(o, r), running) /\ FinishedIn(Append(o, r))
           /\ Append(o, r) \in Seq(ToSet(Append(o, r)))
           /\ Counted(Sent(k), Append(o, r), t, rc)
<1> DEFINE n == Len(o) - FinishedIndex
           a == Append(o, r)
<1>0. Len(o) >= FinishedIndex /\ k = AppKeys(t, n, rc)
  BY DEF Counted
<1>1. Len(o) \in Nat /\ FinishedIndex \in 2 .. 4
  BY ClientMessagesFacts
<1>2. n \in Nat
  BY <1>0, <1>1
<1>3. a \in Seq(ToSet(a)) /\ Len(a) = Len(o) + 1
  BY AppendAny
<1>4. k.write.key = ClientAppKey /\ k.write.counter = n
  <2> HIDE DEF n
  <2>1. k = AppKeys(t, n, rc)
    BY <1>0
  <2> QED BY <2>1, StageFields
<1>5. (r.nonce = NoSecret /\ ~running) \/ r.nonce = <<ClientAppKey, n>>
  BY <1>4 DEF NextNonce
<1>6. NonceIn(a, running) /\ FinishedIn(a)
  <2>1. Len(o) + 1 # FinishedIndex /\ Len(o) # 0 /\ Len(o) >= FinishedIndex
    BY <1>0, <1>1
  <2> QED BY <1>5, <2>1, RecordSent
<1>7. Len(a) >= FinishedIndex /\ Len(a) - FinishedIndex = n + 1
  BY <1>0, <1>1, <1>3
<1>8. Sent(k) = AppKeys(t, n + 1, rc)
  <2>1. k = AppKeys(t, n, rc)
    BY <1>0
  <2> HIDE DEF n
  <2> QED BY <1>2, <2>1, SentKeys, Zenon
<1> QED BY <1>3, <1>6, <1>7, <1>8, Zenon DEF Counted

\* The record in the write buffer, encrypted.
LEMMA BufferEncrypted ==
    ASSUME NEW k, NEW b, b.header = AppHeader
    PROVE  /\ encrypt(k, b).inner = "ApplicationData" /\ encrypt(k, b).data = b.data
           /\ encrypt(k, b).nonce = <<k.write.key, k.write.counter>>
  BY DEF encrypt, AppHeader, header, get_nonce

\* write: the record is open, if it was not before.
LEMMA OpenRecord ==
    ASSUME BufferShape(wb)
    PROVE  LET w == IF contains(wb, AppHeader) THEN wb ELSE start_record(wb, AppHeader)
           IN  /\ w \in [pos : Nat, header : {AppHeader}, data : Seq(Nat)]
               /\ w.data = wb.data /\ w.pos = HeaderLen + Len(w.data) /\ w.pos <= MaxBlockSize
<1> DEFINE w == IF contains(wb, AppHeader) THEN wb ELSE start_record(wb, AppHeader)
<1>0. HeaderLen \in Nat \ {0} /\ MaxBlockSize \in Nat /\ HeaderLen <= MaxBlockSize
  BY RecordSizes
<1>1. CASE contains(wb, AppHeader)
  <2>1. w = wb /\ wb.header = AppHeader
    BY <1>1 DEF contains
  <2>2. wb # WriteBuffer_new
    BY <2>1 DEF WriteBuffer_new, NoHeader, AppHeader, header
  <2> QED BY <2>1, <2>2 DEF BufferShape
<1>2. CASE ~contains(wb, AppHeader)
  <2>1. wb = WriteBuffer_new
    BY <1>2 DEF BufferShape, contains
  <2> DEFINE h == AppHeader
             z == [pos |-> 0, header |-> h, data |-> << >>]
  <2>2. w = [[WriteBuffer_new EXCEPT !.header = h] EXCEPT !.pos = @ + HeaderLen]
    BY <1>2, <2>1, Zenon DEF start_record
  <2> HIDE DEF h, w
  <2>3. [WriteBuffer_new EXCEPT !.header = h] = z
    BY Z3T(30) DEF WriteBuffer_new
  <2>4. w = [z EXCEPT !.pos = @ + HeaderLen]
    BY <2>2, <2>3, Zenon
  <2>5. w = [pos |-> HeaderLen, header |-> h, data |-> << >>]
    BY <2>4, <1>0
  <2>6. wb.data = << >>
    BY <2>1 DEF WriteBuffer_new
  <2>7. /\ w.pos = HeaderLen /\ w.header = AppHeader /\ w.data = << >>
        /\ w \in [pos : Nat, header : {AppHeader}, data : Seq(Nat)]
    BY <2>5, <1>0 DEF h
  <2>8. Len(w.data) = 0
    BY <2>7
  <2> QED BY <2>6, <2>7, <2>8, <1>0 DEF w
<1> QED BY <1>1, <1>2

\* Units that go on from the first u, and such units behind others.
Numbered(d, u) == d \in Seq(Nat) /\ \A i \in 1 .. Len(d) : d[i] = u + i
Behind(e, d, u) ==
    /\ e \in Seq(Nat)
    /\ \A k \in 1 .. Len(d) : e[k] = d[k]
    /\ \A k \in Len(d) + 1 .. Len(e) : e[k] = u + (k - Len(d))
OpenBuffer(w) ==
    /\ w \in [pos : Nat, header : {AppHeader}, data : Seq(Nat)]
    /\ w.pos = HeaderLen + Len(w.data) /\ w.pos <= MaxBlockSize

\* append: the units that fit go behind the ones in the open record.
LEMMA UnitsBuffered ==
    ASSUME NEW w, NEW u, NEW data, OpenBuffer(w), Numbered(data, u)
    PROVE  /\ BufferShape(append(w, data)) /\ append(w, data).header = AppHeader
           /\ append(w, data).pos # 0 /\ Len(buffered(w, data)) \in Nat
           /\ Len(append(w, data).data) = Len(w.data) + Len(buffered(w, data))
           /\ Behind(append(w, data).data, w.data, u)
<1> DEFINE sp == space(w)
           cut == IF Len(data) < sp THEN Len(data) ELSE sp
           x == buffered(w, data)
           a == append(w, data)
           L == Len(w.data)
           wp == w.pos
           wd == w.data
<1>0. HeaderLen \in Nat \ {0} /\ MaxBlockSize \in Nat
  BY RecordSizes
<1>1. wd \in Seq(Nat) /\ wp \in Nat /\ wp = HeaderLen + L /\ wp <= MaxBlockSize /\ L = Len(wd) /\ L \in Nat
  BY DEF OpenBuffer
<1>2. sp \in Nat /\ sp = MaxBlockSize - wp
  BY <1>0, <1>1 DEF space
<1> HIDE DEF sp
<1>4. cut \in 0 .. Len(data) /\ cut <= sp
  BY <1>2 DEF Numbered
<1>5. x = SubSeq(data, 1, cut)
  BY Zenon DEF buffered, sp
<1> HIDE DEF cut, x, L, wd, wp
<1>6. x \in Seq(Nat) /\ Len(x) = cut /\ \A i \in 1 .. cut : x[i] = u + i
  <2> DEFINE S == Nat
  <2>1. (\A i \in 1 .. cut : data[i] \in S) /\ cut \in Int /\ 1 \in Int
    BY <1>4 DEF Numbered
  <2> HIDE DEF S
  <2>2. /\ SubSeq(data, 1, cut) \in Seq(S)
        /\ Len(SubSeq(data, 1, cut)) = IF 1 <= cut THEN cut - 1 + 1 ELSE 0
        /\ \A i \in 1 .. cut - 1 + 1 : SubSeq(data, 1, cut)[i] = data[1 + i - 1]
    BY <2>1, SubSeqProperties
  <2>3. x \in Seq(S) /\ Len(x) = (IF 1 <= cut THEN cut - 1 + 1 ELSE 0)
        /\ \A i \in 1 .. cut - 1 + 1 : x[i] = data[1 + i - 1]
    BY <2>2, <1>5, Zenon
  <2>4. Len(x) = cut /\ \A i \in 1 .. cut : x[i] = data[i]
    BY <2>3, <1>4
  <2>5. \A i \in 1 .. cut : data[i] = u + i
    BY <1>4 DEF Numbered
  <2> QED BY <2>3, <2>4, <2>5 DEF S
<1> DEFINE y == wd \o x
           p == wp + Len(x)
<1>7. /\ y \in Seq(Nat) /\ Len(y) = L + cut
      /\ \A k \in 1 .. L + cut : y[k] = IF k <= L THEN wd[k] ELSE x[k - L]
  <2>1. /\ y \in Seq(Nat) /\ Len(y) = Len(wd) + Len(x)
        /\ \A k \in 1 .. Len(wd) + Len(x) : y[k] = IF k <= Len(wd) THEN wd[k] ELSE x[k - Len(wd)]
    <3> DEFINE S == Nat
    <3>1. wd \in Seq(S) /\ x \in Seq(S)
      BY <1>1, <1>6
    <3> HIDE DEF S
    <3>2. /\ y \in Seq(S) /\ Len(y) = Len(wd) + Len(x)
          /\ \A k \in 1 .. Len(wd) + Len(x) : y[k] = IF k <= Len(wd) THEN wd[k] ELSE x[k - Len(wd)]
      BY <3>1, ConcatProperties
    <3> QED BY <3>2, Zenon DEF S
  <2> QED BY <2>1, <1>1, <1>6, Zenon
<1>8. a = [pos |-> p, header |-> AppHeader, data |-> y]
  <2>0. a = [w EXCEPT !.pos = @ + Len(x), !.data = @ \o x]
    BY Zenon DEF append, x
  <2> DEFINE b == [w EXCEPT !.pos = p]
             h == AppHeader
  <2>1. a = [b EXCEPT !.data = y]
    <3>1. b.data = w.data
      BY DEF OpenBuffer
    <3> QED BY <2>0, <3>1, Zenon DEF wd, wp
  <2> HIDE DEF p, y, a, h
  <2>2. w = [pos |-> wp, header |-> h, data |-> wd]
    BY DEF wd, wp, h, OpenBuffer
  <2>3. [[pos |-> wp, header |-> h, data |-> wd] EXCEPT !.pos = p] = [pos |-> p, header |-> h, data |-> wd]
    BY Z3
  <2>4. b = [pos |-> p, header |-> h, data |-> wd]
    BY <2>2, <2>3, Zenon
  <2>5. [[pos |-> p, header |-> h, data |-> wd] EXCEPT !.data = y] = [pos |-> p, header |-> h, data |-> y]
    BY Z3
  <2> QED BY <2>1, <2>4, <2>5, Zenon DEF h
<1> HIDE DEF y, a
<1>9. p \in Nat /\ p <= MaxBlockSize /\ p = HeaderLen + Len(y) /\ p # 0
  BY <1>0, <1>1, <1>2, <1>4, <1>6, <1>7
<1> HIDE DEF p
<1>10. BufferShape(a) /\ a.header = AppHeader /\ a.pos # 0 /\ a.data = y
  BY <1>7, <1>8, <1>9 DEF BufferShape
<1>11. \A k \in L + 1 .. L + cut : y[k] = u + (k - L)
  <2> TAKE k \in L + 1 .. L + cut
  <2>1. k - L \in 1 .. cut /\ k \in 1 .. L + cut /\ ~(k <= L)
    BY <1>4, <1>1
  <2> QED BY <2>1, <1>6, <1>7
<1>12. \A k \in 1 .. L : y[k] = wd[k]
  BY <1>1, <1>4, <1>7
<1>13. cut \in Nat
  BY <1>4
<1> QED BY <1>6, <1>7, <1>10, <1>11, <1>12, <1>13, Zenon DEF a, x, L, wd, Behind

\* The keys of the application after a step.
LEMMA ApplicationStageNext ==
    ASSUME profile' = profile, NEW t, NEW rc \in Nat, NEW n, n = Len(out') - FinishedIndex,
           ks' = AppKeys(t, n, rc), Len(out') >= FinishedIndex
    PROVE  ApplicationStage'
<1>1. \A x, y, z : AppKeys(x, y, z)' = AppKeys(x, y, z)
  BY ProfileFrame DEF AppKeys, Keys
<1>2. FinishedIndex' = FinishedIndex
  BY ProfileFrame
<1>3. ks'.transcript = t /\ ks'.read.counter = rc
  BY StageFields
<1>4. (ks = AppKeys(ks.transcript, Len(out) - FinishedIndex, ks.read.counter))'
  BY <1>1, <1>2, <1>3, Zenon
<1> QED BY <1>2, <1>3, <1>4 DEF ApplicationStage

\* flush: the open record goes out and is counted.
LEMMA FlushStep ==
    ASSUME SessionShapes, WriteInv, phase \in {"up", "peer_closed"}, NEW b, FlushRecord(b),
           BufferShape(b), b.header = AppHeader, b.pos # 0,
           UNCHANGED <<profile, lost, hs, opened>>, written' \in Nat, UnitsIn(out, b.data, written')
    PROVE  SessionShapes' /\ WriteInv'
<1> DEFINE r == encrypt(ks, b)
           t == ks.transcript
           rc == ks.read.counter
           n == Len(out) - FinishedIndex
           new == WriteBuffer_new
<1>0. Running
  BY DEF Running
<1>1. /\ hs.state = "ApplicationData" /\ ApplicationStage /\ opened = (phase = "up")
      /\ out \in Seq(ToSet(out)) /\ NonceIn(out, TRUE) /\ FinishedIn(out)
      /\ opened \in BOOLEAN
  BY <1>0, ApplicationState
<1>2. ks = AppKeys(t, n, rc) /\ rc \in Nat /\ Len(out) >= FinishedIndex
  BY <1>1 DEF ApplicationStage
<1>3. BufferShape(new) /\ new.data = << >>
  BY RecordSizes DEF BufferShape, WriteBuffer_new
<1>4. /\ wb' = new
      /\ IF lost THEN phase' = "failed" /\ UNCHANGED <<out, ks>>
         ELSE out' = Append(out, r) /\ ks' = Sent(ks) /\ phase' = phase
  <2>1. ~is_empty(b)
    BY DEF is_empty
  <2>2. close_record(b, ks).wb = new /\ close_record(b, ks).record = r
    BY DEF close_record
  <2> HIDE DEF r, new
  <2> QED BY <2>1, <2>2, Zenon DEF FlushRecord
<1>5. CASE lost
  <2>1. phase' = "failed" /\ ~Running' /\ out' = out
    BY <1>4, <1>5 DEF Running
  <2>2. NonceIn(out, Running')
    BY <1>1 DEF NonceIn
  <2>3. NonceIn(out', Running') /\ FinishedIn(out') /\ out' \in Seq(ToSet(out')) /\ BufferShape(wb')
    BY <1>1, <1>3, <1>4, <2>1, <2>2, Zenon
  <2>4. opened' \in BOOLEAN
    BY <1>1
  <2> QED BY <1>1, <2>1, <2>3, <2>4, ApplicationSender
<1>6. CASE ~lost
  <2>1. out' = Append(out, r) /\ ks' = Sent(ks) /\ phase' = phase /\ wb' = new /\ Running'
    BY <1>4, <1>6 DEF Running
  <2>2. r.inner = "ApplicationData" /\ r.data = b.data /\ r.nonce = <<ks.write.key, ks.write.counter>>
    BY BufferEncrypted
  <2> DEFINE a == Append(out, r)
             m == Len(a) - FinishedIndex
             run == Running'
  <2> HIDE DEF r, t, rc, run
  <2>3. /\ NonceIn(a, run) /\ FinishedIn(a) /\ a \in Seq(ToSet(a))
        /\ Len(a) >= FinishedIndex /\ Sent(ks) = AppKeys(t, m, rc)
    <3>1. Counted(ks, out, t, rc) /\ NextNonce(r, ks, run)
      BY <1>2, <2>2 DEF Counted, NextNonce
    <3>2. NonceIn(a, run) /\ FinishedIn(a) /\ a \in Seq(ToSet(a)) /\ Counted(Sent(ks), a, t, rc)
      BY <1>1, <3>1, ApplicationRecordSent
    <3> QED BY <3>2, Zenon DEF Counted, m
  <2>4. UnitsIn(a, << >>, written')
    <3>1. b.data \in Seq(Nat)
      BY DEF BufferShape
    <3> QED BY <1>1, <2>2, <3>1, UnitsFlushed
  <2> HIDE DEF a, new
  <2>5. out' = a
    BY <2>1 DEF a
  <2>6. ApplicationStage'
    <3>1. ks' = AppKeys(t, m, rc) /\ m = Len(out') - FinishedIndex /\ Len(out') >= FinishedIndex
      BY <2>1, <2>3, <2>5, Zenon DEF m
    <3> HIDE DEF m
    <3> QED BY <1>2, <3>1, ApplicationStageNext
  <2>7. NonceIn(out', Running') /\ FinishedIn(out') /\ out' \in Seq(ToSet(out')) /\ BufferShape(wb')
        /\ UnitsIn(out', wb'.data, written')
    BY <1>3, <2>1, <2>3, <2>4, <2>5, Zenon DEF run
  <2>8. phase' \in {"up", "peer_closed", "closed", "failed"} /\ opened' \in BOOLEAN /\ opened' = (phase' = "up")
    BY <1>1, <2>1
  <2> QED BY <1>1, <2>6, <2>7, <2>8, ApplicationSender
<1> QED BY <1>5, <1>6

\* write: what fits is buffered, and a full record goes out.
LEMMA WriteStep ==
    ASSUME SessionShapes, WriteInv, phase = "up", WriteBytes
    PROVE  SessionShapes' /\ WriteInv'
<1> DEFINE w == IF contains(wb, AppHeader) THEN wb ELSE start_record(wb, AppHeader)
           data(n) == [i \in 1 .. n |-> written + i]
           a(n) == append(w, data(n))
<1>0. Running
  BY DEF Running
<1>1. /\ hs.state = "ApplicationData" /\ ApplicationStage /\ opened = (phase = "up")
      /\ out \in Seq(ToSet(out)) /\ NonceIn(out, TRUE) /\ FinishedIn(out)
      /\ written \in Nat /\ BufferShape(wb) /\ UnitsIn(out, wb.data, written) /\ opened \in BOOLEAN
  BY <1>0, ApplicationState
<1>2. UNCHANGED <<profile, lost, hs, opened>>
  BY Zenon DEF WriteBytes, server
<1>3. PICK n \in 0 .. 2 :
         /\ written' = written + Len(buffered(w, data(n)))
         /\ IF is_full(a(n)) THEN FlushRecord(a(n)) ELSE wb' = a(n) /\ UNCHANGED <<out, ks, phase>>
  BY Zenon DEF WriteBytes
<1> DEFINE d == data(n)
           x == buffered(w, d)
           b == append(w, d)
<1>4. Numbered(d, written)
  BY <1>1 DEF Numbered
<1>5. OpenBuffer(w) /\ w.data = wb.data
  BY <1>1, OpenRecord DEF OpenBuffer
<1>7. /\ written' = written + Len(x)
      /\ IF is_full(b) THEN FlushRecord(b) ELSE wb' = b /\ UNCHANGED <<out, ks, phase>>
  BY <1>3, Zenon
<1> HIDE DEF w, d
<1>8. /\ BufferShape(b) /\ b.header = AppHeader /\ b.pos # 0 /\ Len(x) \in Nat
      /\ Len(b.data) = Len(w.data) + Len(x) /\ Behind(b.data, w.data, written)
  BY <1>4, <1>5, UnitsBuffered
<1> HIDE DEF b, x
<1> DEFINE old == wb.data
           e == b.data
<1>9. /\ old \in Seq(Nat) /\ Len(old) \in Nat /\ e \in Seq(Nat) /\ Len(e) = Len(old) + Len(x)
      /\ Len(e) >= Len(old)
      /\ \A k \in 1 .. Len(old) : e[k] = old[k]
      /\ \A k \in Len(old) + 1 .. Len(e) : e[k] = written + (k - Len(old))
  <2>1. old \in Seq(Nat) /\ Len(old) \in Nat
    BY <1>1 DEF BufferShape
  <2>2. /\ e \in Seq(Nat) /\ Len(e) = Len(old) + Len(x)
        /\ \A k \in 1 .. Len(old) : e[k] = old[k]
        /\ \A k \in Len(old) + 1 .. Len(e) : e[k] = written + (k - Len(old))
    BY <1>5, <1>8, Zenon DEF Behind
  <2>3. Len(e) >= Len(old)
    BY <2>1, <2>2, <1>8
  <2> QED BY <2>1, <2>2, <2>3
<1> HIDE DEF old, e
<1>10. UnitsIn(out, e, written + (Len(e) - Len(old)))
  <2>1. UnitsIn(out, old, written)
    BY <1>1 DEF old
  <2> QED BY <1>1, <1>9, <2>1, UnitsWritten
<1>11. Len(e) - Len(old) = Len(x) /\ written' \in Nat
  BY <1>1, <1>7, <1>8, <1>9
<1>12. UnitsIn(out, b.data, written')
  BY <1>7, <1>10, <1>11, Zenon DEF e
<1>13. CASE is_full(b)
  BY <1>2, <1>7, <1>8, <1>11, <1>12, <1>13, FlushStep
<1>14. CASE ~is_full(b)
  <2>1. wb' = b /\ UNCHANGED <<out, ks, phase>>
    BY <1>7, <1>14, Zenon
  <2>2. Running'
    BY <1>0, <2>1 DEF Running
  <2> DEFINE t == ks.transcript
             rc == ks.read.counter
             m == Len(out) - FinishedIndex
  <2>3. ks = AppKeys(t, m, rc) /\ rc \in Nat /\ Len(out) >= FinishedIndex
    BY <1>1 DEF ApplicationStage
  <2> HIDE DEF t, rc
  <2>4. ks' = AppKeys(t, m, rc) /\ m = Len(out') - FinishedIndex /\ Len(out') >= FinishedIndex
    BY <2>1, <2>3
  <2>5. ApplicationStage'
    <3> HIDE DEF m
    <3> QED BY <1>2, <2>3, <2>4, ApplicationStageNext
  <2>6. NonceIn(out, Running')
    BY <1>1 DEF NonceIn
  <2>7. NonceIn(out', Running') /\ FinishedIn(out') /\ out' \in Seq(ToSet(out')) /\ BufferShape(wb')
        /\ UnitsIn(out', wb'.data, written')
    BY <1>1, <1>8, <1>12, <2>1, <2>6, Zenon
  <2>8. phase' \in {"up", "peer_closed", "closed", "failed"} /\ opened' \in BOOLEAN /\ opened' = (phase' = "up")
    BY <1>1, <1>2, <2>1
  <2> QED BY <1>1, <1>2, <1>11, <2>5, <2>7, <2>8, ApplicationSender
<1> QED BY <1>13, <1>14

\* An empty buffer has no units, and one that is not holds an open record.
LEMMA EmptyBuffer ==
    ASSUME NEW b, BufferShape(b)
    PROVE  /\ is_empty(b) => b.data = << >>
           /\ ~is_empty(b) => b.header = AppHeader /\ b.pos # 0
           /\ b.data \in Seq(Nat)
  BY RecordSizes DEF BufferShape, is_empty, WriteBuffer_new

\* flush and write.
LEMMA WriterStepInv ==
    ASSUME SessionShapes, WriteInv, WriterStep
    PROVE  SessionShapes' /\ WriteInv'
<1>1. phase \in {"up", "peer_closed"} /\ (WriteBytes \/ Flush)
  BY DEF WriterStep
<1>2. CASE Flush
  <2>1. ~is_empty(wb) /\ FlushRecord(wb) /\ UNCHANGED <<profile, lost, hs, opened, written>>
    BY <1>2, Zenon DEF Flush, server
  <2>2. written \in Nat /\ BufferShape(wb) /\ UnitsIn(out, wb.data, written)
    BY <1>1, ApplicationState DEF Running
  <2>3. wb.header = AppHeader /\ wb.pos # 0
    BY <2>1, <2>2, EmptyBuffer
  <2>4. written' \in Nat /\ UnitsIn(out, wb.data, written')
    BY <2>1, <2>2, Zenon
  <2> QED BY <1>1, <2>1, <2>2, <2>3, <2>4, FlushStep
<1>3. CASE WriteBytes
  <2>1. opened
    BY <1>3, Zenon DEF WriteBytes
  <2>2. phase = "up"
    BY <1>1, <2>1, ApplicationState DEF Running
  <2> QED BY <1>3, <2>2, WriteStep
<1> QED BY <1>1, <1>2, <1>3

\* close: what is buffered, then close_notify.
LEMMA CloseStep ==
    ASSUME SessionShapes, WriteInv, Running, CloseConnection
    PROVE  SessionShapes' /\ WriteInv'
<1> DEFINE c == close_record(wb, ks)
           flushed == IF is_empty(wb) THEN out ELSE Append(out, c.record)
           keys == IF is_empty(wb) THEN ks ELSE Sent(ks)
           kind == "Alert"
           enc == opened
           m == "CloseNotify"
           new == WriteBuffer_new
           w == write_record(new, keys, header(kind, enc), m)
           q == w.record
           t == ks.transcript
           rc == ks.read.counter
           run == Running'
           yes == TRUE
<1>1. /\ phase \in {"up", "peer_closed"} /\ wb' = new
      /\ UNCHANGED <<profile, lost, written, hs, opened>>
      /\ \/ lost /\ phase' = "failed" /\ out' = out
         \/ phase' = "closed" /\ out' = Append(flushed, q)
  BY Zenon DEF CloseConnection, server
<1>2. /\ hs.state = "ApplicationData" /\ ApplicationStage
      /\ out \in Seq(ToSet(out)) /\ NonceIn(out, yes) /\ FinishedIn(out)
      /\ written \in Nat /\ BufferShape(wb) /\ UnitsIn(out, wb.data, written) /\ opened \in BOOLEAN
  BY <1>1, ApplicationState
<1>3. Counted(ks, out, t, rc)
  BY <1>2 DEF ApplicationStage, Counted
<1>4. BufferShape(new) /\ new.data = << >>
  BY RecordSizes DEF BufferShape, WriteBuffer_new
<1>5. /\ flushed \in Seq(ToSet(flushed)) /\ NonceIn(flushed, yes) /\ FinishedIn(flushed)
      /\ Counted(keys, flushed, t, rc) /\ UnitsIn(flushed, << >>, written)
  <2> HIDE DEF t, rc
  <2>1. CASE is_empty(wb)
    <3>1. wb.data = << >> /\ flushed = out /\ keys = ks
      BY <1>2, <2>1, EmptyBuffer
    <3> HIDE DEF flushed, keys, yes
    <3> QED BY <1>2, <1>3, <3>1, Zenon
  <2>2. CASE ~is_empty(wb)
    <3> DEFINE r == encrypt(ks, wb)
    <3>1. wb.header = AppHeader /\ wb.data \in Seq(Nat)
      BY <1>2, <2>2, EmptyBuffer
    <3>2. r.inner = "ApplicationData" /\ r.data = wb.data /\ r.nonce = <<ks.write.key, ks.write.counter>>
      BY <3>1, BufferEncrypted
    <3>3. c.record = r
      BY DEF close_record
    <3> HIDE DEF r, c
    <3>4. flushed = Append(out, r) /\ keys = Sent(ks)
      BY <2>2, <3>3
    <3> HIDE DEF flushed, keys, yes
    <3>5. NextNonce(r, ks, yes)
      BY <3>2 DEF NextNonce
    <3>6. NonceIn(out, TRUE)
      BY <1>2 DEF yes
    <3>7. /\ NonceIn(Append(out, r), yes) /\ FinishedIn(Append(out, r))
          /\ Append(out, r) \in Seq(ToSet(Append(out, r))) /\ Counted(Sent(ks), Append(out, r), t, rc)
      BY <1>2, <1>3, <3>5, <3>6, ApplicationRecordSent
    <3>8. UnitsIn(Append(out, r), << >>, written)
      BY <1>2, <3>1, <3>2, UnitsFlushed
    <3> QED BY <3>4, <3>7, <3>8, Zenon
  <2> QED BY <2>1, <2>2
<1>6. CASE lost /\ phase' = "failed" /\ out' = out
  <2>1. NonceIn(out, Running')
    BY <1>2 DEF NonceIn
  <2>2. NonceIn(out', Running') /\ FinishedIn(out') /\ out' \in Seq(ToSet(out')) /\ BufferShape(wb')
    BY <1>1, <1>2, <1>4, <1>6, <2>1, Zenon
  <2>3. opened' \in BOOLEAN /\ ~Running' /\ written' \in Nat
    BY <1>1, <1>2, <1>6 DEF Running
  <2> QED BY <1>1, <1>2, <1>6, <2>2, <2>3, ApplicationSender
<1>7. CASE phase' = "closed" /\ out' = Append(flushed, q)
  <2>0. ~run
    BY <1>7 DEF Running
  <2>1. kind = "Alert"
    OBVIOUS
  <2> HIDE DEF flushed, keys, enc, kind, m, t, rc, run, c
  <2>2. q.inner = kind /\ q.nonce = IF enc THEN get_nonce(keys.write) ELSE NoSecret
    BY WriteRecord
  <2> HIDE DEF q, w
  <2>3. q.inner = "Alert" /\ NextNonce(q, keys, run)
    BY <2>0, <2>1, <2>2 DEF NextNonce, get_nonce
  <2>4. NonceIn(Append(flushed, q), run) /\ FinishedIn(Append(flushed, q))
        /\ Append(flushed, q) \in Seq(ToSet(Append(flushed, q)))
    BY <1>5, <2>3, ApplicationRecordSent
  <2>5. UnitsIn(Append(flushed, q), << >>, written)
    <3> DEFINE d == << >>
    <3>1. d \in Seq(Nat) /\ d = << >>
      OBVIOUS
    <3>2. q.inner # "ApplicationData"
      BY <2>3
    <3>3. UnitsIn(flushed, d, written)
      BY <1>5
    <3> HIDE DEF d
    <3> QED BY <1>5, <3>1, <3>2, <3>3, UnitsFlushed
  <2>6. NonceIn(out', Running') /\ FinishedIn(out') /\ out' \in Seq(ToSet(out')) /\ BufferShape(wb')
        /\ UnitsIn(out', wb'.data, written')
    BY <1>1, <1>4, <1>7, <2>4, <2>5, Zenon DEF run
  <2>7. opened' \in BOOLEAN /\ ~Running' /\ written' \in Nat
    BY <1>1, <1>2, <1>7 DEF Running
  <2> QED BY <1>1, <1>2, <1>7, <2>6, <2>7, ApplicationSender
<1> QED BY <1>1, <1>6, <1>7

\* A message hashed after the handshake.
LEMMA HashedApplication ==
    \A t, c, rc, m : Hashed(AppKeys(t, c, rc), m) = AppKeys(Append(t, m), c, rc)
  BY Z3T(30) DEF AppKeys, Keys, Schedule, Traffic, Hashed

\* What a record after the handshake does to the session.
LEMMA RecordSession ==
    ASSUME RecordOutcome
    PROVE  /\ \/ ks' = ks
              \/ ks' = Received(ks)
              \/ ks' = Hashed(ks, "NewSessionTicket")
              \/ ks' = Received(Hashed(ks, "NewSessionTicket"))
           /\ \/ phase' = "failed" /\ opened' = opened
              \/ phase' = "peer_closed" /\ opened' = FALSE
              \/ phase' = phase /\ opened' = opened
  BY Zenon DEF RecordOutcome, HandleRecord, HandleGarbage, Ends

\* A record after the handshake: the records sent are not touched, and the
\* keys keep their place.
LEMMA ApplicationRecordStep ==
    ASSUME SessionShapes, WriteInv, Running, ApplicationRecord
    PROVE  SessionShapes' /\ WriteInv'
<1> DEFINE m == "NewSessionTicket"
           t == ks.transcript
           rc == ks.read.counter
           n == Len(out) - FinishedIndex
<1>1. phase = "up" /\ RecordOutcome
  BY RecordSteps
<1>2. UNCHANGED <<profile, lost, out, wb, written, hs>>
  BY ClientFrames, Zenon DEF server, writing
<1>3. /\ hs.state = "ApplicationData" /\ ApplicationStage /\ opened = (phase = "up")
      /\ out \in Seq(ToSet(out)) /\ NonceIn(out, TRUE) /\ FinishedIn(out)
      /\ written \in Nat /\ BufferShape(wb) /\ UnitsIn(out, wb.data, written) /\ opened \in BOOLEAN
  BY <1>1, ApplicationState
<1>4. ks = AppKeys(t, n, rc) /\ rc \in Nat /\ Len(out) >= FinishedIndex
  BY <1>3 DEF ApplicationStage
<1>5. \E u : \E c \in Nat : ks' = AppKeys(u, n, c)
  <2>1. \/ ks' = ks
        \/ ks' = Received(ks)
        \/ ks' = Hashed(ks, m)
        \/ ks' = Received(Hashed(ks, m))
    BY <1>1, RecordSession, Zenon
  <2> HIDE DEF m, t, rc, n
  <2>2. Received(AppKeys(t, n, rc)) = AppKeys(t, n, rc + 1)
    BY <1>4, ReceivedKeys, Zenon
  <2>3. Hashed(AppKeys(t, n, rc), m) = AppKeys(Append(t, m), n, rc)
    BY HashedApplication, Zenon
  <2>4. Received(AppKeys(Append(t, m), n, rc)) = AppKeys(Append(t, m), n, rc + 1)
    BY <1>4, ReceivedKeys, Zenon
  <2>5. rc + 1 \in Nat
    BY <1>4
  <2> QED BY <1>4, <2>1, <2>2, <2>3, <2>4, <2>5, Zenon
<1>5a. PICK u : \E c \in Nat : ks' = AppKeys(u, n, c)
  BY <1>5
<1>6. PICK c \in Nat : ks' = AppKeys(u, n, c)
  BY <1>5a
<1>7. ApplicationStage'
  <2>1. n = Len(out') - FinishedIndex /\ Len(out') >= FinishedIndex
    BY <1>2, <1>4
  <2> HIDE DEF n
  <2> QED BY <1>2, <1>6, <2>1, ApplicationStageNext
<1>8. NonceIn(out, Running')
  BY <1>3 DEF NonceIn
<1>9. NonceIn(out', Running') /\ FinishedIn(out') /\ out' \in Seq(ToSet(out')) /\ BufferShape(wb')
      /\ UnitsIn(out', wb'.data, written') /\ written' \in Nat
  BY <1>2, <1>3, <1>8, Zenon
<1>10. /\ phase' \in {"up", "peer_closed", "failed"} /\ opened' \in BOOLEAN
       /\ Running' => opened' = (phase' = "up")
  <2>1. \/ phase' = "failed" /\ opened' = opened
        \/ phase' = "peer_closed" /\ opened' = FALSE
        \/ phase' = phase /\ opened' = opened
    BY <1>1, RecordSession, Zenon
  <2> QED BY <1>1, <1>3, <2>1 DEF Running
<1> QED BY <1>2, <1>3, <1>7, <1>9, <1>10, ApplicationSender

\* open(): the handshake begins.
LEMMA OpenStep ==
    ASSUME SessionShapes, WriteInv, StreamInv, OpenConnection
    PROVE  SessionShapes' /\ WriteInv'
<1>1. phase = "new" /\ phase' = "opening"
  BY DEF OpenConnection
<1>2. UNCHANGED <<profile, srv, lost, rd, wb, out, written, ks, hs, opened>>
  BY ClientFrames, Zenon DEF server, reading, writing
<1>3. Running /\ Running' /\ profile \in Profiles
  BY <1>1 DEF Running, SessionShapes
<1>4. Len(srv) \in Nat
  BY StreamEndFacts
<1>5. KeyInv'
  BY <1>2, <1>3, <1>4, KeyFrame DEF WriteInv
<1>6. SessionShapes'
  BY <1>1, <1>2 DEF SessionShapes, Phases
<1>7. PhaseInv' /\ ~opened'
  BY <1>1, <1>2 DEF WriteInv, PhaseInv
<1>8. NonceInv' /\ FinishedInv'
  <2>1. NonceIn(out, TRUE) /\ FinishedIn(out)
    BY <1>3 DEF WriteInv, NonceInv, FinishedInv, NonceIn
  <2>2. \A x : NonceIn(out, x)
    BY <2>1 DEF NonceIn
  <2> QED BY <1>2, <2>1, <2>2, RecordsFrame
<1>9. BufferInv' /\ UnitsInv'
  BY <1>1, <1>2 DEF WriteInv, BufferInv, UnitsInv, UnitsIn, PlacesIn, UnitIn
<1> QED BY <1>1, <1>5, <1>6, <1>7, <1>8, <1>9 DEF WriteInv

\* Every step keeps what the records sent rest on.
LEMMA SenderStep ==
    ASSUME SessionShapes, ReaderShapes, WriteInv, StreamInv, Next
    PROVE  SessionShapes' /\ WriteInv'
<1>1. Running /\ profile \in Profiles
  BY Steps DEF SessionShapes
<1>2. /\ Len(srv) \in Nat /\ Len(srv') \in Nat /\ Len(srv') >= Len(srv) /\ profile' = profile
  BY <1>1, StreamStep, StreamEndFacts
<1>3. CASE ServerStep
  <2>1. UNCHANGED <<profile, rd, ks, hs, out, wb, written, phase, opened>> /\ (lost' = lost \/ lost' = TRUE)
    BY <1>3, Zenon DEF ServerStep, ServerFlight, ServerSends, TransportLost, reading, writing, session
  <2>2. lost' \in BOOLEAN
    BY <2>1 DEF SessionShapes
  <2> QED BY <1>1, <1>2, <2>1, <2>2, SenderFrame
<1>4. CASE ClientSends
  <2>1. CASE client_hello
    BY <2>1, ClientHelloSent
  <2>2. CASE client_cert
    BY <2>2, ClientCertSent
  <2>3. CASE client_cert_verify
    BY <2>3, ClientCertVerifySent
  <2>4. CASE client_finished
    BY <2>4, ClientFinishedSent
  <2> QED BY <1>4, <2>1, <2>2, <2>3, <2>4 DEF ClientSends
<1>5. CASE ReaderStep
  <2>1. /\ UNCHANGED <<profile, lost, ks, hs, out, wb, written, opened>>
        /\ phase' = phase \/ phase' = "failed"
    BY <1>5, ClientFrames, Zenon DEF server, writing
  <2>2. lost' \in BOOLEAN /\ opened' \in BOOLEAN
    BY <2>1 DEF SessionShapes
  <2>3. rd'.at = "idle" \/ rd.at # "idle" \/ hs.state \in {"ServerHello", "ServerVerify"} \/ phase = "up"
    BY <1>5, Zenon DEF ReaderStep, HeaderPiece, BodyPiece, ReadFails, HandshakeRead, CancelRead
  <2> QED BY <1>1, <1>2, <2>1, <2>2, <2>3, SenderFrame
<1>6. CASE TakeStep
  <2>1. UNCHANGED <<profile, lost, rd, ks, hs, out, wb, written, phase, opened>>
    BY <1>6, ClientFrames, Zenon DEF server, writing, session
  <2>2. lost' \in BOOLEAN
    BY <2>1 DEF SessionShapes
  <2> QED BY <1>1, <1>2, <2>1, <2>2, SenderFrame
<1>7. CASE OpenConnection
  BY <1>7, OpenStep
<1>8. CASE HandshakeRecord
  BY <1>8, HandshakeRecordStep
<1>9. CASE ApplicationRecord
  BY <1>1, <1>9, ApplicationRecordStep
<1>10. CASE WriterStep
  BY <1>10, WriterStepInv
<1>11. CASE CloseConnection
  BY <1>1, <1>11, CloseStep
<1> QED BY <1>3, <1>4, <1>5, <1>6, <1>7, <1>8, <1>9, <1>10, <1>11, Steps, Zenon

-----------------------------------------------------------------------------
(* Theorems.                                                               *)

\* A new connection.
LEMMA InitSInv ==
    ASSUME Init
    PROVE  SInv
<1>1. /\ profile \in Profiles /\ srv = << >> /\ lost = FALSE /\ ks = KeySchedule_new
      /\ hs = Handshake_new /\ rdr = RecordReader_new /\ dec = DecryptedBufferInfo_default
      /\ taken = 0 /\ rd = Idle /\ wb = WriteBuffer_new /\ out = << >> /\ opened = FALSE
      /\ phase = "new" /\ written = 0
  BY DEF Init
<1>2. SessionShapes
  <2>1. << >> \in Seq(ToSet(<< >>))
    OBVIOUS
  <2>2. out \in Seq(ToSet(out))
    BY <1>1, <2>1, Zenon
  <2>3. hs \in [state : States, traffic_hash : {hs.traffic_hash}, secret : BOOLEAN,
                certificate_request : BOOLEAN]
    BY <1>1 DEF Handshake_new, States
  <2> QED BY <1>1, <2>2, <2>3 DEF SessionShapes, Phases
<1>3. ReaderShapes
  <2>1. ReadBufLen \in Nat
    BY RecordSizes
  <2>2. rdr \in Buffers /\ rdr.decoded + rdr.pending <= ReadBufLen
    BY <1>1, <2>1 DEF RecordReader_new, Buffers, Contents
  <2>3. rd \in Readings
    BY <1>1 DEF Idle, Readings
  <2>4. dec \in [offset : Nat, len : Nat, consumed : Nat] /\ dec.consumed <= dec.len /\ taken \in Nat
    BY <1>1 DEF DecryptedBufferInfo_default
  <2> QED BY <2>2, <2>3, <2>4 DEF ReaderShapes
<1>4. StreamInv
  <2>1. srv \in Seq(ToSet(srv)) /\ DOMAIN srv = {}
    BY <1>1
  <2> QED BY <2>1 DEF StreamInv, Contiguous, Ordered
<1>5. hs.state = "ClientHello" /\ hs.certificate_request = FALSE /\ rd.at = "idle"
  BY <1>1 DEF Handshake_new, Idle
<1>6. KeyInv
  BY <1>1, <1>5 DEF KeyInv, ClientHelloStage
<1>7. PhaseInv
  BY <1>1, <1>5 DEF PhaseInv
<1>8. DOMAIN out = {}
  BY <1>1
<1>9. NonceInv /\ FinishedInv
  <2>1. FinishedIndex \notin DOMAIN out /\ 1 \notin DOMAIN out
    BY <1>8
  <2> QED BY <1>8, <2>1 DEF NonceInv, NonceIn, FinishedInv, FinishedIn
<1>10. BufferInv
  BY <1>1, RecordSizes DEF BufferInv, WriteBuffer_new
<1>11. UnitsInv
  <2>1. wb.data = << >>
    BY <1>1 DEF WriteBuffer_new
  <2>2. DOMAIN wb.data = {}
    BY <2>1
  <2>3. \A p : p \notin PlacesIn(out, wb.data)
    BY <1>8, <2>2, PlaceFacts
  <2>4. PlacesIn(out, wb.data) = {} /\ 1 .. written = {}
    BY <1>1, <2>3
  <2> QED BY <2>4, Zenon DEF UnitsInv, UnitsIn
<1>12. WriteInv
  BY <1>1, <1>6, <1>7, <1>9, <1>10, <1>11 DEF WriteInv
<1> QED BY <1>2, <1>3, <1>4, <1>12 DEF SInv

\* A step that changes nothing.
LEMMA SInvStutters ==
    ASSUME SInv, UNCHANGED vars
    PROVE  SInv'
<1>1. UNCHANGED <<profile, srv, lost, ks, hs, rdr, dec, taken, rd, wb, out, opened, phase, written>>
  BY Zenon DEF vars, server, reading, writing, session
<1>2. SessionShapes' /\ ReaderShapes'
  BY <1>1 DEF SInv, SessionShapes, ReaderShapes
<1>3. StreamInv'
  BY <1>1, StreamFrame DEF SInv
<1>4. KeyInv => KeyInv'
  <2>1. Len(srv) \in Nat /\ profile \in Profiles
    BY StreamEndFacts DEF SInv, SessionShapes
  <2> QED BY <1>1, <2>1, KeyFrame
<1>5. NonceInv' /\ FinishedInv'
  <2>1. Running' = Running
    BY <1>1 DEF Running
  <2>2. NonceIn(out', Running') /\ FinishedIn(out')
    BY <1>1, <2>1 DEF SInv, WriteInv, NonceInv, FinishedInv
  <2> QED BY <1>1, <2>2, RecordsFrame
<1>6. PhaseInv' /\ BufferInv'
  BY <1>1 DEF SInv, WriteInv, PhaseInv, BufferInv
<1>7. (phase # "failed" => UnitsInv)'
  BY <1>1 DEF SInv, WriteInv, UnitsInv, UnitsIn, PlacesIn, UnitIn
<1>8. (Running => KeyInv /\ (opened => phase = "up"))'
  BY <1>1, <1>4 DEF SInv, WriteInv, Running
<1> QED BY <1>2, <1>3, <1>5, <1>6, <1>7, <1>8 DEF SInv, WriteInv

\* The inductive invariant of the sender and of the shapes.
LEMMA SInvInductive == Spec => []SInv
<1>1. Init => SInv
  BY InitSInv
<1>2. SInv /\ [Next]_vars => SInv'
  <2> SUFFICES ASSUME SInv, [Next]_vars PROVE SInv'
    OBVIOUS
  <2>1. CASE Next
    <3>1. SessionShapes' /\ WriteInv'
      BY <2>1, SenderStep DEF SInv
    <3>2. ReaderShapes'
      BY <2>1, ReaderShapesStep DEF SInv
    <3>3. StreamInv'
      BY <2>1, StreamStep DEF SInv, SessionShapes
    <3> QED BY <3>1, <3>2, <3>3 DEF SInv
  <2>2. CASE UNCHANGED vars
    BY <2>2, SInvStutters
  <2> QED BY <2>1, <2>2
<1> QED BY <1>1, <1>2, PTL DEF Spec

\* The records before one that is encrypted, under the same key.
LEMMA SealedBeforeCount ==
    ASSUME SInv, NEW i \in DOMAIN out, out[i].nonce # NoSecret
    PROVE  out[i].nonce = <<ServerKey(IF i <= FinishedIndex THEN "c hs traffic" ELSE "c ap traffic"),
                            Cardinality(SealedBefore(i))>>
<1>1. out \in Seq(ToSet(out)) /\ NonceIn(out, Running) /\ FinishedIndex \in 2 .. 4
  BY ClientMessagesFacts DEF SInv, SessionShapes, WriteInv, NonceInv
<1>2. Len(out) \in Nat /\ DOMAIN out = 1 .. Len(out)
  BY <1>1
<1>3. i \in 1 .. Len(out) /\ i \in Nat /\ i - 1 \in Int
  BY <1>2
<1>4. ASSUME NEW j \in Nat, 1 <= j, j < i PROVE (out[j].nonce # NoSecret) <=> (j > 1)
  <2>1. j \in DOMAIN out /\ j # Len(out)
    <3> DEFINE L == Len(out)
    <3>1. i <= L /\ i \in Nat /\ L \in Nat /\ DOMAIN out = 1 .. L
      BY <1>2, <1>3
    <3> HIDE DEF L
    <3>2. j \in 1 .. L /\ j # L
      BY <1>4, <3>1
    <3> QED BY <3>1, <3>2, Zenon DEF L
  <2>2. \/ out[j].nonce = NoSecret /\ (j = 1 \/ (j = Len(out) /\ ~Running))
        \/ j \in 2 .. FinishedIndex /\ out[j].nonce = <<ClientHsKey, j - 2>>
        \/ j > FinishedIndex /\ out[j].nonce = <<ClientAppKey, j - FinishedIndex - 1>>
    BY <1>1, <2>1 DEF NonceIn
  <2>3. CASE out[j].nonce = NoSecret /\ (j = 1 \/ (j = Len(out) /\ ~Running))
    BY <2>1, <2>3
  <2>4. CASE j \in 2 .. FinishedIndex /\ out[j].nonce = <<ClientHsKey, j - 2>>
    <3>1. j > 1
      BY <1>1, <2>4
    <3> QED BY <2>4, <3>1, PairIsNoSecretNot, Zenon
  <2>5. CASE j > FinishedIndex /\ out[j].nonce = <<ClientAppKey, j - FinishedIndex - 1>>
    <3>1. j > 1
      BY <1>1, <2>5
    <3> QED BY <2>5, <3>1, PairIsNoSecretNot, Zenon
  <2> QED BY <2>2, <2>3, <2>4, <2>5
<1>4a. \A j \in 1 .. i - 1 : (out[j].nonce # NoSecret) <=> (j > 1)
  BY <1>3, <1>4
<1>5. \/ i \in 2 .. FinishedIndex /\ out[i].nonce = <<ClientHsKey, i - 2>>
      \/ i > FinishedIndex /\ out[i].nonce = <<ClientAppKey, i - FinishedIndex - 1>>
  BY <1>1 DEF NonceIn
<1>6. CASE i \in 2 .. FinishedIndex /\ out[i].nonce = <<ClientHsKey, i - 2>>
  <2>1. SealedBefore(i) = 2 .. i - 1
    BY <1>1, <1>3, <1>4a, <1>6 DEF SealedBefore
  <2>2. Cardinality(2 .. i - 1) = i - 2
    <3> DEFINE lo == 2
               hi == i - 1
    <3>1. lo \in Int /\ hi \in Int
      BY <1>3
    <3>2. (IF lo > hi THEN 0 ELSE hi - lo + 1) = i - 2
      BY <1>1, <1>3, <1>6
    <3> HIDE DEF lo, hi
    <3>3. Cardinality(lo .. hi) = IF lo > hi THEN 0 ELSE hi - lo + 1
      BY <3>1, FS_Interval
    <3>4. Cardinality(lo .. hi) = i - 2
      BY <3>2, <3>3
    <3> QED BY <3>4 DEF lo, hi
  <2>3. (IF i <= FinishedIndex THEN "c hs traffic" ELSE "c ap traffic") = "c hs traffic"
    <3>1. i <= FinishedIndex
      BY <1>1, <1>6
    <3> QED BY <3>1, Zenon
  <2> QED BY <1>6, <2>1, <2>2, <2>3, Zenon DEF ClientHsKey
<1>7. CASE i > FinishedIndex /\ out[i].nonce = <<ClientAppKey, i - FinishedIndex - 1>>
  <2>1. SealedBefore(i) = FinishedIndex + 1 .. i - 1
    BY <1>1, <1>3, <1>4a, <1>7 DEF SealedBefore
  <2>2. Cardinality(FinishedIndex + 1 .. i - 1) = i - FinishedIndex - 1
    <3> DEFINE lo == FinishedIndex + 1
               hi == i - 1
    <3>1. lo \in Int /\ hi \in Int
      BY <1>1, <1>3
    <3>2. (IF lo > hi THEN 0 ELSE hi - lo + 1) = i - FinishedIndex - 1
      BY <1>1, <1>3, <1>7
    <3> HIDE DEF lo, hi
    <3>3. Cardinality(lo .. hi) = IF lo > hi THEN 0 ELSE hi - lo + 1
      BY <3>1, FS_Interval
    <3>4. Cardinality(lo .. hi) = i - FinishedIndex - 1
      BY <3>2, <3>3
    <3> QED BY <3>4 DEF lo, hi
  <2>3. (IF i <= FinishedIndex THEN "c hs traffic" ELSE "c ap traffic") = "c ap traffic"
    <3>1. ~(i <= FinishedIndex)
      BY <1>1, <1>3, <1>7
    <3> QED BY <3>1, Zenon
  <2> QED BY <1>7, <2>1, <2>2, <2>3, Zenon DEF ClientAppKey
<1> QED BY <1>5, <1>6, <1>7

\* Whatever the configuration of the two ends, however the server's flight is
\* laid out and whatever the sizes of the buffers, a server that keeps to the
\* protocol opens every record of the client, in order and with the keys of the
\* same transcript (connection.rs, key_schedule.rs, write_buffer.rs).
THEOREM RecordsAreAccepted == Spec => []ServerAccepts
<1>1. SInv => ServerAccepts
  <2> SUFFICES ASSUME SInv PROVE ServerAccepts
    OBVIOUS
  <2>0. /\ out \in Seq(ToSet(out)) /\ FinishedIn(out) /\ FinishedIndex \in 2 .. 4
        /\ phase # "failed" => UnitsInv
    BY ClientMessagesFacts DEF SInv, SessionShapes, WriteInv, FinishedInv
  <2>1. Len(out) \in Nat /\ DOMAIN out = 1 .. Len(out)
    BY <2>0
  <2>2. out # << >> /\ profile.psk =>
           out[1].data[2] = Mac(Expand(Extract(zero, Psk), "ext binder", << >>), Truncated)
    <3>1. out # << >> => 1 \in DOMAIN out
      BY <2>0, <2>1
    <3> QED BY <2>0, <3>1, Zenon DEF FinishedIn, ExpectedBinder, Binder, EarlyPrk
  <2>3. \A i \in DOMAIN out : out[i].nonce # NoSecret =>
           out[i].nonce = <<ServerKey(IF i <= FinishedIndex THEN "c hs traffic" ELSE "c ap traffic"),
                            Cardinality(SealedBefore(i))>>
    BY SealedBeforeCount, Zenon
  <2>4. Len(out) >= FinishedIndex /\ out[FinishedIndex].inner = "Handshake" =>
           out[FinishedIndex].data = <<ClientVerify(HelloTranscript \o Flight \o ClientMessages)>>
    <3>1. Len(out) >= FinishedIndex => FinishedIndex \in DOMAIN out
      BY <2>0, <2>1
    <3>2. out[FinishedIndex].inner = "Handshake" => out[FinishedIndex].inner # "Alert"
      OBVIOUS
    <3>3. ExpectedFinished = <<ClientVerify(HelloTranscript \o Flight \o ClientMessages)>>
      BY Zenon DEF ExpectedFinished, ClientVerify, ClientHsKey, ServerTranscript
    <3> QED BY <2>0, <3>1, <3>2, <3>3, Zenon DEF FinishedIn
  <2>5. phase # "failed" =>
           /\ {Unit(p) : p \in UnitPlaces} = 1 .. written
           /\ \A p, q \in UnitPlaces : Earlier(p, q) => Unit(p) < Unit(q)
    BY <2>0, Zenon DEF UnitsInv, UnitsIn, PlacesIn, UnitIn, UnitPlaces, Unit
  <2> QED BY <2>2, <2>3, <2>4, <2>5, Zenon DEF ServerAccepts
<1> QED BY <1>1, SInvInductive, PTL

-----------------------------------------------------------------------------
(* The units handed to the caller.                                         *)

\* The places of the application data of record i.
InRecord(i, u) ==
    /\ srv[i].inner = "ApplicationData"
    /\ u \in srv[i].start + HeaderLen + 1 .. srv[i].start + HeaderLen + srv[i].n - 1

\* A unit of application data lies inside one record.
LEMMA UnitRecord ==
    ASSUME StreamInv, NEW u
    PROVE  /\ u \in AppUnits <=> \E i \in DOMAIN srv : InRecord(i, u)
           /\ \A i \in DOMAIN srv : InRecord(i, u) =>
                 u \in Nat /\ srv[i].start + HeaderLen < u /\ u < EndOf(i)
<1>1. u \in AppUnits <=> \E i \in DOMAIN srv : InRecord(i, u)
  <2>1. ToSet(srv) = {srv[i] : i \in DOMAIN srv}
    BY DEF ToSet
  <2>2. ASSUME u \in AppUnits PROVE \E i \in DOMAIN srv : InRecord(i, u)
    <3>1. PICK r \in ToSet(srv) : /\ r.inner = "ApplicationData"
                                  /\ u \in r.start + HeaderLen + 1 .. r.start + HeaderLen + r.n - 1
      BY <2>2, Zenon DEF AppUnits
    <3>2. PICK i \in DOMAIN srv : r = srv[i]
      BY <2>1, Zenon
    <3> QED BY <3>1, <3>2, Zenon DEF InRecord
  <2>3. ASSUME NEW i \in DOMAIN srv, InRecord(i, u) PROVE u \in AppUnits
    <3>1. srv[i] \in ToSet(srv)
      BY <2>1, Zenon
    <3> QED BY <2>3, <3>1, Zenon DEF AppUnits, InRecord
  <2> QED BY <2>2, <2>3
<1>2. ASSUME NEW i \in DOMAIN srv, InRecord(i, u)
      PROVE  u \in Nat /\ srv[i].start + HeaderLen < u /\ u < EndOf(i)
  <2>1. srv[i].n \in Nat \ {0} /\ srv[i].start \in Nat /\ HeaderLen \in Nat
    BY RecordSizes DEF StreamInv, Contiguous
  <2> QED BY <1>2, <2>1 DEF InRecord, EndOf
<1> QED BY <1>1, <1>2

\* What lies below the end of a record lies in it or in one before it.
LEMMA UnitBelow ==
    ASSUME StreamInv, NEW c \in DOMAIN srv, NEW u, NEW i \in DOMAIN srv, InRecord(i, u), u < EndOf(c)
    PROVE  i <= c
<1>1. DOMAIN srv = 1 .. Len(srv) /\ Len(srv) \in Nat /\ EndOf(c) \in Nat
  BY StreamEndFacts
<1>2. u \in Nat /\ srv[i].start + HeaderLen < u /\ srv[i].start \in Nat /\ HeaderLen \in Nat
  BY UnitRecord, RecordSizes DEF StreamInv, Contiguous
<1>3. ASSUME c < i PROVE FALSE
  <2>1. EndOf(c) <= srv[i].start
    BY <1>3 DEF StreamInv, Contiguous
  <2> QED BY <1>1, <1>2, <2>1
<1> QED BY <1>1, <1>3

\* The same of every unit.
StreamUnits ==
    /\ \A u \in AppUnits : \E i \in DOMAIN srv : InRecord(i, u)
    /\ \A u : \A i \in DOMAIN srv : InRecord(i, u) => u \in AppUnits
    /\ \A c \in DOMAIN srv : \A u : \A i \in DOMAIN srv : InRecord(i, u) /\ u < EndOf(c) => i <= c
    /\ DOMAIN srv = 1 .. Len(srv) /\ Len(srv) \in Nat /\ AppUnits \subseteq Nat

\* StreamUnits holds of every stream, so also of the stream after a step.
LEMMA UnitsOfStream == StreamInv => StreamUnits
  BY UnitRecord, UnitBelow, StreamEndFacts DEF StreamUnits

\* A stream that grows keeps the units below the end of a record.
LEMMA UnitsKept ==
    ASSUME StreamInv, StreamInv', \A i \in DOMAIN srv : i \in DOMAIN srv' /\ srv'[i] = srv[i],
           NEW c \in DOMAIN srv, NEW x \in Int, x < EndOf(c)
    PROVE  {u \in AppUnits' : u <= x} = {u \in AppUnits : u <= x}
<1>1. /\ DOMAIN srv = 1 .. Len(srv) /\ Len(srv) \in Nat /\ EndOf(c) \in Nat
  BY StreamEndFacts
<1>2. /\ \A u \in AppUnits' : \E i \in DOMAIN srv' : InRecord(i, u)'
      /\ \A u : \A i \in DOMAIN srv' : InRecord(i, u)' => u \in AppUnits'
      /\ \A b \in DOMAIN srv' : \A u : \A i \in DOMAIN srv' : InRecord(i, u)' /\ u < EndOf(b)' => i <= b
      /\ DOMAIN srv' = 1 .. Len(srv') /\ Len(srv') \in Nat /\ AppUnits' \subseteq Nat
  <2>1. StreamUnits'
    BY UnitsOfStream, PTL
  <2> QED BY <2>1 DEF StreamUnits
<1>3. EndOf(c)' = EndOf(c) /\ \A i \in DOMAIN srv : \A u : InRecord(i, u)' <=> InRecord(i, u)
  BY DEF EndOf, InRecord
<1>4. ASSUME NEW u \in AppUnits', u <= x PROVE u \in AppUnits
  <2>1. PICK i \in DOMAIN srv' : InRecord(i, u)'
    BY <1>2, <1>4
  <2>2. u \in Nat /\ u < EndOf(c)
    BY <1>1, <1>2, <1>4
  <2>3. i <= c
    BY <1>2, <1>3, <2>1, <2>2
  <2>4. i \in DOMAIN srv
    BY <1>1, <1>2, <2>3
  <2> QED BY <1>3, <2>1, <2>4, UnitsOfStream DEF StreamUnits
<1>5. AppUnits \subseteq AppUnits'
  BY <1>2, <1>3, UnitsOfStream DEF StreamUnits
<1> QED BY <1>4, <1>5

\* Between the end of a record and the plaintext of the next there is no
\* application data, and none at all in a record of another kind.
LEMMA UnitsBetween ==
    ASSUME StreamInv, NEW c \in DOMAIN srv, c + 1 \in DOMAIN srv, NEW x \in Int,
           EndOf(c) - 1 <= x, x < EndOf(c + 1),
           x <= srv[c + 1].start + HeaderLen \/ srv[c + 1].inner # "ApplicationData"
    PROVE  {u \in AppUnits : u <= x} = {u \in AppUnits : u <= EndOf(c) - 1}
<1>1. StreamUnits /\ EndOf(c) \in Nat /\ EndOf(c + 1) \in Nat /\ c \in Nat
  BY UnitsOfStream, StreamEndFacts
<1>2. ASSUME NEW u \in AppUnits, u <= x PROVE u <= EndOf(c) - 1
  <2>1. PICK i \in DOMAIN srv : InRecord(i, u)
    BY <1>1 DEF StreamUnits
  <2>2. u \in Nat /\ srv[i].start + HeaderLen < u /\ u < EndOf(i) /\ i \in Nat
    BY <2>1, UnitRecord, StreamEndFacts
  <2>3. i <= c + 1
    BY <1>1, <1>2, <2>1, <2>2 DEF StreamUnits
  <2>4. i # c + 1
    <3> SUFFICES ASSUME i = c + 1 PROVE FALSE
      OBVIOUS
    <3>1. srv[i].start \in Nat /\ HeaderLen \in Nat
      BY RecordSizes DEF StreamInv, Contiguous
    <3> QED BY <2>1, <2>2, <1>2, <3>1 DEF InRecord
  <2>5. i = c \/ i < c
    BY <1>1, <2>2, <2>3, <2>4
  <2>6. ASSUME i < c PROVE EndOf(i) <= EndOf(c)
    <3>1. EndOf(i) <= srv[c].start /\ srv[c].start \in Nat /\ srv[c].n \in Nat /\ HeaderLen \in Nat
      BY <2>6, RecordSizes DEF StreamInv, Contiguous
    <3> QED BY <3>1, StreamEndFacts, SMTT(30) DEF EndOf
  <2>7. EndOf(i) \in Nat
    BY StreamEndFacts
  <2> QED BY <1>1, <2>2, <2>5, <2>6, <2>7
<1>3. \A u \in AppUnits : u <= EndOf(c) - 1 => u <= x
  BY <1>1 DEF StreamUnits
<1> QED BY <1>2, <1>3

\* There is no application data in the flight.
LEMMA UnitsOfFlight ==
    ASSUME StreamInv, profile \in Profiles, profile.hello = "ok", Len(FlightRecords) \in DOMAIN srv
    PROVE  {u \in AppUnits : u <= EndOf(Len(FlightRecords)) - 1} = {}
<1> DEFINE F == Len(FlightRecords)
<1>1. StreamUnits /\ EndOf(F) \in Nat
  BY UnitsOfStream, StreamEndFacts
<1>2. /\ PlainRecords \in 1 .. 2 /\ SealedRecords \in 1 .. 5 /\ F = PlainRecords + SealedRecords
  BY FlightRecordFacts
<1>3. ASSUME NEW i \in DOMAIN srv, i <= F PROVE srv[i].inner # "ApplicationData"
  <2>1. i \in Nat /\ i >= 1
    BY StreamEndFacts
  <2>2. srv[i] = Placed(FlightRecords[i], srv[i].start)
    BY <1>3 DEF StreamInv, Ordered
  <2>3. CASE i = 1
    <3>1. FlightRecords[i] = Plain("Handshake", <<"ServerHello">>)
      BY <2>3, FlightRecordFacts
    <3>2. srv[i].inner = "Handshake"
      BY <2>2, <3>1, PlacedPlain
    <3> QED BY <3>2
  <2>4. CASE i = 2 /\ PlainRecords = 2
    <3>1. FlightRecords[i] = Plain("ChangeCipherSpec", << >>)
      BY <2>4, FlightRecordFacts
    <3>2. srv[i].inner = "ChangeCipherSpec"
      BY <2>2, <3>1, PlacedPlain
    <3> QED BY <3>2
  <2>5. CASE i \in PlainRecords + 1 .. PlainRecords + SealedRecords
    <3> DEFINE l == "s hs traffic"
               d == i - PlainRecords - 1
               h == "Handshake"
               m == IF profile.coalesced THEN Flight ELSE <<Flight[i - PlainRecords]>>
               n == 2
    <3>1. FlightRecords[i] = Sealed(l, d, h, m, n)
      BY <2>5, FlightRecordFacts, Zenon
    <3> HIDE DEF l, d, h, m, n
    <3>2. srv[i].inner = h
      BY <2>2, <3>1, PlacedSealed
    <3> QED BY <3>2 DEF h
  <2> QED BY <1>2, <1>3, <2>1, <2>3, <2>4, <2>5
<1>4. ASSUME NEW u \in AppUnits, u <= EndOf(F) - 1 PROVE FALSE
  <2>1. PICK i \in DOMAIN srv : InRecord(i, u)
    BY <1>1 DEF StreamUnits
  <2>2. u \in Nat /\ u < EndOf(F)
    BY <1>1, <1>4 DEF StreamUnits
  <2>3. i <= F
    BY <1>1, <2>1, <2>2 DEF StreamUnits
  <2> QED BY <1>3, <2>1, <2>3 DEF InRecord
<1> QED BY <1>4

\* Units in order up to a place are delivered in order.
LEMMA HandedInOrder ==
    ASSUME NEW m \in Int, AppUnits \subseteq Nat, HandedIn(handed, AppUnits, m)
    PROVE  DeliveredInOrder
<1>1. /\ handed \in Seq(Nat) /\ DOMAIN handed = 1 .. Len(handed) /\ Len(handed) \in Nat
      /\ {handed[i] : i \in DOMAIN handed} = {u \in AppUnits : u <= m}
      /\ \A i, j \in DOMAIN handed : i < j => handed[i] < handed[j]
  BY DEF HandedIn
<1>2. \A i \in DOMAIN handed : handed[i] \in Nat /\ i \in Nat
  BY <1>1
<1>3. ASSUME NEW i \in DOMAIN handed
      PROVE  {u \in AppUnits : u <= handed[i]} = {handed[j] : j \in 1 .. i}
  <2>1. handed[i] \in AppUnits /\ handed[i] <= m
    BY <1>1
  <2>2. \A j \in 1 .. i : j \in DOMAIN handed
    BY <1>1, <1>2
  <2>3. ASSUME NEW u \in AppUnits, u <= handed[i] PROVE \E j \in 1 .. i : u = handed[j]
    <3>1. u \in Nat /\ u <= m
      BY <1>2, <2>1, <2>3
    <3>2. PICK j \in DOMAIN handed : u = handed[j]
      BY <1>1, <3>1
    <3>3. j <= i
      BY <1>1, <1>2, <2>3, <3>2
    <3> QED BY <1>1, <1>2, <3>2, <3>3
  <2>4. ASSUME NEW j \in 1 .. i PROVE handed[j] \in AppUnits /\ handed[j] <= handed[i]
    <3>1. j \in DOMAIN handed /\ (j = i \/ j < i)
      BY <1>2, <2>2
    <3> QED BY <1>1, <1>2, <3>1
  <2> QED BY <2>3, <2>4
<1> QED BY <1>1, <1>3 DEF DeliveredInOrder

\* More units, right behind those handed over.
LEMMA HandedMore ==
    ASSUME NEW h, NEW S, S \subseteq Nat, NEW m \in Nat, NEW k \in Nat, HandedIn(h, S, m),
           m + 1 .. m + k \subseteq S
    PROVE  HandedIn(h \o [i \in 1 .. k |-> m + i], S, m + k)
<1> DEFINE d == [i \in 1 .. k |-> m + i]
           g == h \o d
           L == Len(h)
<1>1. /\ h \in Seq(Nat) /\ DOMAIN h = 1 .. L /\ L \in Nat
      /\ {h[i] : i \in DOMAIN h} = {u \in S : u <= m}
      /\ \A i, j \in DOMAIN h : i < j => h[i] < h[j]
  BY DEF HandedIn
<1>2. d \in Seq(Nat) /\ Len(d) = k /\ \A i \in 1 .. k : d[i] = m + i
  OBVIOUS
<1> HIDE DEF d
<1>3. /\ g \in Seq(Nat) /\ Len(g) = L + k /\ DOMAIN g = 1 .. L + k
      /\ \A i \in 1 .. L : g[i] = h[i]
      /\ \A i \in L + 1 .. L + k : g[i] = d[i - L]
  BY <1>1, <1>2
<1> HIDE DEF g, L
<1>4. \A i \in 1 .. L : g[i] \in S /\ g[i] <= m /\ g[i] \in Nat
  BY <1>1, <1>3
<1>5. \A i \in L + 1 .. L + k : g[i] = m + (i - L) /\ g[i] \in S
  <2>1. ASSUME NEW i \in L + 1 .. L + k PROVE g[i] = m + (i - L) /\ g[i] \in m + 1 .. m + k
    <3>1. i - L \in 1 .. k
      BY <1>1
    <3>2. g[i] = m + (i - L)
      BY <1>2, <1>3, <3>1
    <3> QED BY <3>1, <3>2
  <2> QED BY <2>1
<1>6. \A i \in DOMAIN g : i \in 1 .. L \/ i \in L + 1 .. L + k
  BY <1>1, <1>3
<1>7. ASSUME NEW i \in DOMAIN g, NEW j \in DOMAIN g, i < j PROVE g[i] < g[j]
  <2>1. CASE j \in 1 .. L
    <3>1. i \in 1 .. L
      BY <1>1, <1>6, <1>7, <2>1
    <3> QED BY <1>1, <1>3, <1>7, <2>1, <3>1
  <2>2. CASE j \in L + 1 .. L + k /\ i \in 1 .. L
    <3>1. g[j] = m + (j - L) /\ j - L > 0 /\ g[i] <= m /\ g[i] \in Nat
      BY <1>1, <1>4, <1>5, <2>2
    <3> QED BY <3>1, <1>1, <2>2
  <2>3. CASE j \in L + 1 .. L + k /\ i \in L + 1 .. L + k
    <3>1. g[j] = m + (j - L) /\ g[i] = m + (i - L)
      BY <1>5, <2>3
    <3> QED BY <3>1, <1>1, <1>7, <2>3
  <2> QED BY <1>6, <2>1, <2>2, <2>3
<1>8. \A i \in DOMAIN g : g[i] \in S /\ g[i] <= m + k
  <2>1. \A i \in L + 1 .. L + k : m + (i - L) <= m + k
    BY <1>1
  <2>2. \A i \in 1 .. L : g[i] <= m + k
    BY <1>4
  <2> QED BY <1>4, <1>5, <1>6, <2>1, <2>2
<1>9. ASSUME NEW u \in S, u <= m + k PROVE \E i \in DOMAIN g : g[i] = u
  <2>1. CASE u <= m
    <3>1. PICK i \in 1 .. L : h[i] = u
      BY <1>1, <2>1
    <3>2. i \in DOMAIN g
      BY <1>1, <1>3
    <3> QED BY <1>3, <3>1, <3>2
  <2>2. CASE ~(u <= m)
    <3> DEFINE e == L + (u - m)
    <3>1. u \in Nat /\ e \in L + 1 .. L + k /\ m + (e - L) = u
      BY <1>1, <1>9, <2>2
    <3>2. e \in DOMAIN g
      BY <1>1, <1>3, <3>1
    <3> HIDE DEF e
    <3>3. g[e] = u
      BY <1>5, <3>1
    <3> QED BY <3>2, <3>3
  <2> QED BY <2>1, <2>2
<1>10. HandedIn(g, S, m + k)
  BY <1>3, <1>7, <1>8, <1>9, ZenonT(30) DEF HandedIn
<1> QED BY <1>10 DEF g, d

-----------------------------------------------------------------------------
(* The reader's steps.                                                     *)

\* The caller has all units up to some place.
HandedSome == AppUnits \subseteq Nat /\ \E m \in Int : HandedIn(handed, AppUnits, m)

\* That is enough for the property, in every state.
LEMMA HandedSomeInOrder == HandedSome => DeliveredInOrder
  BY HandedInOrder DEF HandedSome

\* Where a connection that is up stands in the stream.
LEMMA ReceivingPlace ==
    ASSUME SInv, Running, phase \in {"up", "peer_closed"}, Receiving
    PROVE  /\ profile \in Profiles /\ Len(FlightRecords) \in Nat \ {0} /\ ks.read.counter \in Nat
           /\ ks.read.key = ServerAppKey
           /\ Current \in Nat /\ Current \in DOMAIN srv /\ EndOf(Current) \in Nat
           /\ dec.offset \in Nat /\ dec.len \in Nat /\ dec.consumed \in Nat /\ dec.consumed <= dec.len
           /\ dec_len(dec) \in Nat /\ Mark \in Int /\ Mark < EndOf(Current)
<1>1. profile \in Profiles /\ Len(FlightRecords) \in Nat \ {0}
  BY FlightRecordShapes DEF SInv, SessionShapes
<1>2. ApplicationStage
  BY ApplicationState DEF SInv
<1>3. ks.read.counter \in Nat /\ ks.read.key = ServerAppKey
  BY <1>2, StageFields DEF ApplicationStage
<1>4. Current \in Nat
  BY <1>1, <1>3 DEF Current
<1>5. Current \in DOMAIN srv /\ EndOf(Current) \in Nat
  BY StreamEndFacts DEF SInv, Receiving
<1>6. /\ dec.offset \in Nat /\ dec.len \in Nat /\ dec.consumed \in Nat /\ dec.consumed <= dec.len
      /\ dec_len(dec) \in Nat
  BY DEF SInv, ReaderShapes, dec_len
<1>7. Mark \in Int /\ Mark < EndOf(Current)
  <2> HIDE DEF Current
  <2> QED BY <1>5, <1>6 DEF Mark
<1> QED BY <1>1, <1>3, <1>4, <1>5, <1>6, <1>7

\* What was handed over is still all there is up to the same place.
LEMMA HandedKept ==
    ASSUME SInv, Next, phase \in {"up", "peer_closed"}, Receiving, handed' = handed
    PROVE  /\ HandedIn(handed', AppUnits', Mark) /\ DeliveredInOrder'
           /\ Current \in DOMAIN srv' /\ srv'[Current] = srv[Current] /\ profile' = profile
<1>1. Running /\ profile \in Profiles
  BY Steps DEF SInv, SessionShapes
<1>2. Current \in DOMAIN srv /\ Mark \in Int /\ Mark < EndOf(Current)
  BY <1>1, ReceivingPlace
<1>3. /\ StreamInv' /\ profile' = profile
      /\ \A i \in DOMAIN srv : i \in DOMAIN srv' /\ srv'[i] = srv[i]
  BY <1>1, StreamStep DEF SInv
<1>4. {u \in AppUnits' : u <= Mark} = {u \in AppUnits : u <= Mark}
  <2> HIDE DEF Current, Mark
  <2> QED BY <1>2, <1>3, UnitsKept DEF SInv
<1>5. HandedIn(handed, AppUnits', Mark)
  BY <1>4 DEF Receiving, HandedIn
<1>6. AppUnits' \subseteq Nat
  <2>1. StreamUnits'
    BY <1>3, UnitsOfStream, PTL
  <2> QED BY <2>1 DEF StreamUnits
<1>7. HandedSome'
  BY <1>2, <1>5, <1>6 DEF HandedSome
<1>8. DeliveredInOrder'
  BY <1>7, HandedSomeInOrder, PTL
<1> QED BY <1>2, <1>3, <1>5, <1>8

\* A step that hands nothing over and takes no record.
LEMMA ReceivingFrame ==
    ASSUME SInv, Next, phase \in {"up", "peer_closed"}, Receiving, UNCHANGED <<handed, dec>>,
           ks'.read.counter = ks.read.counter,
           dec_is_empty(dec) \/ (rd'.at = "idle" /\ rdr' = rdr)
    PROVE  Receiving'
<1>1. /\ HandedIn(handed', AppUnits', Mark) /\ Current \in DOMAIN srv'
      /\ srv'[Current] = srv[Current] /\ profile' = profile
  BY HandedKept
<1>2. Current' = Current
  BY <1>1, ProfileFrame DEF Current
<1>3. Mark' = Mark
  BY <1>1, <1>2 DEF Mark, EndOf
<1>4. ~dec_is_empty(dec') => rd'.at = "idle" /\ Window'
  BY <1>1, <1>2 DEF Receiving, Window
<1> QED BY <1>1, <1>2, <1>3, <1>4 DEF Receiving

\* The caller takes units from the window.
LEMMA TakeReceives ==
    ASSUME SInv, Next, Receiving, TakeStep
    PROVE  Receiving'
<1>1. Running /\ phase = "up"
  BY Steps DEF TakeStep
<1>2. /\ Current \in Nat /\ Current \in DOMAIN srv /\ EndOf(Current) \in Nat
      /\ dec.offset \in Nat /\ dec.len \in Nat /\ dec.consumed \in Nat /\ dec.consumed <= dec.len
      /\ dec_len(dec) \in Nat /\ Mark \in Int
  BY <1>1, ReceivingPlace
<1>3. PICK after \in {pop(dec, 1), pop(dec, 2), drop_unused(dec)} :
         /\ rd.at = "idle" /\ ~dec_is_empty(dec) /\ dec' = after
         /\ handed' = handed \o SubSeq(create_read_buffer(dec, rdr), 1, after.consumed - dec.consumed)
  BY Zenon DEF TakeStep, Take
<1>4. /\ dec'.offset = dec.offset /\ dec'.len = dec.len /\ dec'.consumed \in dec.consumed .. dec.len
  BY <1>3, TakeWindow DEF SInv, ReaderShapes
<1>5. UNCHANGED <<profile, srv, rdr, rd, ks>>
  BY ClientFrames, Zenon DEF server, session
<1>6. Current' = Current /\ \A i : EndOf(i)' = EndOf(i)
  BY <1>5, ProfileFrame DEF Current, EndOf
<1>7. AppUnits' = AppUnits
  BY <1>5 DEF AppUnits
<1> DEFINE k == dec'.consumed - dec.consumed
           s == srv[Current].start
           n == srv[Current].n
           e == [i \in 1 .. k |-> Mark + i]
<1>8. /\ Window /\ s \in Nat /\ n \in Nat \ {0} /\ HeaderLen \in Nat
      /\ srv[Current].inner = "ApplicationData"
      /\ dec.len = n - 1 /\ EndOf(Current) = s + HeaderLen + n
  BY <1>2, <1>3, RecordSizes DEF Receiving, Window, SInv, StreamInv, Contiguous, EndOf
<1>9. Mark = s + HeaderLen + dec.consumed /\ Mark \in Nat /\ k \in Nat /\ k <= dec_len(dec)
  <2> HIDE DEF Current, s, n
  <2> QED BY <1>2, <1>4, <1>8 DEF Mark, dec_len
<1>10. Mark' = Mark + k
  <2>1. Mark' = EndOf(Current) - 1 - (dec'.len - dec'.consumed)
    BY <1>6, Zenon DEF Mark, dec_len
  <2>2. Mark = EndOf(Current) - 1 - (dec.len - dec.consumed)
    BY DEF Mark, dec_len
  <2> HIDE DEF Mark, Current
  <2> QED BY <1>2, <1>4, <2>1, <2>2
<1>11. SubSeq(create_read_buffer(dec, rdr), 1, k) = e
  <2> DEFINE b == create_read_buffer(dec, rdr)
             l == dec_len(dec)
  <2>1. ASSUME NEW i \in 1 .. l PROVE rdr.buf[dec.offset + dec.consumed + i - 1] = Mark + i
    <3> DEFINE x == dec.consumed + (i - 1)
    <3>1. x \in 0 .. dec.len - 1 /\ dec.offset + x = dec.offset + dec.consumed + i - 1
      BY <1>2, <2>1 DEF dec_len
    <3>2. rdr.buf[dec.offset + x] = s + HeaderLen + 1 + x
      <4> HIDE DEF x
      <4> QED BY <1>8, <3>1 DEF Window
    <3>3. s + HeaderLen + 1 + x = Mark + i
      <4> HIDE DEF Mark, Current, s
      <4> QED BY <1>2, <1>8, <1>9, <2>1
    <3> QED BY <3>1, <3>2, <3>3
  <2>2. b = [i \in 1 .. l |-> Mark + i]
    <3> HIDE DEF Mark
    <3> QED BY <2>1 DEF create_read_buffer
  <2> HIDE DEF b, l, Mark, k
  <2>3. l \in Nat /\ k \in Nat /\ k <= l /\ Mark \in Nat
    BY <1>2, <1>9 DEF l
  <2>4. b \in Seq(Nat) /\ Len(b) = l /\ \A i \in 1 .. l : b[i] = Mark + i
    BY <2>2, <2>3
  <2>5. /\ SubSeq(b, 1, k) \in Seq(Nat) /\ Len(SubSeq(b, 1, k)) = k
        /\ \A i \in 1 .. k : SubSeq(b, 1, k)[i] = b[i]
    BY <2>3, <2>4
  <2>6. e \in Seq(Nat) /\ Len(e) = k /\ \A i \in 1 .. k : e[i] = Mark + i
    BY <2>3
  <2>7. SubSeq(b, 1, k) = e
    BY <2>3, <2>4, <2>5, <2>6
  <2> QED BY <2>7 DEF b
<1>12. Mark + 1 .. Mark + k \subseteq AppUnits /\ AppUnits \subseteq Nat
  <2>1. \A u \in Mark + 1 .. Mark + k : u \in s + HeaderLen + 1 .. s + HeaderLen + n - 1
    <3> HIDE DEF Mark, Current, s, n
    <3> QED BY <1>2, <1>4, <1>8, <1>9
  <2>2. \A u \in Mark + 1 .. Mark + k : InRecord(Current, u)
    BY <1>8, <2>1 DEF InRecord
  <2> QED BY <1>2, <2>2, UnitsOfStream DEF StreamUnits, SInv
<1>13. HandedIn(handed', AppUnits', Mark')
  <2>1. handed' = handed \o e
    BY <1>3, <1>11
  <2>2. HandedIn(handed \o e, AppUnits, Mark + k)
    <3> HIDE DEF Mark, k
    <3> QED BY <1>9, <1>12, HandedMore DEF Receiving
  <2> QED BY <1>7, <1>10, <2>1, <2>2
<1>14. Window'
  BY <1>4, <1>5, <1>6, <1>8 DEF Window
<1> QED BY <1>2, <1>3, <1>5, <1>6, <1>13, <1>14 DEF Receiving

\* The counter that a record moves, and the one that it leaves alone.
LEMMA ReadCounters ==
    ASSUME SessionShapes, WriteInv, Running, phase \in {"up", "peer_closed"}
    PROVE  /\ \A m : Hashed(ks, m).read.counter = ks.read.counter
           /\ Received(ks).read.counter = ks.read.counter + 1
           /\ \A m : Received(Hashed(ks, m)).read.counter = ks.read.counter + 1
           /\ Sent(ks).read.counter = ks.read.counter
<1> DEFINE n == Len(out) - FinishedIndex
           t == ks.transcript
           c == ks.read.counter
<1>1. ks = AppKeys(t, n, c) /\ c \in Nat /\ n \in Nat
  BY ApplicationState DEF ApplicationStage
<1> HIDE DEF n, t, c
<1>2. Received(AppKeys(t, n, c)) = AppKeys(t, n, c + 1)
  BY <1>1, ReceivedKeys, Zenon
<1>3. \A m : Received(AppKeys(Append(t, m), n, c)) = AppKeys(Append(t, m), n, c + 1)
  BY <1>1, ReceivedKeys, Zenon
<1>4. \A m : Hashed(AppKeys(t, n, c), m) = AppKeys(Append(t, m), n, c)
  BY HashedApplication, Zenon
<1>5. Sent(AppKeys(t, n, c)) = AppKeys(t, n + 1, c)
  BY <1>1, SentKeys, Zenon
<1>6. Received(ks) = AppKeys(t, n, c + 1) /\ Sent(ks) = AppKeys(t, n + 1, c)
  BY <1>1, <1>2, <1>5
<1>7. ASSUME NEW m PROVE Received(Hashed(ks, m)) = AppKeys(Append(t, m), n, c + 1)
  <2>1. Hashed(ks, m) = AppKeys(Append(t, m), n, c)
    BY <1>1, <1>4
  <2> QED BY <1>3, <2>1
<1>7a. ASSUME NEW m PROVE Hashed(ks, m).read.counter = c
  <2>1. Hashed(ks, m) = AppKeys(Append(t, m), n, c)
    BY <1>1, <1>4
  <2> QED BY <2>1, StageFields
<1>8. Received(ks).read.counter = c + 1 /\ Sent(ks).read.counter = c
  BY <1>6, StageFields
<1>9. ASSUME NEW m PROVE Received(Hashed(ks, m)).read.counter = c + 1
  BY <1>7, StageFields
<1> QED BY <1>7a, <1>8, <1>9 DEF c

\* A record that the client takes is the next one of the stream, and lies in
\* the buffer behind what was decoded.
LEMMA TakenRecord ==
    ASSUME SInv, Running, phase = "up", Receiving, RecordWhole, NEW r \in GenuineRecord, Decrypts(r)
    PROVE  /\ Current + 1 \in DOMAIN srv /\ r = srv[Current + 1] /\ LaterShape(r)
           /\ r.n \in Nat \ {0} /\ r.start \in Nat /\ r.start = EndOf(Current)
           /\ \A k \in 0 .. r.n - 1 :
                 /\ rdr.decoded + k \in 0 .. ReadBufLen - 1
                 /\ rdr.buf[rdr.decoded + k] = r.start + HeaderLen + 1 + k
<1>1. /\ profile \in Profiles /\ Len(FlightRecords) \in Nat \ {0} /\ ks.read.counter \in Nat
      /\ ks.read.key = ServerAppKey /\ Current \in Nat /\ Current \in DOMAIN srv
  BY ReceivingPlace
<1>2. /\ r \in ToSet(srv)
      /\ content(rdr, rd.want) = [i \in 1 .. r.n |-> r.start + HeaderLen + i]
  BY DEF GenuineRecord, HeaderOf
<1>3. r.nonce = <<ServerAppKey, ks.read.counter>>
  BY <1>1 DEF Decrypts, get_nonce
<1>4. Current + 1 \in DOMAIN srv /\ r = srv[Current + 1] /\ LaterShape(r)
  <2> DEFINE c == ks.read.counter
             i == Len(FlightRecords) + c + 1
  <2>1. c \in Nat /\ r.nonce = <<ServerAppKey, c>>
    BY <1>1, <1>3
  <2>2. i = Current + 1
    BY <1>1 DEF Current
  <2> HIDE DEF c
  <2>3. i \in DOMAIN srv /\ r = srv[i] /\ LaterShape(r)
    BY <1>1, <1>2, <2>1, ApplicationKeyRecord DEF SInv
  <2> QED BY <2>2, <2>3
<1>5. r.n \in Nat \ {0} /\ r.start \in Nat
  BY <1>2, RecordOfStream DEF SInv
<1>6. r.start = EndOf(Current)
  <2>1. Current + 1 > 1 /\ (Current + 1) - 1 = Current
    <3>1. Current >= 1
      BY <1>1, StreamEndFacts DEF SInv
    <3> HIDE DEF Current
    <3> QED BY <1>1, <3>1
  <2>2. \A i \in DOMAIN srv : i > 1 => srv[i].start = EndOf(i - 1)
    BY DEF SInv, StreamInv, Contiguous
  <2>3. srv[Current + 1].start = EndOf((Current + 1) - 1)
    <3> HIDE DEF Current
    <3> QED BY <1>4, <2>1, <2>2
  <2> QED BY <1>4, <2>1, <2>3
<1>7. /\ rdr.decoded \in Nat /\ rdr.pending \in Nat /\ rdr.decoded + rdr.pending <= ReadBufLen
      /\ rd.want \in Nat /\ rdr.pending >= rd.want /\ HeaderLen \in Nat /\ ReadBufLen \in Nat
  BY RecordSizes DEF SInv, ReaderShapes, Readings, Buffers, RecordWhole
<1>8. rd.want = r.n
  <2> DEFINE f == content(rdr, rd.want)
             g == [i \in 1 .. r.n |-> r.start + HeaderLen + i]
             w == rd.want
             n == r.n
  <2>1. DOMAIN f = 1 .. w /\ DOMAIN g = 1 .. n /\ f = g
    BY <1>2 DEF content
  <2> HIDE DEF f, g, w, n
  <2>2. w \in Nat /\ n \in Nat \ {0}
    BY <1>5, <1>7 DEF w, n
  <2>3. 1 .. w = 1 .. n
    BY <2>1
  <2>4. n \in 1 .. w /\ (w = 0 \/ w \in 1 .. n)
    BY <2>2, <2>3
  <2>5. w = n
    BY <2>2, <2>4
  <2> QED BY <2>5 DEF w, n
<1>9. ASSUME NEW k \in 0 .. r.n - 1
      PROVE  /\ rdr.decoded + k \in 0 .. ReadBufLen - 1
             /\ rdr.buf[rdr.decoded + k] = r.start + HeaderLen + 1 + k
  <2> DEFINE i == k + 1
  <2>1. i \in 1 .. r.n /\ rdr.decoded + i - 1 = rdr.decoded + k /\ i \in 1 .. rd.want
        /\ r.start + HeaderLen + i = r.start + HeaderLen + 1 + k
        /\ rdr.decoded + k \in 0 .. ReadBufLen - 1
    BY <1>5, <1>7, <1>8, <1>9
  <2> HIDE DEF i
  <2>2. content(rdr, rd.want)[i] = r.start + HeaderLen + i
    BY <1>2, <2>1
  <2>3. content(rdr, rd.want)[i] = rdr.buf[rdr.decoded + i - 1]
    BY <2>1 DEF content
  <2> QED BY <2>1, <2>2, <2>3
<1> QED BY <1>4, <1>5, <1>6, <1>9

\* A record of application data: its plaintext is the window.
LEMMA DataReceived ==
    ASSUME SInv, Next, Receiving, ApplicationRecord, NEW r \in GenuineRecord, Decrypts(r),
           r.inner = "ApplicationData", ks' = Received(ks),
           dec' = handle_application_data(rdr.decoded, r.n - 1)
    PROVE  phase' \in {"up", "peer_closed"} => Receiving'
<1> DEFINE C == Current
           x == r.start + HeaderLen
<1>1. /\ Running /\ phase = "up" /\ RecordWhole /\ rdr' = consume(rdr, rd.want)
      /\ IF dec_is_empty(dec') /\ phase' = "up" THEN rd' = Finish("header") ELSE rd' = Finish("idle")
  BY Steps, RecordSteps, Zenon
<1>2. UNCHANGED <<profile, srv, handed>>
  BY ClientFrames, Zenon DEF server
<1>3. /\ C + 1 \in DOMAIN srv /\ r = srv[C + 1]
      /\ r.n \in Nat \ {0} /\ r.start \in Nat /\ r.start = EndOf(C) /\ HeaderLen \in Nat
      /\ \A k \in 0 .. r.n - 1 :
            /\ rdr.decoded + k \in 0 .. ReadBufLen - 1
            /\ rdr.buf[rdr.decoded + k] = r.start + HeaderLen + 1 + k
  BY <1>1, TakenRecord, RecordSizes
<1>4. /\ C \in Nat /\ C \in DOMAIN srv /\ ks.read.counter \in Nat /\ EndOf(C) \in Nat
      /\ Len(FlightRecords) \in Nat /\ dec_len(dec) \in Nat
  BY <1>1, ReceivingPlace
<1>5. Current' = C + 1
  <2>1. ks'.read.counter = ks.read.counter + 1
    BY <1>1, ReadCounters DEF SInv
  <2>2. FlightRecords' = FlightRecords
    BY <1>2, ProfileFrame
  <2> QED BY <1>4, <2>1, <2>2 DEF Current
<1>6. dec'.offset = rdr.decoded /\ dec'.len = r.n - 1 /\ dec'.consumed = 0 /\ dec_len(dec') = r.n - 1
  BY <1>3 DEF handle_application_data, dec_len
<1>7. EndOf(C + 1) = x + r.n
  BY <1>3 DEF EndOf
<1> HIDE DEF C
<1>8. Mark' = x
  <2>1. Mark' = EndOf(C + 1) - 1 - dec_len(dec')
    BY <1>2, <1>5 DEF Mark, EndOf
  <2> QED BY <1>3, <1>6, <1>7, <2>1
<1>9. {u \in AppUnits : u <= x} = {u \in AppUnits : u <= EndOf(C) - 1}
  <2>1. x \in Int /\ EndOf(C) - 1 <= x /\ x < EndOf(C + 1) /\ x <= srv[C + 1].start + HeaderLen
    BY <1>3, <1>7
  <2> HIDE DEF x
  <2> QED BY <1>3, <1>4, <2>1, UnitsBetween DEF SInv
<1>10. Mark = EndOf(C) - 1
  <2>1. dec_is_empty(dec)
    BY <1>1 DEF Receiving, RecordWhole
  <2> QED BY <1>4, <2>1 DEF Mark, C, dec_is_empty
<1>11. HandedIn(handed', AppUnits', Mark')
  <2>1. AppUnits' = AppUnits
    BY <1>2 DEF AppUnits
  <2>2. HandedIn(handed, AppUnits, EndOf(C) - 1)
    BY <1>10 DEF Receiving
  <2>3. HandedIn(handed, AppUnits, x)
    <3> HIDE DEF x
    <3> QED BY <1>9, <2>2 DEF HandedIn
  <2> QED BY <1>2, <1>8, <2>1, <2>3
<1>12. rdr'.buf = rdr.buf
  <2>1. rd.want \in Nat /\ rd.want <= rdr.pending
    BY <1>1 DEF SInv, ReaderShapes, Readings, Buffers, RecordWhole
  <2> QED BY <1>1, <2>1, ConsumeBuffer DEF SInv
<1>13. Window'
  <2>1. srv'[Current'] = r
    BY <1>2, <1>3, <1>5
  <2>2. \A k \in 0 .. dec'.len - 1 : k \in 0 .. r.n - 1
    BY <1>3, <1>6
  <2> QED BY <1>3, <1>6, <1>12, <2>1, <2>2 DEF Window
<1>14. ~dec_is_empty(dec') => rd'.at = "idle"
  BY <1>1, FinishFields DEF SInv
<1>15. Current' \in DOMAIN srv' /\ profile'.hello = "ok"
  BY <1>2, <1>3, <1>5 DEF Receiving
<1> QED BY <1>11, <1>13, <1>14, <1>15 DEF Receiving

\* A session ticket: there is still nothing to hand over.
LEMMA TicketReceived ==
    ASSUME SInv, Next, Receiving, ApplicationRecord, NEW r \in GenuineRecord, Decrypts(r),
           r.inner = "Handshake", ks' = Received(Hashed(ks, "NewSessionTicket")), dec' = dec
    PROVE  phase' \in {"up", "peer_closed"} => Receiving'
<1> DEFINE C == Current
           x == EndOf(C + 1) - 1
<1>1. Running /\ phase = "up" /\ RecordWhole
  BY Steps, RecordSteps, Zenon
<1>2. UNCHANGED <<profile, srv, handed>>
  BY ClientFrames, Zenon DEF server
<1>3. /\ C + 1 \in DOMAIN srv /\ r = srv[C + 1]
      /\ r.n \in Nat \ {0} /\ r.start \in Nat /\ r.start = EndOf(C) /\ HeaderLen \in Nat
  BY <1>1, TakenRecord, RecordSizes
<1>4. /\ C \in Nat /\ C \in DOMAIN srv /\ ks.read.counter \in Nat /\ EndOf(C) \in Nat
      /\ Len(FlightRecords) \in Nat /\ dec_len(dec) \in Nat
  BY <1>1, ReceivingPlace
<1>5. Current' = C + 1
  <2>1. ks'.read.counter = ks.read.counter + 1
    <3> DEFINE m == "NewSessionTicket"
    <3>1. ks' = Received(Hashed(ks, m))
      OBVIOUS
    <3> HIDE DEF m
    <3> QED BY <1>1, <3>1, ReadCounters DEF SInv
  <2>2. FlightRecords' = FlightRecords
    BY <1>2, ProfileFrame
  <2> QED BY <1>4, <2>1, <2>2 DEF Current
<1>6. dec_is_empty(dec) /\ dec_len(dec) = 0
  BY <1>1 DEF Receiving, RecordWhole, dec_is_empty
<1>7. EndOf(C + 1) = EndOf(C) + HeaderLen + r.n
  BY <1>3 DEF EndOf
<1> HIDE DEF C
<1>8. Mark' = x /\ Mark = EndOf(C) - 1
  <2>1. Mark' = EndOf(C + 1) - 1 - dec_len(dec)
    BY <1>2, <1>5 DEF Mark, EndOf
  <2>2. Mark = EndOf(C) - 1 - dec_len(dec)
    BY DEF Mark, C
  <2> QED BY <1>3, <1>4, <1>6, <1>7, <2>1, <2>2
<1>9. {u \in AppUnits : u <= x} = {u \in AppUnits : u <= EndOf(C) - 1}
  <2>1. /\ x \in Int /\ EndOf(C) - 1 <= x /\ x < EndOf(C + 1)
        /\ srv[C + 1].inner # "ApplicationData"
    BY <1>3, <1>4, <1>7
  <2> HIDE DEF x
  <2> QED BY <1>3, <1>4, <2>1, UnitsBetween DEF SInv
<1>10. HandedIn(handed', AppUnits', Mark')
  <2>1. AppUnits' = AppUnits
    BY <1>2 DEF AppUnits
  <2>2. HandedIn(handed, AppUnits, EndOf(C) - 1)
    BY <1>8 DEF Receiving
  <2>3. HandedIn(handed, AppUnits, x)
    <3> HIDE DEF x
    <3> QED BY <1>9, <2>2 DEF HandedIn
  <2> QED BY <1>2, <1>8, <2>1, <2>3
<1>11. Current' \in DOMAIN srv' /\ profile'.hello = "ok"
  BY <1>2, <1>3, <1>5 DEF Receiving
<1> QED BY <1>6, <1>10, <1>11 DEF Receiving

\* A record that is there once the connection is up.
LEMMA RecordReceives ==
    ASSUME SInv, Next, Receiving, ApplicationRecord
    PROVE  /\ phase' \in {"up", "peer_closed"} => Receiving'
           /\ phase' \in {"up", "peer_closed", "failed"} /\ DeliveredInOrder'
<1>1. Running /\ phase = "up" /\ RecordWhole /\ RecordOutcome
  BY Steps, RecordSteps, Zenon
<1>2. handed' = handed
  BY ClientFrames
<1>3. dec_is_empty(dec)
  BY <1>1 DEF Receiving, RecordWhole
<1>4. DeliveredInOrder'
  BY <1>1, <1>2, HandedKept
<1>5. phase' \in {"up", "peer_closed", "failed"}
  BY <1>1, RecordSession
<1>6. ASSUME ks' = ks \/ ks' = Hashed(ks, "NewSessionTicket"), dec' = dec
      PROVE  phase' \in {"up", "peer_closed"} => Receiving'
  <2>1. ks'.read.counter = ks.read.counter
    BY <1>1, <1>6, ReadCounters DEF SInv
  <2> QED BY <1>1, <1>2, <1>3, <1>4, <1>5, <1>6, <2>1, ReceivingFrame
<1>7. ASSUME NEW r \in GenuineRecord, ~Refused(r), r.inner = "ApplicationData", ks' = Received(ks),
             dec' = handle_application_data(rdr.decoded, r.n - 1)
      PROVE  phase' \in {"up", "peer_closed"} => Receiving'
  <2>1. Decrypts(r)
    BY <1>7 DEF Refused
  <2> QED BY <1>7, <2>1, DataReceived
<1>8. ASSUME NEW r \in GenuineRecord, ~Refused(r), r.inner = "Handshake",
             ks' = Received(Hashed(ks, "NewSessionTicket")), dec' = dec
      PROVE  phase' \in {"up", "peer_closed"} => Receiving'
  <2>1. Decrypts(r)
    BY <1>8 DEF Refused
  <2> QED BY <1>8, <2>1, TicketReceived
<1>9. \/ (ks' = ks \/ ks' = Hashed(ks, "NewSessionTicket")) /\ dec' = dec
      \/ \E r \in GenuineRecord : /\ ~Refused(r) /\ r.inner = "ApplicationData" /\ ks' = Received(ks)
                                  /\ dec' = handle_application_data(rdr.decoded, r.n - 1)
      \/ \E r \in GenuineRecord : /\ ~Refused(r) /\ r.inner = "Handshake"
                                  /\ ks' = Received(Hashed(ks, "NewSessionTicket")) /\ dec' = dec
  BY <1>1, Zenon DEF RecordOutcome, HandleRecord, HandleGarbage, Ends
<1> QED BY <1>4, <1>5, <1>6, <1>7, <1>8, <1>9, Zenon

\* Until the connection is up nothing is decrypted; when it is, the flight is
\* behind it, which holds no application data.
LEMMA OpeningReceives ==
    ASSUME SInv, ReadInv, Next, phase \in {"new", "opening"}
    PROVE  ReadInv'
<1>1. Running /\ profile \in Profiles /\ handed = << >> /\ dec = DecryptedBufferInfo_default
  BY Steps DEF SInv, SessionShapes, ReadInv
<1>2. /\ UNCHANGED <<dec, handed>>
      /\ phase' \in {"new", "opening", "failed"} \/ client_finished
  <2>1. CASE ServerStep
    <3>1. UNCHANGED <<dec, handed, phase>>
      BY <2>1, Zenon DEF ServerStep, ServerFlight, ServerSends, TransportLost, reading, session
    <3> QED BY <3>1
  <2>2. CASE OpenConnection
    <3>1. UNCHANGED <<dec, handed>> /\ phase' = "opening"
      BY <2>2, Zenon DEF OpenConnection, reading
    <3> QED BY <3>1
  <2>3. CASE ClientSends
    <3>1. UNCHANGED <<dec, handed>>
      BY <2>3, ClientFrames, Zenon DEF reading
    <3>2. ASSUME NEW w, NEW k, NEW h, NEW p, Answer(w, k, h, p) PROVE phase' = "failed" \/ phase' = p
      BY <3>2, AnswerEffect
    <3>3. client_hello \/ client_cert => phase' = "failed" \/ phase' = "opening"
      BY <3>2, FailsEffect, Zenon DEF client_hello, client_cert
    <3>4. client_cert_verify => phase' = "failed" \/ phase' = "opening"
      BY <3>2, Zenon DEF client_cert_verify
    <3> QED BY <2>3, <3>1, <3>3, <3>4 DEF ClientSends
  <2>4. CASE HandshakeRecord
    <3>1. UNCHANGED <<dec, handed>> /\ (phase' = phase \/ phase' = "failed")
      BY <2>4, Zenon DEF HandshakeRecord, handle_processing_error, handle_processing_error_blocking,
                         HandleProcessingError
    <3> QED BY <3>1
  <2>5. CASE ReaderStep
    <3>1. UNCHANGED <<dec, handed>> /\ (phase' = phase \/ phase' = "failed")
      BY <2>5, ClientFrames, Zenon
    <3> QED BY <3>1
  <2>6. ~TakeStep /\ ~ApplicationRecord /\ ~WriterStep /\ ~CloseConnection
    <3>1. phase # "up" /\ phase # "peer_closed"
      OBVIOUS
    <3>2. /\ TakeStep => phase = "up"
          /\ WriterStep => phase \in {"up", "peer_closed"}
          /\ ApplicationRecord => phase = "up"
          /\ CloseConnection => phase \in {"up", "peer_closed"}
      BY Zenon DEF TakeStep, ApplicationRecord, WriterStep, CloseConnection
    <3> QED BY <3>1, <3>2
  <2> QED BY <2>1, <2>2, <2>3, <2>4, <2>5, <2>6, Steps, Zenon
<1>3. DeliveredInOrder'
  <2>1. handed' = << >>
    BY <1>1, <1>2
  <2> QED BY <2>1 DEF DeliveredInOrder
<1>4. CASE phase' \in {"new", "opening", "failed"}
  BY <1>1, <1>2, <1>3, <1>4 DEF ReadInv
<1>5. CASE client_finished /\ phase' = "up"
  <2> DEFINE F == Len(FlightRecords)
  <2>1. ks'.read.counter = 0 /\ FlightDone
    BY <1>5, ClientFinishedSent DEF SInv
  <2>2. UNCHANGED <<profile, srv>>
    BY <1>5, ClientFrames, Zenon DEF ClientSends, server
  <2>3. F \in Nat \ {0} /\ F \in DOMAIN srv /\ profile.hello = "ok" /\ EndOf(F) \in Nat
    <3>1. F \in Nat \ {0} /\ F <= Len(srv) /\ profile.hello = "ok"
      BY <1>1, <2>1, FlightRecordShapes, StreamEndFacts DEF FlightDone, SInv
    <3>2. F \in DOMAIN srv
      BY <3>1, StreamEndFacts DEF SInv
    <3> QED BY <3>1, <3>2, StreamEndFacts DEF SInv
  <2>4. Current' = F
    <3>1. FlightRecords' = FlightRecords
      BY <2>2, ProfileFrame
    <3> QED BY <2>1, <2>3, <3>1 DEF Current
  <2>5. {u \in AppUnits : u <= EndOf(F) - 1} = {}
    BY <1>1, <2>3, UnitsOfFlight DEF SInv
  <2> HIDE DEF F
  <2>6. dec_len(dec') = 0 /\ dec_is_empty(dec')
    BY <1>1, <1>2 DEF DecryptedBufferInfo_default, dec_len, dec_is_empty
  <2>7. Mark' = EndOf(F) - 1
    <3>1. Mark' = EndOf(F) - 1 - dec_len(dec')
      BY <2>2, <2>4 DEF Mark, EndOf
    <3> QED BY <2>3, <2>6, <3>1
  <2>8. HandedIn(handed', AppUnits', Mark')
    <3>1. AppUnits' = AppUnits
      BY <2>2 DEF AppUnits
    <3>2. HandedIn(<< >>, AppUnits, EndOf(F) - 1)
      BY <2>5 DEF HandedIn
    <3> QED BY <1>1, <1>2, <2>7, <3>1, <3>2
  <2>9. Receiving'
    BY <2>2, <2>3, <2>4, <2>6, <2>8 DEF Receiving
  <2> QED BY <1>5, <2>9 DEF ReadInv
<1>6. client_finished => phase' = "failed" \/ phase' = "up"
  <2>1. ASSUME NEW w, NEW k, NEW h, NEW p, Answer(w, k, h, p) PROVE phase' = "failed" \/ phase' = p
    BY <2>1, AnswerEffect
  <2> QED BY <2>1, Zenon DEF client_finished
<1> QED BY <1>2, <1>4, <1>5, <1>6

\* The steps of a connection that is up, or that its peer has closed.
LEMMA UpReceives ==
    ASSUME SInv, ReadInv, Next, phase \in {"up", "peer_closed"}
    PROVE  ReadInv'
<1>1. Running /\ Receiving
  BY Steps DEF ReadInv
<1>2. ASSUME handed' = handed PROVE DeliveredInOrder'
  BY <1>1, <1>2, HandedKept
<1>3. CASE ServerStep
  <2>1. UNCHANGED <<handed, dec, rd, rdr, ks, phase>>
    BY <1>3, Zenon DEF ServerStep, ServerFlight, ServerSends, TransportLost, reading, session
  <2>2. dec_is_empty(dec) \/ rd'.at = "idle"
    BY <1>1, <2>1 DEF Receiving
  <2>3. Receiving'
    BY <1>1, <2>1, <2>2, ReceivingFrame
  <2> QED BY <2>1, <2>3 DEF ReadInv
<1>4. CASE ReaderStep
  <2>1. /\ UNCHANGED <<handed, dec, ks>> /\ (phase' = phase \/ phase' = "failed")
    BY <1>4, ClientFrames, Zenon
  <2>2. rd.at # "idle" \/ dec_is_empty(dec)
    <3>1. /\ \A k : HeaderPiece(k) => rd.at = "header"
          /\ \A k : BodyPiece(k) => rd.at = "body"
          /\ ReadFails \/ CancelRead => rd.at # "idle"
          /\ HandshakeRead => phase = "opening"
          /\ ReadBuffered => dec_is_empty(dec)
      BY Zenon DEF HeaderPiece, BodyPiece, ReadFails, CancelRead, HandshakeRead, ReadBuffered
    <3> QED BY <1>4, <3>1 DEF ReaderStep
  <2>3. dec_is_empty(dec)
    BY <1>1, <2>2 DEF Receiving
  <2>4. Receiving' /\ DeliveredInOrder'
    BY <1>1, <1>2, <2>1, <2>3, ReceivingFrame
  <2> QED BY <2>1, <2>4 DEF ReadInv
<1>5. CASE TakeStep
  <2>1. Receiving' /\ phase' = phase
    BY <1>1, <1>5, TakeReceives, ClientFrames DEF session
  <2> QED BY <2>1 DEF ReadInv
<1>6. CASE ApplicationRecord
  <2>1. /\ phase' \in {"up", "peer_closed"} => Receiving'
        /\ phase' \in {"up", "peer_closed", "failed"} /\ DeliveredInOrder'
    BY <1>1, <1>6, RecordReceives
  <2> QED BY <2>1 DEF ReadInv
<1>7. CASE WriterStep
  <2>1. UNCHANGED <<handed, dec, rd, rdr>>
    BY <1>7, ClientFrames, Zenon DEF reading
  <2>2. (ks' = ks \/ ks' = Sent(ks)) /\ (phase' = phase \/ phase' = "failed")
    BY <1>7, Zenon DEF WriterStep, WriteBytes, Flush, FlushRecord
  <2>3. ks'.read.counter = ks.read.counter
    BY <1>1, <2>2, ReadCounters DEF SInv
  <2>4. dec_is_empty(dec) \/ rd'.at = "idle"
    BY <1>1, <2>1 DEF Receiving
  <2>5. Receiving' /\ DeliveredInOrder'
    BY <1>1, <1>2, <2>1, <2>3, <2>4, ReceivingFrame
  <2> QED BY <2>2, <2>5 DEF ReadInv
<1>8. CASE CloseConnection
  <2>1. handed' = handed /\ (phase' = "failed" \/ phase' = "closed")
    BY <1>8, Zenon DEF CloseConnection, reading
  <2> QED BY <1>2, <2>1 DEF ReadInv
<1>9. ~OpenConnection /\ ~ClientSends /\ ~HandshakeRecord
  <2>1. phase # "new" /\ phase # "opening"
    OBVIOUS
  <2>2. (OpenConnection => phase = "new") /\ (HandshakeRecord \/ ClientSends => phase = "opening")
    BY Zenon DEF OpenConnection, HandshakeRecord, ClientSends, client_hello, client_cert,
                 client_cert_verify, client_finished, InState
  <2> QED BY <2>1, <2>2
<1> QED BY <1>3, <1>4, <1>5, <1>6, <1>7, <1>8, <1>9, Steps, Zenon

\* The inductive invariant of the whole connection.
LEMMA IInvInductive == Spec => []IInv
<1>1. Init => ReadInv
  BY DEF Init, ReadInv
<1>2. SInv /\ ReadInv /\ [Next]_vars => ReadInv'
  <2> SUFFICES ASSUME SInv, ReadInv, [Next]_vars PROVE ReadInv'
    OBVIOUS
  <2>1. CASE Next
    <3>1. phase \in Phases /\ Running
      BY <2>1, Steps DEF SInv, SessionShapes
    <3>2. phase \in {"new", "opening"} \/ phase \in {"up", "peer_closed"}
      BY <3>1 DEF Phases, Running
    <3> QED BY <2>1, <3>2, OpeningReceives, UpReceives
  <2>2. CASE UNCHANGED vars
    <3>1. UNCHANGED <<profile, srv, ks, rdr, dec, rd, phase, handed>>
      BY <2>2, Zenon DEF vars, server, reading, session
    <3>2. Current' = Current /\ AppUnits' = AppUnits
      BY <3>1, ProfileFrame DEF Current, AppUnits
    <3>3. Mark' = Mark /\ (Window => Window')
      BY <3>1, <3>2 DEF Mark, EndOf, Window
    <3>4. Receiving => Receiving'
      BY <3>1, <3>2, <3>3 DEF Receiving
    <3>5. DeliveredInOrder => DeliveredInOrder'
      BY <3>1, <3>2 DEF DeliveredInOrder
    <3> QED BY <3>1, <3>4, <3>5 DEF ReadInv
  <2> QED BY <2>1, <2>2
<1>3. SInv /\ ReadInv => IInv
  BY DEF SInv, IInv
<1> QED BY <1>1, <1>2, <1>3, SInvInductive, PTL DEF Spec

\* The caller of a connection is handed the server's application data in
\* order, none skipped and none repeated, for every size of the buffer and of
\* the records, however the stream is cut into pieces, and even when reads are
\* dropped in the middle of a record (record_reader.rs, read_buffer.rs,
\* connection.rs).
THEOREM DataIsDelivered == Spec => []DeliveredInOrder
<1>1. IInv => DeliveredInOrder
  <2> SUFFICES ASSUME IInv PROVE DeliveredInOrder
    OBVIOUS
  <2>1. phase \in Phases /\ SInv
    BY DEF IInv, SInv, SessionShapes
  <2>2. CASE phase \in {"new", "opening"}
    <3>1. handed = << >>
      BY <2>2 DEF IInv, ReadInv
    <3> QED BY <3>1 DEF DeliveredInOrder
  <2>3. CASE phase \in {"up", "peer_closed"}
    <3>1. Receiving /\ Running
      BY <2>3 DEF IInv, ReadInv, Running
    <3>2. Mark \in Int /\ AppUnits \subseteq Nat
      BY <2>1, <2>3, <3>1, ReceivingPlace, UnitsOfStream DEF SInv, StreamUnits
    <3> QED BY <3>1, <3>2, HandedInOrder DEF Receiving
  <2>4. CASE phase \in {"closed", "failed"}
    BY <2>4 DEF IInv, ReadInv
  <2> QED BY <2>1, <2>2, <2>3, <2>4 DEF Phases
<1> QED BY <1>1, IInvInductive, PTL

-----------------------------------------------------------------------------
(* The reader in step with the stream.                                     *)

\* The record behind place c.
LEMMA NextRecord ==
    ASSUME StreamInv, NEW c \in Nat, c + 1 \in DOMAIN srv
    PROVE  /\ srv[c + 1].start = Base(c) /\ srv[c + 1].n \in Nat \ {0} /\ Base(c) \in Nat
           /\ HeaderOf(Base(c)) = {srv[c + 1]}
           /\ Base(c + 1) = Base(c) + HeaderLen + srv[c + 1].n
<1>1. DOMAIN srv = 1 .. Len(srv) /\ Len(srv) \in Nat
  BY StreamEndFacts
<1>2. srv[c + 1].n \in Nat \ {0} /\ srv[c + 1].start \in Nat /\ HeaderLen \in Nat \ {0}
  BY RecordSizes DEF StreamInv, Contiguous
<1>3. srv[c + 1].start = Base(c)
  <2>1. CASE c = 0
    BY <2>1 DEF Base, StreamInv, Contiguous
  <2>2. CASE c # 0
    <3>1. c + 1 > 1 /\ (c + 1) - 1 = c
      BY <2>2
    <3>2. \A i \in DOMAIN srv : i > 1 => srv[i].start = EndOf(i - 1)
      BY DEF StreamInv, Contiguous
    <3> QED BY <2>2, <3>1, <3>2 DEF Base
  <2> QED BY <2>1, <2>2
<1>4. Base(c + 1) = Base(c) + HeaderLen + srv[c + 1].n
  <2>1. c + 1 # 0
    OBVIOUS
  <2> QED BY <1>3, <2>1 DEF Base, EndOf
<1>5. ASSUME NEW r \in ToSet(srv), r.start = Base(c) PROVE r = srv[c + 1]
  <2>1. PICK i \in DOMAIN srv : r = srv[i]
    BY RecordOfStream
  <2>2. \A a, b \in DOMAIN srv : a < b => EndOf(a) <= srv[b].start
    BY DEF StreamInv, Contiguous
  <2>3. \A a \in DOMAIN srv : EndOf(a) > srv[a].start /\ srv[a].start \in Nat /\ EndOf(a) \in Nat
    BY RecordSizes DEF StreamInv, Contiguous, EndOf
  <2>4. ~(i < c + 1) /\ ~(c + 1 < i)
    BY <1>3, <1>5, <2>1, <2>2, <2>3
  <2>5. i \in Nat
    BY <1>1
  <2> QED BY <2>1, <2>4, <2>5
<1>6. srv[c + 1] \in ToSet(srv)
  BY DEF ToSet
<1>7. HeaderOf(Base(c)) = {srv[c + 1]}
  BY <1>3, <1>5, <1>6 DEF HeaderOf
<1> QED BY <1>2, <1>3, <1>4, <1>7

\* The places of the stream.
LEMMA BaseFacts ==
    ASSUME StreamInv, NEW c \in 0 .. Len(srv)
    PROVE  /\ c \in Nat /\ Len(srv) \in Nat /\ Base(c) \in Nat
           /\ c < Len(srv) <=> c + 1 \in DOMAIN srv
           /\ c = Len(srv) => StreamEnd(srv) = Base(c)
<1>1. /\ Len(srv) \in Nat /\ DOMAIN srv = 1 .. Len(srv) /\ StreamEnd(srv) = Base(Len(srv))
      /\ \A i \in DOMAIN srv : EndOf(i) \in Nat
  BY StreamEndFacts
<1>2. c \in Nat /\ (c < Len(srv) <=> c + 1 \in DOMAIN srv)
  BY <1>1
<1>3. c = 0 \/ c \in DOMAIN srv
  BY <1>1
<1>4. Base(c) \in Nat
  BY <1>1, <1>3 DEF Base
<1> QED BY <1>1, <1>2, <1>4

\* A stream that grows leaves the reader where it is.
LEMMA AtFrame ==
    ASSUME StreamInv, NEW c \in 0 .. Len(srv), At(c), UNCHANGED <<rd, rdr, taken>>,
           \A i \in DOMAIN srv : i \in DOMAIN srv' /\ srv'[i] = srv[i]
    PROVE  At(c)' /\ Base(c)' = Base(c)
<1>1. Base(c)' = Base(c)
  <2>1. c = 0 \/ c \in DOMAIN srv
    BY StreamEndFacts
  <2> QED BY <2>1 DEF Base, EndOf
<1> QED BY <1>1 DEF At

\* A piece of a header.  Once it is whole it is the header of the next record,
\* which fits.
LEMMA HeaderInStep ==
    ASSUME StreamInv, ReaderShapes, NEW c \in 0 .. Len(srv), At(c), NEW k \in 1 .. HeaderLen,
           HeaderPiece(k), \A r \in ToSet(srv) : ~(r.n > ReadBufLen)
    PROVE  At(c)' /\ phase' = phase
<1>1. /\ rd.at = "header" /\ rd.start = Base(c) /\ taken = Base(c) + rd.have /\ rdr.pending = 0
      /\ rd.have < HeaderLen /\ rd.have \in Nat /\ HeaderLen \in Nat \ {0} /\ ReadBufLen \in Nat
      /\ rd \in Readings /\ taken \in Nat
  BY RecordSizes, Zenon DEF HeaderPiece, At, ReaderShapes, Readings
<1>2. /\ k \in 1 .. HeaderLen - rd.have /\ k <= StreamEnd(srv) - taken /\ taken' = taken + k
      /\ UNCHANGED srv
  BY Zenon DEF HeaderPiece, Available, server
<1>3. c \in Nat /\ Base(c) \in Nat /\ c + 1 \in DOMAIN srv
  <2>1. c \in Nat /\ Len(srv) \in Nat /\ Base(c) \in Nat
    BY BaseFacts
  <2>2. StreamEnd(srv) \in Nat
    BY StreamEndFacts
  <2>3. c # Len(srv)
    <3> SUFFICES ASSUME c = Len(srv) PROVE FALSE
      OBVIOUS
    <3>1. StreamEnd(srv) = Base(c)
      BY BaseFacts
    <3> QED BY <1>1, <1>2, <2>1, <2>2, <3>1, SMTT(30)
  <2> QED BY <2>1, <2>3, BaseFacts
<1> DEFINE r == srv[c + 1]
<1>4. r.n \in Nat \ {0} /\ HeaderOf(rd.start) = {r} /\ r.n <= ReadBufLen
  <2>1. HeaderOf(rd.start) = {r} /\ r.n \in Nat \ {0}
    BY <1>1, <1>3, NextRecord
  <2>2. r \in ToSet(srv)
    BY <1>3 DEF ToSet
  <2> QED BY <1>1, <2>1, <2>2
<1>5. Lengths(rd.start) = {r.n} /\ fits(r.n) /\ HeaderOf(rd.start) # {}
  BY <1>4 DEF Lengths, fits
<1>6. Base(c)' = Base(c)
  BY <1>2 DEF Base, EndOf
<1> HIDE DEF r
<1>7. CASE rd.have + k < HeaderLen
  <2>1. rd' = [rd EXCEPT !.have = @ + k] /\ rdr' = rdr /\ phase' = phase
    BY <1>7, Zenon DEF HeaderPiece
  <2>2. rd'.at = "header" /\ rd'.start = rd.start /\ rd'.have = rd.have + k
    BY <1>1, <2>1 DEF Readings
  <2>3. taken' = Base(c) + (rd.have + k)
    BY <1>1, <1>2, <1>3
  <2> QED BY <1>1, <1>6, <1>7, <2>1, <2>2, <2>3 DEF At
<1>8. CASE ~(rd.have + k < HeaderLen)
  <2>1. /\ rd' = [rd EXCEPT !.at = "body", !.have = 0, !.want = r.n]
        /\ rdr' = ensure_contiguous(rdr, r.n) /\ phase' = phase
    <3>1. \/ \E len \in Lengths(rd.start) :
                IF fits(len)
                THEN /\ rd' = [rd EXCEPT !.at = "body", !.have = 0, !.want = len]
                     /\ rdr' = ensure_contiguous(rdr, len)
                     /\ UNCHANGED phase
                ELSE phase' = "failed" /\ UNCHANGED <<rd, rdr>>
          \/ HeaderOf(rd.start) = {}
      BY <1>8, Zenon DEF HeaderPiece
    <3> QED BY <1>5, <3>1, Zenon
  <2>2. rd'.at = "body" /\ rd'.start = rd.start /\ rd'.have = 0 /\ rd'.want = r.n
    BY <1>1, <2>1 DEF Readings
  <2>3. rdr'.pending = 0 /\ rdr'.decoded + r.n <= ReadBufLen
    BY <1>1, <1>4, <2>1, ContiguousBuffer
  <2>4. taken' = Base(c) + HeaderLen + 0
    BY <1>1, <1>2, <1>3, <1>8, SMTT(30)
  <2>5. srv' = srv
    BY <1>2
  <2>6. /\ c + 1 \in DOMAIN srv' /\ rd'.start = Base(c)' /\ rd'.want = srv'[c + 1].n
        /\ rd'.have = rdr'.pending /\ rdr'.pending <= rd'.want
        /\ taken' = Base(c)' + HeaderLen + rdr'.pending
        /\ rdr'.decoded + rd'.want <= ReadBufLen
    <3>1. 0 <= r.n
      BY <1>4
    <3> QED BY <1>1, <1>3, <1>6, <2>2, <2>3, <2>4, <2>5, <3>1 DEF r
  <2>7. \A x \in 0 .. rdr'.pending - 1 : FALSE
    BY <2>3
  <2> QED BY <2>1, <2>2, <2>6, <2>7 DEF At
<1> QED BY <1>7, <1>8

\* A piece of a record.
LEMMA BodyInStep ==
    ASSUME StreamInv, ReaderShapes, NEW c \in 0 .. Len(srv), At(c), NEW k \in 1 .. ReadBufLen,
           BodyPiece(k)
    PROVE  At(c)' /\ phase' = phase
<1>1. /\ rd.at = "body" /\ c + 1 \in DOMAIN srv /\ rd.start = Base(c) /\ rd.want = srv[c + 1].n
      /\ rd.have = rdr.pending /\ rdr.pending <= rd.want
      /\ taken = Base(c) + HeaderLen + rdr.pending
      /\ rdr.decoded + rd.want <= ReadBufLen
      /\ \A x \in 0 .. rdr.pending - 1 : rdr.buf[rdr.decoded + x] = Base(c) + HeaderLen + 1 + x
  BY Zenon DEF BodyPiece, At
<1>2. /\ rd \in Readings /\ rd.have \in Nat /\ rd.want \in Nat /\ taken \in Nat /\ HeaderLen \in Nat
      /\ rdr.decoded \in Nat /\ rdr.pending \in Nat /\ ReadBufLen \in Nat /\ Base(c) \in Nat
  BY RecordSizes, BaseFacts DEF ReaderShapes, Readings, Buffers
<1>3. k \in 1 .. rd.want - rd.have /\ UNCHANGED srv
  BY Zenon DEF BodyPiece, server
<1>4. slice_in_bounds(rdr, rd.want - rd.have)
  BY <1>1, <1>2, SMTT(30) DEF slice_in_bounds
<1>5. /\ rdr' = store(rdr, taken, k) /\ taken' = taken + k
      /\ rd' = [rd EXCEPT !.have = @ + k] /\ phase' = phase
  BY <1>4, Zenon DEF BodyPiece
<1> DEFINE at == rdr.decoded + rdr.pending
<1>6. /\ rdr'.decoded = rdr.decoded /\ rdr'.pending = rdr.pending + k
      /\ \A i \in 0 .. ReadBufLen - 1 :
            rdr'.buf[i] = IF i \in at .. at + k - 1 THEN taken + 1 + (i - at) ELSE rdr.buf[i]
  <2>1. k \in Nat /\ rd.want - rd.have \in Nat /\ k <= rd.want - rd.have
    BY <1>1, <1>2, <1>3, SMTT(30)
  <2> QED BY <1>4, <1>5, <2>1, StoreBuffer
<1>7. /\ rd'.at = "body" /\ rd'.start = rd.start /\ rd'.want = rd.want /\ rd'.have = rd.have + k
  BY <1>1, <1>2, <1>5 DEF Readings
<1>8. Base(c)' = Base(c)
  BY <1>3 DEF Base, EndOf
<1>9. ASSUME NEW x \in 0 .. rdr'.pending - 1
      PROVE  rdr'.buf[rdr'.decoded + x] = Base(c) + HeaderLen + 1 + x
  <2> DEFINE d == rdr.decoded
             p == rdr.pending
             w == rd.want
             b == Base(c)
             i == d + x
  <2>0. /\ d \in Nat /\ p \in Nat /\ w \in Nat /\ b \in Nat /\ taken = b + HeaderLen + p
        /\ d + w <= ReadBufLen /\ p <= w /\ k \in 1 .. w - p /\ x \in 0 .. (p + k) - 1
        /\ at = d + p
    BY <1>1, <1>2, <1>3, <1>6, <1>9
  <2> HIDE DEF d, p, w, b, at
  <2>1. i \in 0 .. ReadBufLen - 1 /\ x \in Nat /\ i \in Nat /\ at \in Nat
    BY <1>2, <2>0
  <2>2. CASE x < p
    <3>1. x \in 0 .. p - 1 /\ ~(i \in at .. at + k - 1)
      BY <2>0, <2>1, <2>2
    <3> QED BY <1>1, <1>6, <2>1, <3>1 DEF d, p, b
  <2>3. CASE ~(x < p)
    <3>1. i \in at .. at + k - 1 /\ taken + 1 + (i - at) = b + HeaderLen + 1 + x
      BY <1>2, <2>0, <2>1, <2>3
    <3>2. rdr'.buf[i] = b + HeaderLen + 1 + x
      <4> HIDE DEF i
      <4> QED BY <1>6, <2>1, <3>1
    <3> QED BY <1>6, <3>2 DEF d, b
  <2> QED BY <2>2, <2>3
<1>10. rdr'.pending <= rd'.want /\ taken' = Base(c) + HeaderLen + rdr'.pending
  BY <1>1, <1>2, <1>3, <1>5, <1>6, <1>7, SMTT(30)
<1> QED BY <1>1, <1>3, <1>5, <1>6, <1>7, <1>8, <1>9, <1>10 DEF At

\* A whole record: the units are the next record of the stream, and the reader
\* is behind it once it is consumed.
LEMMA RecordInStep ==
    ASSUME StreamInv, ReaderShapes, NEW c \in 0 .. Len(srv), At(c), RecordWhole,
           UNCHANGED <<srv, taken>>, rdr' = consume(rdr, rd.want),
           rd' = Finish("idle") \/ rd' = Finish("header")
    PROVE  /\ c + 1 \in DOMAIN srv /\ GenuineRecord = {srv[c + 1]}
           /\ At(c + 1)' /\ c + 1 \in 0 .. Len(srv')
<1>1. /\ rd.at = "body" /\ c + 1 \in DOMAIN srv /\ rd.start = Base(c) /\ rd.want = srv[c + 1].n
      /\ rdr.pending <= rd.want /\ rdr.pending >= rd.want
      /\ taken = Base(c) + HeaderLen + rdr.pending
      /\ \A x \in 0 .. rdr.pending - 1 : rdr.buf[rdr.decoded + x] = Base(c) + HeaderLen + 1 + x
  BY Zenon DEF RecordWhole, At
<1>2. /\ rd.want \in Nat /\ rdr.pending \in Nat /\ rdr.decoded \in Nat /\ Base(c) \in Nat /\ c \in Nat
      /\ HeaderLen \in Nat \ {0} /\ taken \in Nat
  BY RecordSizes, BaseFacts DEF ReaderShapes, Readings, Buffers
<1> DEFINE r == srv[c + 1]
<1>3. /\ r.start = Base(c) /\ r.n \in Nat \ {0} /\ HeaderOf(rd.start) = {r}
      /\ Base(c + 1) = Base(c) + HeaderLen + r.n
  BY <1>1, <1>2, NextRecord
<1>4. rdr.pending = r.n
  BY <1>1, <1>2
<1>5. GenuineRecord = {r}
  <2>1. content(rdr, rd.want) = [i \in 1 .. r.n |-> r.start + HeaderLen + i]
    <3>1. ASSUME NEW i \in 1 .. r.n PROVE rdr.buf[rdr.decoded + i - 1] = r.start + HeaderLen + i
      <4> DEFINE x == i - 1
      <4>1. /\ x \in 0 .. rdr.pending - 1 /\ rdr.decoded + x = rdr.decoded + i - 1
            /\ Base(c) + HeaderLen + 1 + x = r.start + HeaderLen + i
        <5> HIDE DEF r
        <5> QED BY <1>2, <1>3, <1>4, <3>1
      <4> HIDE DEF x
      <4> QED BY <1>1, <4>1
    <3>2. rd.want = r.n
      BY <1>1
    <3> HIDE DEF r
    <3> QED BY <3>1, <3>2 DEF content
  <2> QED BY <1>3, <2>1 DEF GenuineRecord
<1>6. rdr'.pending = 0
  <2>1. rdr'.pending = rdr.pending - rd.want
    BY <1>1, <1>2, ConsumeBuffer
  <2> QED BY <1>1, <1>2, <2>1
<1>7. taken' = Base(c + 1) /\ Base(c + 1)' = Base(c + 1)
  BY <1>1, <1>3, <1>4 DEF Base, EndOf
<1>8. /\ rd'.at \in {"idle", "header"} /\ rd'.have = 0 /\ rd'.start = taken
  BY FinishFields
<1>9. At(c + 1)'
  <2> DEFINE b == Base(c + 1)
  <2>0. b \in Nat
    BY <1>2, <1>3
  <2>1. taken' = b' + 0 /\ taken' = b' /\ rd'.start = b'
    <3>1. b' = b /\ taken' = b /\ rd'.start = taken /\ taken' = taken
      BY <1>7, <1>8
    <3> HIDE DEF b
    <3> QED BY <2>0, <3>1
  <2> QED BY <1>2, <1>6, <1>8, <2>1 DEF At
<1>10. c + 1 \in 0 .. Len(srv')
  BY <1>1, <1>2, StreamEndFacts
<1> QED BY <1>1, <1>5, <1>9, <1>10

\* What a handshake needs of both ends to go through.
Agreeing == profile.hello = "ok" /\ profile.extensions = "ok" /\ profile.verify # "bad"

\* The client has taken the first k messages of the flight, the last of them
\* under counter c.
Hears(a, c, k) == Verifying(a, c) /\ a.ok /\ Heard(a.ks.transcript, k)

\* A message before Finished is taken.
LEMMA MessageHeard ==
    ASSUME Agreeing, NEW a, NEW c, NEW k \in Nat, k + 1 < Len(Flight), Hears(a, c, k)
    PROVE  Hears(ServerMessage(a, Flight[k + 1]), c, k + 1)
<1> DEFINE m == Flight[k + 1]
           t == a.ks.transcript
           keys == Hashed(a.ks, m)
           b == ServerMessage(a, m)
<1>0. Verifying(a, c) /\ a.ok /\ t \in Seq(Messages) /\ Len(t) = 2 + k
      /\ \A i \in 1 .. 2 + k : t[i] = ServerTranscript[i]
  BY DEF Hears, Heard
<1>1. /\ m \in {"EncryptedExtensions", "CertificateRequest", "Certificate", "CertificateVerify"}
      /\ k + 1 \in 1 .. Len(Flight)
  <2>1. Len(Flight) \in 2 .. 5 /\ k + 1 \in 1 .. Len(Flight) - 1 /\ k + 1 \in 1 .. Len(Flight)
    BY FlightFacts
  <2> QED BY <2>1, FlightFacts
<1>2. m \in Messages
  BY <1>1 DEF Messages
<1>3. ServerTranscript[2 + k + 1] = m
  <2>1. 2 + k + 1 \in 3 .. 2 + Len(Flight) /\ (2 + k + 1) - 2 = k + 1
    BY <1>1, FlightFacts
  <2> HIDE DEF m
  <2>2. ServerTranscript[2 + k + 1] = Flight[(2 + k + 1) - 2]
    BY <2>1, TranscriptFacts
  <2> QED BY <2>1, <2>2 DEF m
<1>4. Verifying(b, c)
  <2> HIDE DEF m
  <2> QED BY <1>0, <1>1, MessageBeforeFinished
<1>5. keys.transcript = Append(t, m)
  <2>1. a.ks = HandshakeKeys(t, 0, c)
    BY <1>0, Zenon DEF Verifying
  <2>2. keys = HandshakeKeys(Append(t, m), 0, c)
    BY <2>1, HashedKeys
  <2> HIDE DEF keys, t, m, b
  <2> QED BY <2>2, StageFields
<1>6. b.ok /\ b.ks = keys
  <2> HIDE DEF m, keys
  <2>1. extensions_parse(m) /\ m # "Finished"
    BY <1>1 DEF extensions_parse, Agreeing
  <2>2. b = server_message(a, m)
    BY <1>0, <2>1, Zenon DEF ServerMessage
  <2>3. profile.verify # "bad"
    BY DEF Agreeing
  <2>4. \E ok, h : ok /\ b = Result(ok, keys, h)
    <3>1. CASE m = "EncryptedExtensions"
      <4>1. b = Result(TRUE, keys, a.hs)
        BY <2>2, <3>1, Zenon DEF server_message, keys
      <4> QED BY <4>1
    <3>2. CASE m = "CertificateRequest"
      <4>1. b = Result(TRUE, keys, [a.hs EXCEPT !.certificate_request = TRUE])
        BY <2>2, <3>2 DEF server_message, keys
      <4> QED BY <4>1
    <3>3. CASE m \in {"Certificate", "CertificateVerify"}
      <4>1. b = Result(profile.verify # "bad", keys, a.hs)
        BY <2>2, <3>3 DEF server_message, keys
      <4> QED BY <4>1, <2>3
    <3> QED BY <1>1, <3>1, <3>2, <3>3
  <2>5. PICK ok, h : ok /\ b = Result(ok, keys, h)
    BY <2>4
  <2> HIDE DEF b
  <2>6. Result(ok, keys, h).ok = ok /\ Result(ok, keys, h).ks = keys
    BY ResultFields
  <2> QED BY <2>5, <2>6, Zenon
<1>7. Heard(Append(t, m), k + 1)
  <2> HIDE DEF t, m
  <2>1. Append(t, m) \in Seq(Messages) /\ Len(Append(t, m)) = 2 + (k + 1)
    BY <1>0, <1>2
  <2>2. ASSUME NEW i \in 1 .. 2 + (k + 1) PROVE Append(t, m)[i] = ServerTranscript[i]
    <3>1. CASE i = 2 + k + 1
      BY <1>0, <1>2, <1>3, <3>1
    <3>2. CASE i # 2 + k + 1
      <4>1. i \in 1 .. 2 + k
        BY <3>2
      <4>2. Append(t, m)[i] = t[i]
        BY <1>0, <1>2, <4>1
      <4> QED BY <1>0, <4>1, <4>2
    <3> QED BY <3>1, <3>2
  <2> QED BY <2>1, <2>2 DEF Heard
<1> HIDE DEF b, keys, t, m
<1>8. Hears(b, c, k + 1)
  BY <1>4, <1>5, <1>6, <1>7 DEF Hears
<1> QED BY <1>8 DEF b, m

\* The server's Finished is the one the client computes.
LEMMA FinishedHeard ==
    ASSUME NEW a, NEW c, NEW k, k = Len(Flight) - 1, Hears(a, c, k)
    PROVE  ServerMessage(a, "Finished").ok /\ Verified(ServerMessage(a, "Finished"), c)
<1> DEFINE m == "Finished"
           t == a.ks.transcript
           u == HelloTranscript \o Front(Flight)
           b == ServerMessage(a, m)
           keys == Hashed(a.ks, m)
<1>0. Verifying(a, c) /\ a.ok /\ t \in Seq(Messages) /\ Len(t) = 2 + k
      /\ (\A i \in 1 .. 2 + k : t[i] = ServerTranscript[i]) /\ Len(Flight) \in 2 .. 5
  BY FlightFacts DEF Hears, Heard
<1>1. t = u
  <2>1. /\ u \in Seq(Messages) /\ Len(u) = 1 + Len(Flight)
        /\ \A i \in 1 .. 1 + Len(Flight) : u[i] = ServerTranscript[i]
    BY TranscriptFacts
  <2> HIDE DEF t, u
  <2>2. Len(t) = Len(u) /\ 1 + Len(Flight) = 2 + k
    BY <1>0, <2>1
  <2>3. \A i \in 1 .. Len(t) : t[i] = u[i]
    BY <1>0, <2>1, <2>2
  <2> QED BY <1>0, <2>1, <2>2, <2>3, SeqEqual
<1>2. a.ks = HandshakeKeys(t, 0, c)
  BY <1>0, Zenon DEF Verifying
<1>3. a.ks.read.key = ServerHsKey
  <2> HIDE DEF t
  <2> QED BY <1>2, StageFields
<1>4. verify_server_finished(a.ks, ServerVerify, a.ks.transcript)
  <2> HIDE DEF u
  <2>1. ServerVerify = Mac(ServerHsKey, u)
    BY Zenon DEF ServerVerify, ServerHsKey, u
  <2> QED BY <1>1, <1>3, <2>1, Zenon DEF verify_server_finished
<1>5. b = server_finished(a)
  BY <1>0 DEF ServerMessage, extensions_parse
<1>6. \E h : b = Result(TRUE, keys, h)
  <2> HIDE DEF b
  <2> QED BY <1>4, <1>5, Zenon DEF server_finished
<1>7. b.ok
  <2> DEFINE yes == TRUE
  <2>1. PICK h : b = Result(yes, keys, h)
    BY <1>6
  <2>2. yes
    OBVIOUS
  <2> HIDE DEF b, keys, yes
  <2> QED BY <2>1, <2>2, ResultFields
<1>8. Verified(b, c)
  BY <1>0, MessageFinished
<1> QED BY <1>7, <1>8

\* A record of the whole flight is taken.
LEMMA WholeFlightHeard ==
    ASSUME Agreeing, NEW a, NEW c, Hears(a, c, 0)
    PROVE  ServerMessages(a, Flight).ok /\ Verified(ServerMessages(a, Flight), c)
<1> DEFINE f == Flight
           n == Len(f)
           Then(b, i) == IF i <= n THEN ServerMessage(b, f[i]) ELSE b
           b1 == Then(a, 1)
           b2 == Then(b1, 2)
           b3 == Then(b2, 3)
           b4 == Then(b3, 4)
           b5 == Then(b4, 5)
           Done(b) == b.ok /\ Verified(b, c)
<1>1. n \in 2 .. 5
  BY FlightFacts
<1>2. ASSUME NEW b, NEW k \in Nat, Hears(b, c, k), k + 1 < n
      PROVE  Hears(Then(b, k + 1), c, k + 1)
  <2>1. Then(b, k + 1) = ServerMessage(b, f[k + 1])
    BY <1>1, <1>2
  <2>2. Hears(ServerMessage(b, Flight[k + 1]), c, k + 1)
    BY <1>2, MessageHeard
  <2> QED BY <2>1, <2>2, Zenon
<1>3. ASSUME NEW b, NEW k \in Nat, Hears(b, c, k), k + 1 = n
      PROVE  Done(Then(b, k + 1))
  <2>1. f[k + 1] = "Finished" /\ k + 1 <= n /\ k = Len(Flight) - 1
    BY <1>1, <1>3, FlightFacts
  <2>2. Then(b, k + 1) = ServerMessage(b, "Finished")
    BY <2>1, Zenon
  <2>3. Done(ServerMessage(b, "Finished"))
    BY <1>3, <2>1, FinishedHeard
  <2> QED BY <2>2, <2>3, Zenon
<1>4. ASSUME NEW b, NEW i \in Nat, i > n PROVE Then(b, i) = b
  BY <1>1, <1>4
<1>5. ServerMessages(a, f) = b5
  BY Zenon DEF ServerMessages
<1> HIDE DEF f, n, Then, Done
<1>6. Hears(b1, c, 1)
  <2>1. 0 + 1 < n /\ 0 + 1 = 1
    BY <1>1
  <2> QED BY <2>1, <1>2
<1>7. ASSUME NEW b, Hears(b, c, 1) PROVE (2 < n => Hears(Then(b, 2), c, 2)) /\ (2 = n => Done(Then(b, 2)))
  <2>1. 1 + 1 = 2
    OBVIOUS
  <2> QED BY <2>1, <1>1, <1>2, <1>3, <1>7
<1>8. ASSUME NEW b, Hears(b, c, 2) PROVE (3 < n => Hears(Then(b, 3), c, 3)) /\ (3 = n => Done(Then(b, 3)))
  <2>1. 2 + 1 = 3
    OBVIOUS
  <2> QED BY <2>1, <1>1, <1>2, <1>3, <1>8
<1>9. ASSUME NEW b, Hears(b, c, 3) PROVE (4 < n => Hears(Then(b, 4), c, 4)) /\ (4 = n => Done(Then(b, 4)))
  <2>1. 3 + 1 = 4
    OBVIOUS
  <2> QED BY <2>1, <1>1, <1>2, <1>3, <1>9
<1>10. ASSUME NEW b, Hears(b, c, 4) PROVE 5 = n => Done(Then(b, 5))
  <2>1. 4 + 1 = 5
    OBVIOUS
  <2> QED BY <2>1, <1>1, <1>2, <1>3, <1>10
<1>12. CASE n = 2
  <2>1. Done(b2)
    BY <1>6, <1>7, <1>12
  <2>2. b3 = b2 /\ b4 = b3 /\ b5 = b4
    BY <1>4, <1>12
  <2> QED BY <2>1, <2>2, <1>5 DEF f, Done
<1>13. CASE n = 3
  <2>1. Hears(b2, c, 2)
    BY <1>6, <1>7, <1>13
  <2>2. Done(b3)
    BY <2>1, <1>8, <1>13
  <2>3. b4 = b3 /\ b5 = b4
    BY <1>4, <1>13
  <2> QED BY <2>2, <2>3, <1>5 DEF f, Done
<1>14. CASE n = 4
  <2>1. Hears(b2, c, 2)
    BY <1>6, <1>7, <1>14
  <2>2. Hears(b3, c, 3)
    BY <2>1, <1>8, <1>14
  <2>3. Done(b4)
    BY <2>2, <1>9, <1>14
  <2>4. b5 = b4
    BY <1>4, <1>14
  <2> QED BY <2>3, <2>4, <1>5 DEF f, Done
<1>15. CASE n = 5
  <2>1. Hears(b2, c, 2)
    BY <1>6, <1>7, <1>15
  <2>2. Hears(b3, c, 3)
    BY <2>1, <1>8, <1>15
  <2>3. Hears(b4, c, 4)
    BY <2>2, <1>9, <1>15
  <2>4. Done(b5)
    BY <2>3, <1>10, <1>15
  <2> QED BY <2>4, <1>5 DEF f, Done
<1> QED BY <1>1, <1>12, <1>13, <1>14, <1>15

\* The record of the flight that is next is taken.
LEMMA FlightRecordHeard ==
    ASSUME StreamInv, profile \in Profiles, Agreeing, NEW r \in ToSet(srv), NEW a, NEW c \in Nat,
           Hears(a, c, c), c < SealedRecords, r.nonce = <<ServerHsKey, c>>
    PROVE  /\ ServerMessages(a, r.msgs).ok
           /\ \/ c + 1 < SealedRecords /\ Hears(ServerMessages(a, r.msgs), c, c + 1)
              \/ c + 1 = SealedRecords /\ Verified(ServerMessages(a, r.msgs), c)
<1>1. PICK i \in PlainRecords + 1 .. PlainRecords + SealedRecords :
         /\ c = i - PlainRecords - 1
         /\ r.msgs = IF profile.coalesced THEN Flight ELSE <<Flight[i - PlainRecords]>>
  BY HandshakeKeyRecord
<1>2. PlainRecords \in 1 .. 2 /\ SealedRecords \in 1 .. 5
  BY FlightRecordFacts DEF Agreeing
<1>3. i - PlainRecords = c + 1
  BY <1>1, <1>2
<1>4. CASE profile.coalesced
  <2>1. SealedRecords = 1 /\ r.msgs = Flight
    BY <1>1, <1>4 DEF SealedRecords
  <2>2. c = 0 /\ c + 1 = SealedRecords
    BY <2>1
  <2>3. Hears(a, c, 0)
    BY <2>2
  <2> QED BY <2>1, <2>2, <2>3, WholeFlightHeard
<1>5. CASE ~profile.coalesced
  <2> DEFINE m == Flight[c + 1]
  <2>1. SealedRecords = Len(Flight) /\ r.msgs = <<m>>
    BY <1>1, <1>3, <1>5 DEF SealedRecords
  <2>2. Len(Flight) \in 2 .. 5 /\ Len(Flight) \in Nat
    BY FlightFacts
  <2>3. ServerMessages(a, r.msgs) = ServerMessage(a, m)
    BY <2>1, OneMessage, Zenon
  <2>4. CASE c + 1 = Len(Flight)
    <3>1. m = "Finished" /\ c = Len(Flight) - 1
      BY <2>2, <2>4, FlightFacts
    <3>2. ServerMessage(a, "Finished").ok /\ Verified(ServerMessage(a, "Finished"), c)
      BY <3>1, FinishedHeard
    <3> QED BY <2>1, <2>3, <2>4, <3>1, <3>2, Zenon
  <2>5. CASE c + 1 # Len(Flight)
    <3>1. c + 1 < Len(Flight)
      BY <2>1, <2>2, <2>5
    <3>2. Hears(ServerMessage(a, m), c, c + 1)
      BY <3>1, MessageHeard
    <3>3. ServerMessage(a, m).ok
      BY <3>2, Zenon DEF Hears
    <3> QED BY <2>1, <2>3, <3>1, <3>2, <3>3, Zenon
  <2> QED BY <2>4, <2>5
<1> QED BY <1>4, <1>5

\* Where a result leaves a handshake that has taken c records.
StandsAfter(a, c) ==
    \/ /\ a.hs.state = "ServerVerify"
       /\ c = PlainRecords + a.ks.read.counter \/ (c = 1 /\ a.ks.read.counter = 0)
       /\ a.ks.read.counter < SealedRecords /\ Heard(a.ks.transcript, a.ks.read.counter)
    \/ a.hs.state \in {"ClientCert", "ClientFinished"} /\ c = Len(FlightRecords)

\* The records of the flight as they are in the stream.
LEMMA FlightInStream ==
    ASSUME StreamInv, Agreeing, NEW i \in DOMAIN srv, i <= Len(FlightRecords)
    PROVE  /\ i = 1 => srv[i].outer = "Handshake" /\ srv[i].msgs[1] = "ServerHello"
           /\ i # 1 /\ i <= PlainRecords => srv[i].outer = "ChangeCipherSpec"
           /\ i > PlainRecords => /\ srv[i].outer = "ApplicationData" /\ srv[i].inner = "Handshake"
                                  /\ srv[i].nonce = <<ServerHsKey, i - PlainRecords - 1>>
<1>1. /\ PlainRecords \in 1 .. 2 /\ SealedRecords \in 1 .. 5
      /\ Len(FlightRecords) = PlainRecords + SealedRecords
      /\ i \in Nat /\ i >= 1 /\ profile.hello = "ok"
  <2>1. DOMAIN srv = 1 .. Len(srv) /\ Len(srv) \in Nat
    BY StreamEndFacts
  <2>2. profile.hello = "ok"
    BY DEF Agreeing
  <2>3. i \in Nat /\ i >= 1
    BY <2>1
  <2> QED BY <2>2, <2>3, FlightRecordFacts
<1>2. srv[i] = Placed(FlightRecords[i], srv[i].start)
  BY DEF StreamInv, Ordered
<1>3. CASE i = 1
  <2> DEFINE o == "Handshake"
             m == <<"ServerHello">>
             x == srv[i].start
  <2>1. srv[i] = Placed(Plain(o, m), x)
    BY <1>1, <1>2, <1>3, FlightRecordFacts
  <2>2. m[1] = "ServerHello"
    OBVIOUS
  <2> HIDE DEF o, m, x
  <2>3. Placed(Plain(o, m), x).outer = o /\ Placed(Plain(o, m), x).msgs = m
    BY PlacedPlain
  <2>4. srv[i].outer = o /\ srv[i].msgs[1] = "ServerHello"
    BY <2>1, <2>2, <2>3
  <2> QED BY <1>1, <1>3, <2>4 DEF o
<1>4. CASE i # 1 /\ i <= PlainRecords
  <2> DEFINE o == "ChangeCipherSpec"
             m == << >>
             x == srv[i].start
  <2>1. i = 2 /\ PlainRecords = 2
    BY <1>1, <1>4
  <2>2. FlightRecords[i] = Plain(o, m)
    BY <1>1, <2>1, FlightRecordFacts
  <2>3. srv[i] = Placed(Plain(o, m), x)
    BY <1>2, <2>2
  <2> HIDE DEF o, m, x
  <2>4. Placed(Plain(o, m), x).outer = o
    BY PlacedPlain
  <2>5. srv[i].outer = o
    BY <2>3, <2>4
  <2> QED BY <1>1, <1>4, <2>5 DEF o
<1>5. CASE i > PlainRecords
  <2> DEFINE l == "s hs traffic"
             c == i - PlainRecords - 1
             k == "Handshake"
             m == IF profile.coalesced THEN Flight ELSE <<Flight[i - PlainRecords]>>
             n == 2
             x == srv[i].start
  <2>1. i \in PlainRecords + 1 .. PlainRecords + SealedRecords
    BY <1>1, <1>5
  <2>2. FlightRecords[i] = Sealed(l, c, k, m, n)
    BY <1>1, <2>1, FlightRecordFacts
  <2>3. srv[i] = Placed(Sealed(l, c, k, m, n), x)
    BY <1>2, <2>2
  <2>4. ServerKey(l) = ServerHsKey
    BY DEF ServerHsKey
  <2> HIDE DEF l, c, k, m, n, x
  <2>5. /\ Placed(Sealed(l, c, k, m, n), x).outer = "ApplicationData"
        /\ Placed(Sealed(l, c, k, m, n), x).inner = k
        /\ Placed(Sealed(l, c, k, m, n), x).nonce = <<ServerKey(l), c>>
    BY PlacedSealed
  <2>6. srv[i].outer = "ApplicationData" /\ srv[i].inner = k /\ srv[i].nonce = <<ServerHsKey, c>>
    BY <2>3, <2>4, <2>5
  <2> QED BY <1>1, <1>5, <2>6 DEF k, c
<1> QED BY <1>1, <1>3, <1>4, <1>5

\* The record that is next takes the handshake on.
LEMMA HelloInStep ==
    ASSUME SessionShapes, WriteInv, StreamInv, Agreeing, phase = "opening", hs.state = "ServerHello",
           NEW c \in Nat, c + 1 \in DOMAIN srv, Stands(c)
    PROVE  /\ process_server_hello(srv[c + 1]).ok
           /\ StandsAfter(process_server_hello(srv[c + 1]), c + 1)
<1> DEFINE a == process_server_hello(srv[c + 1])
<1>1. c = 0 /\ hs.secret
  BY DEF Stands
<1>2. /\ SealedRecords \in 1 .. 5 /\ Len(FlightRecords) \in Nat \ {0}
  <2>1. profile.hello = "ok" /\ profile \in Profiles
    BY DEF Agreeing, SessionShapes
  <2> QED BY <2>1, FlightRecordFacts, FlightRecordShapes
<1>3. srv[c + 1].outer = "Handshake" /\ srv[c + 1].msgs[1] = "ServerHello"
  <2> DEFINE i == c + 1
  <2>1. i = 1 /\ i <= Len(FlightRecords) /\ i \in DOMAIN srv
    BY <1>1, <1>2
  <2> HIDE DEF i
  <2>2. srv[i].outer = "Handshake" /\ srv[i].msgs[1] = "ServerHello"
    BY <2>1, FlightInStream
  <2> QED BY <2>2 DEF i
<1>4. a.ok /\ Verifying(a, 0) /\ a.ks.transcript = HelloTranscript
  BY <1>1, <1>3, ServerHelloTaken
<1> HIDE DEF a
<1>5. a.hs.state = "ServerVerify" /\ a.ks = HandshakeKeys(HelloTranscript, 0, 0)
  BY <1>4, Zenon DEF Verifying
<1>6. a.ks.read.counter = 0
  BY <1>5, StageFields
<1>7. Heard(HelloTranscript, 0)
  <2>1. \A i \in 1 .. 2 : HelloTranscript[i] = ServerTranscript[i]
    BY TranscriptFacts
  <2> QED BY <2>1, HelloFacts DEF Heard
<1>8. StandsAfter(a, c + 1)
  <2>1. c + 1 = 1 /\ 0 < SealedRecords
    BY <1>1, <1>2
  <2> QED BY <2>1, <1>4, <1>5, <1>6, <1>7 DEF StandsAfter
<1> QED BY <1>4, <1>8 DEF a

\* A record under the handshake keys.
LEMMA SealedInStep ==
    ASSUME SessionShapes, WriteInv, StreamInv, Agreeing, phase = "opening", hs.state = "ServerVerify",
           NEW r \in ToSet(srv), r.outer = "ApplicationData", r.inner = "Handshake",
           r.nonce = <<ServerHsKey, ks.read.counter>>,
           ks.read.counter < SealedRecords, Heard(ks.transcript, ks.read.counter)
    PROVE  /\ process_server_verify(r).ok
           /\ StandsAfter(process_server_verify(r), PlainRecords + ks.read.counter + 1)
<1> DEFINE yes == TRUE
           a == Result(yes, ks, hs)
           b == ServerMessages(a, r.msgs)
           c == ks.read.counter
           k == Received(b.ks)
           e == Result(yes, k, b.hs)
<1>1. HandshakeShape(hs) /\ KeyInv /\ profile \in Profiles
  BY SendingState
<1>2. /\ ks = HandshakeKeys(ks.transcript, 0, c) /\ c \in Nat
      /\ ks.transcript \in Seq(Messages) /\ (hs.certificate_request <=> Requested(ks.transcript))
  BY <1>1 DEF KeyInv, ServerVerifyStage
<1>3. ks.read.key = ServerHsKey
  <2> DEFINE t == ks.transcript
  <2>1. ks = HandshakeKeys(t, 0, c)
    BY <1>2
  <2> HIDE DEF t, c
  <2> QED BY <2>1, StageFields
<1>4. Decrypts(r)
  BY <1>3, Zenon DEF Decrypts, get_nonce
<1>0. yes \in BOOLEAN
  OBVIOUS
<1>5. yes
  OBVIOUS
<1>6. process_server_verify(r) = IF b.ok THEN e ELSE b
  BY <1>4, Zenon DEF process_server_verify
<1> HIDE DEF yes, c
<1>7. a.ok \in BOOLEAN /\ a.ok = yes /\ a.ks = ks /\ a.hs = hs
  BY <1>0, ResultFields
<1> HIDE DEF a
<1>8. Verifying(a, c)
  BY <1>1, <1>2, <1>7, Zenon DEF Verifying, ResultShape
<1>9. Hears(a, c, c) /\ c < SealedRecords /\ r.nonce = <<ServerHsKey, c>>
  BY <1>5, <1>7, <1>8, Zenon DEF Hears, c
<1>10. /\ b.ok
       /\ \/ c + 1 < SealedRecords /\ Hears(b, c, c + 1)
          \/ c + 1 = SealedRecords /\ Verified(b, c)
  BY <1>1, <1>2, <1>9, FlightRecordHeard
<1> HIDE DEF b
<1>11. e.ok = yes /\ e.ks = k /\ e.hs = b.hs
  BY ResultFields
<1>12. PlainRecords \in 1 .. 2 /\ SealedRecords \in 1 .. 5 /\ Len(FlightRecords) = PlainRecords + SealedRecords
  <2>1. profile.hello = "ok"
    BY DEF Agreeing
  <2> QED BY <2>1, FlightRecordFacts
<1> HIDE DEF e, k
<1>13. StandsAfter(e, PlainRecords + c + 1)
  <2>1. CASE c + 1 < SealedRecords /\ Hears(b, c, c + 1)
    <3> DEFINE t == b.ks.transcript
               d == c + 1
    <3>1. b.hs.state = "ServerVerify" /\ b.ks = HandshakeKeys(t, 0, c) /\ Heard(t, d)
      BY <2>1, <1>10, Zenon DEF Hears, Verifying
    <3>0. PlainRecords + c + 1 = PlainRecords + d /\ d < SealedRecords
      BY <1>2, <1>12, <2>1
    <3> HIDE DEF t, d
    <3>2. k = HandshakeKeys(t, 0, d)
      BY <1>2, <3>1, ReceivedKeys, Zenon DEF k, d
    <3>3. k.transcript = t /\ k.read.counter = d
      BY <3>2, StageFields
    <3> QED BY <1>11, <3>0, <3>1, <3>3 DEF StandsAfter
  <2>2. CASE c + 1 = SealedRecords /\ Verified(b, c)
    <3>1. b.hs.state \in {"ClientCert", "ClientFinished"}
      BY <1>10, <2>2 DEF Verified
    <3>2. PlainRecords + c + 1 = Len(FlightRecords)
      BY <1>2, <1>12, <2>2
    <3> QED BY <1>11, <3>1, <3>2 DEF StandsAfter
  <2> QED BY <1>10, <2>1, <2>2
<1> QED BY <1>5, <1>6, <1>10, <1>11, <1>13 DEF c

\* The same for the record that is next after the ServerHello.
LEMMA VerifyInStep ==
    ASSUME SessionShapes, WriteInv, StreamInv, Agreeing, phase = "opening", hs.state = "ServerVerify",
           NEW c \in Nat, c + 1 \in DOMAIN srv, Stands(c)
    PROVE  /\ process_server_verify(srv[c + 1]).ok
           /\ StandsAfter(process_server_verify(srv[c + 1]), c + 1)
<1> DEFINE i == c + 1
           r == srv[i]
           rc == ks.read.counter
<1>1. /\ c = PlainRecords + rc \/ (c = 1 /\ rc = 0)
      /\ rc < SealedRecords /\ Heard(ks.transcript, rc)
  BY DEF Stands
<1>2. rc \in Nat
  BY SendingState DEF KeyInv, ServerVerifyStage
<1>3. PlainRecords \in 1 .. 2 /\ SealedRecords \in 1 .. 5 /\ Len(FlightRecords) = PlainRecords + SealedRecords
  <2>1. profile.hello = "ok"
    BY DEF Agreeing
  <2> QED BY <2>1, FlightRecordFacts
<1>4. i <= Len(FlightRecords) /\ i # 1 /\ i \in DOMAIN srv /\ r \in ToSet(srv)
  <2>1. i <= Len(FlightRecords) /\ i # 1
    <3> HIDE DEF rc
    <3> QED BY <1>1, <1>2, <1>3
  <2>2. r \in ToSet(srv)
    BY DEF ToSet
  <2> QED BY <2>1, <2>2
<1>5. CASE i <= PlainRecords
  <2>1. rc = 0 /\ i = PlainRecords + rc
    <3> HIDE DEF rc
    <3> QED BY <1>1, <1>2, <1>3, <1>5
  <2>2. r.outer = "ChangeCipherSpec"
    <3> HIDE DEF i
    <3> QED BY <1>4, <1>5, FlightInStream
  <2> DEFINE yes == TRUE
             a == Result(yes, ks, hs)
  <2>3. process_server_verify(r) = a
    BY <2>2 DEF process_server_verify, Decrypts
  <2>4. yes
    OBVIOUS
  <2> HIDE DEF yes
  <2>5. a.ok = yes /\ a.ks = ks /\ a.hs = hs
    BY ResultFields
  <2> HIDE DEF a, r, i
  <2>6. StandsAfter(a, i)
    BY <1>1, <2>1, <2>5 DEF StandsAfter
  <2> QED BY <2>3, <2>4, <2>5, <2>6 DEF r, i
<1>6. CASE ~(i <= PlainRecords)
  <2>1. c = PlainRecords + rc
    <3> HIDE DEF rc
    <3> QED BY <1>1, <1>2, <1>3, <1>6
  <2>2. i > PlainRecords /\ i - PlainRecords - 1 = rc /\ i = PlainRecords + rc + 1
    <3> HIDE DEF rc
    <3> QED BY <1>2, <1>3, <2>1
  <2>3. r.outer = "ApplicationData" /\ r.inner = "Handshake" /\ r.nonce = <<ServerHsKey, rc>>
    <3> HIDE DEF i, rc
    <3> QED BY <1>4, <2>2, FlightInStream
  <2> HIDE DEF r
  <2>4. /\ process_server_verify(r).ok
        /\ StandsAfter(process_server_verify(r), PlainRecords + rc + 1)
    BY <1>1, <1>4, <2>3, SealedInStep
  <2> QED BY <2>2, <2>4 DEF r, i
<1> QED BY <1>5, <1>6

\* Nothing has happened yet that would excuse a failure.
Sound ==
    /\ ~lost /\ ~rd.cut /\ Agreeing /\ ~(profile.request /\ profile.client = "nosigner")
    /\ \A r \in ToSet(srv) :
          ~(r.n > ReadBufLen) /\ r.msgs # <<"KeyUpdate">> /\ r.msgs # <<"InternalError">>

\* What is not excused is sound.
LEMMA SoundIsNotExcused == ~Excused => Sound
  BY Zenon DEF Excused, Sound, Agreeing

\* A cause stays a cause.
LEMMA ExcusedStays ==
    ASSUME SInv, Next, Excused
    PROVE  Excused'
<1>1. /\ profile' = profile /\ StreamInv /\ StreamInv'
      /\ \A i \in DOMAIN srv : i \in DOMAIN srv' /\ srv'[i] = srv[i]
  BY StreamStep DEF SInv, SessionShapes
<1>2. \A r \in ToSet(srv) : r \in ToSet(srv')
  <2> SUFFICES ASSUME NEW r \in ToSet(srv) PROVE r \in ToSet(srv')
    OBVIOUS
  <2>1. PICK i \in DOMAIN srv : r = srv[i]
    BY <1>1, RecordOfStream
  <2> QED BY <1>1, <2>1 DEF ToSet
<1>3. \/ ServerStep \/ OpenConnection \/ ClientSends \/ HandshakeRecord \/ ReaderStep
      \/ TakeStep \/ ApplicationRecord \/ WriterStep \/ CloseConnection
  BY Steps
<1>4. lost => lost'
  <2>1. CASE ServerStep
    BY <2>1, Zenon DEF ServerStep, ServerFlight, ServerSends, TransportLost
  <2>2. CASE ~ServerStep
    BY <1>3, <2>2, ClientLeavesServer, Zenon
  <2> QED BY <2>1, <2>2
<1>5. rd.cut => rd'.cut
  <2>0. ReaderShapes /\ rd \in Readings
    BY DEF SInv, ReaderShapes
  <2>1. ASSUME rd' = Finish("idle") \/ rd' = Finish("header") PROVE rd'.cut = rd.cut
    BY <2>0, <2>1, FinishFields
  <2>2. CASE ServerStep
    BY <2>2, Zenon DEF ServerStep, ServerFlight, ServerSends, TransportLost, reading
  <2>3. CASE OpenConnection \/ ClientSends \/ TakeStep \/ WriterStep \/ CloseConnection
    BY <2>3, ClientFrames, Zenon DEF reading
  <2>4. CASE HandshakeRecord
    BY <2>1, <2>4, Zenon DEF HandshakeRecord
  <2>5. CASE ApplicationRecord
    BY <2>1, <2>5, RecordSteps, Zenon
  <2>6. CASE ReaderStep
    <3>1. CASE \E k \in 1 .. HeaderLen : HeaderPiece(k)
      <4>1. PICK k \in 1 .. HeaderLen : HeaderPiece(k)
        BY <3>1
      <4>2. \/ rd' = rd \/ rd' = [rd EXCEPT !.have = @ + k]
            \/ \E len : rd' = [rd EXCEPT !.at = "body", !.have = 0, !.want = len]
        BY <4>1, Zenon DEF HeaderPiece
      <4> QED BY <2>0, <4>2 DEF Readings
    <3>2. CASE \E k \in 1 .. ReadBufLen : BodyPiece(k)
      <4>1. PICK k \in 1 .. ReadBufLen : BodyPiece(k)
        BY <3>2
      <4>2. rd' = rd \/ rd' = [rd EXCEPT !.have = @ + k]
        BY <4>1, Zenon DEF BodyPiece
      <4> QED BY <2>0, <4>2 DEF Readings
    <3>3. CASE ReadFails
      BY <3>3, Zenon DEF ReadFails, reading
    <3>4. CASE HandshakeRead
      BY <2>0, <3>4 DEF HandshakeRead, Readings
    <3>5. CASE CancelRead
      <4>1. rd' = [Finish("idle") EXCEPT !.cut = rd.cut \/ rd.at = "body" \/ rd.have > 0]
        BY <3>5, Zenon DEF CancelRead
      <4>2. Finish("idle") \in Readings
        BY <2>0, FinishFields
      <4>3. rd'.cut = (rd.cut \/ rd.at = "body" \/ rd.have > 0)
        BY <4>1, <4>2 DEF Readings
      <4> QED BY <4>3
    <3>6. CASE phase = "up" /\ ReadBuffered
      BY <2>1, <3>6, Zenon DEF ReadBuffered
    <3> QED BY <2>6, <3>1, <3>2, <3>3, <3>4, <3>5, <3>6 DEF ReaderStep
  <2> QED BY <1>3, <2>2, <2>3, <2>4, <2>5, <2>6
<1> QED BY <1>1, <1>2, <1>4, <1>5, Zenon DEF Excused

\* Steps that leave the handshake as it is.
LEMMA StandsFrame ==
    ASSUME profile' = profile, NEW c, Stands(c), hs' = hs, ks'.read.counter = ks.read.counter,
           ks'.transcript = ks.transcript \/ hs.state = "ApplicationData"
    PROVE  Stands(c)'
<1>1. /\ PlainRecords' = PlainRecords /\ SealedRecords' = SealedRecords
      /\ FlightRecords' = FlightRecords /\ ServerTranscript' = ServerTranscript
  BY ProfileFrame
<1>2. Current' = Current
  BY <1>1 DEF Current
<1>3. hs.state = "ServerVerify" /\ Heard(ks.transcript, ks.read.counter) =>
         Heard(ks.transcript, ks.read.counter)'
  BY <1>1 DEF Heard
<1> QED BY <1>1, <1>2, <1>3, Zenon DEF Stands

\* What InStep says of a connection that is used.
Standing == \E c \in 0 .. Len(srv) : At(c) /\ Stands(c)

\* Steps that leave the reader where it is.
LEMMA ReaderStays ==
    ASSUME SInv, Next, NEW c \in 0 .. Len(srv), At(c), UNCHANGED <<rd, rdr, taken>>, Stands(c)'
    PROVE  Standing'
<1>1. /\ StreamInv /\ Len(srv) \in Nat /\ Len(srv') \in Nat /\ Len(srv') >= Len(srv)
      /\ \A i \in DOMAIN srv : i \in DOMAIN srv' /\ srv'[i] = srv[i]
  BY StreamStep, StreamEndFacts DEF SInv, SessionShapes
<1>2. At(c)'
  BY <1>1, AtFrame
<1>3. c \in 0 .. Len(srv')
  BY <1>1
<1> QED BY <1>2, <1>3 DEF Standing

\* The server's steps, opening and taking units.
LEMMA OthersInStep ==
    ASSUME SInv, Next, InStep,
           \/ ServerStep /\ phase' = phase
           \/ OpenConnection
           \/ TakeStep
    PROVE  InStep'
<1>1. UNCHANGED <<rd, rdr, taken, ks, hs>>
  BY ClientFrames, Zenon DEF ServerStep, ServerFlight, ServerSends, TransportLost, OpenConnection,
       TakeStep, reading, session
<1>2. /\ phase' = phase \/ (phase = "new" /\ phase' = "opening")
      /\ phase # "failed"
  BY ClientFrames, Zenon DEF OpenConnection, InStep, session
<1>3. profile' = profile
  BY StreamStep DEF SInv, SessionShapes
<1>4. CASE phase \in {"new", "opening", "up"}
  <2>1. PICK c \in 0 .. Len(srv) : At(c) /\ Stands(c)
    BY <1>4 DEF InStep
  <2>2. Stands(c)'
    BY <1>1, <1>3, <2>1, StandsFrame
  <2>3. Standing'
    BY <1>1, <2>1, <2>2, ReaderStays
  <2> QED BY <1>2, <1>4, <2>3 DEF InStep, Standing
<1>5. CASE phase \notin {"new", "opening", "up"}
  <2>1. phase' = phase
    BY <1>2, <1>5
  <2> QED BY <1>1, <1>5, <2>1 DEF InStep
<1> QED BY <1>4, <1>5

\* The client sends the next message of its own.
LEMMA AnswersInStep ==
    ASSUME SInv, Next, InStep, Sound, ClientSends
    PROVE  InStep'
<1>1. /\ phase = "opening" /\ ~lost /\ SessionShapes /\ WriteInv /\ StreamInv
  BY Zenon DEF ClientSends, client_hello, client_cert, client_cert_verify, client_finished, InState,
       Sound, SInv
<1>2. UNCHANGED <<profile, rd, rdr, taken>> /\ HandshakeShape(hs) /\ KeyInv /\ wb = WriteBuffer_new
  BY <1>1, ClientFrames, SendingState DEF reading
<1>3. PICK c \in 0 .. Len(srv) : At(c) /\ Stands(c)
  BY <1>1 DEF InStep
<1>4. FlightRecords' = FlightRecords /\ Current' = Len(FlightRecords) + ks'.read.counter
  BY <1>2, ProfileFrame DEF Current
<1>5. CASE client_hello
  <2> DEFINE h == [hs EXCEPT !.state = "ServerHello", !.secret = TRUE]
             g == [hs EXCEPT !.state = "ServerHello"]
  <2>1. hs.state = "ClientHello" /\ \E w, k : w.ok /\ Answer(w, k, h, "opening")
    <3> DEFINE e == initialize_early_secret(ks, Psk)
               m == "ClientHello"
               v == write_record(WriteBuffer_new, e, header("Handshake", FALSE), m)
               f == finalize(v)
    <3>1. hs.state = m /\ Answer(f, Sent(f.ks), h, "opening")
      BY <1>2, <1>5, Zenon DEF client_hello, InState
    <3> HIDE DEF e, m
    <3>2. f.ok
      BY Finalize
    <3> QED BY <3>1, <3>2, Zenon DEF m
  <2>2. HandshakeShape(g) /\ g.state = "ServerHello"
    BY <1>2 DEF HandshakeShape, States
  <2>3. h = [g EXCEPT !.secret = TRUE]
    BY Zenon
  <2> HIDE DEF g
  <2>4. h.state = "ServerHello" /\ h.secret
    BY <2>2, <2>3 DEF HandshakeShape
  <2> HIDE DEF h
  <2>5. hs' = h /\ phase' = "opening"
    BY <1>1, <2>1, AnswerEffect, Zenon
  <2>6. c = 0
    BY <1>3, <2>1 DEF Stands
  <2>7. Stands(c)'
    BY <2>4, <2>5, <2>6 DEF Stands
  <2>8. Standing'
    BY <1>2, <1>3, <2>7, ReaderStays
  <2> QED BY <2>5, <2>8 DEF InStep, Standing
<1>6. CASE client_cert
  <2> DEFINE s == IF profile.client = "none" THEN "ClientFinished" ELSE "ClientCertVerify"
             h == [hs EXCEPT !.traffic_hash = client_cert_hash, !.state = s]
             g == [hs EXCEPT !.traffic_hash = client_cert_hash]
  <2>1. hs.state = "ClientCert" /\ \E w, k : w.ok /\ Answer(w, k, h, "opening")
    <3> DEFINE kind == "Handshake"
               m == "ClientCertificate"
               v == SealedRecord(ks, kind, m)
    <3>1. hs.state = "ClientCert"
      BY <1>6, Zenon DEF client_cert, InState
    <3>2. hs.certificate_request
      BY <1>2, <3>1 DEF KeyInv, ClientCertStage
    <3>3. Answer(v, Sent(v.ks), h, "opening")
      BY <1>2, <1>6, <3>2, Zenon DEF client_cert, SealedRecord
    <3>4. kind \in {"Handshake", "Alert"}
      OBVIOUS
    <3> HIDE DEF kind, m
    <3>5. v.ok
      BY <3>4, WriteSealed
    <3> QED BY <3>1, <3>3, <3>5, Zenon
  <2>2. DOMAIN g = DOMAIN hs /\ DOMAIN hs = {"state", "traffic_hash", "secret", "certificate_request"}
    BY <1>2 DEF HandshakeShape
  <2>3. h = [g EXCEPT !.state = s] /\ s \in {"ClientCertVerify", "ClientFinished"}
    BY Zenon
  <2> HIDE DEF g, s
  <2>4. h.state \in {"ClientCertVerify", "ClientFinished"}
    BY <2>2, <2>3
  <2> HIDE DEF h
  <2>5. hs' = h /\ phase' = "opening"
    BY <1>1, <2>1, AnswerEffect, Zenon
  <2>6. c = Len(FlightRecords)
    BY <1>3, <2>1 DEF Stands
  <2>7. Stands(c)'
    BY <1>4, <2>4, <2>5, <2>6 DEF Stands
  <2>8. Standing'
    BY <1>2, <1>3, <2>7, ReaderStays
  <2> QED BY <2>5, <2>8 DEF InStep, Standing
<1>7. CASE client_cert_verify
  <2> DEFINE h == [hs EXCEPT !.state = "ClientFinished"]
             p == IF profile.client = "signer" THEN "opening" ELSE "failed"
  <2>1. hs.state = "ClientCertVerify" /\ \E w, k : w.ok /\ Answer(w, k, h, p)
    <3> DEFINE signed == profile.client = "signer"
               kind == IF signed THEN "Handshake" ELSE "Alert"
               m == IF signed THEN "ClientCertificateVerify" ELSE "CloseNotify"
               v == SealedRecord(ks, kind, m)
    <3>1. hs.state = "ClientCertVerify"
      BY <1>7, Zenon DEF client_cert_verify, InState
    <3>2. Answer(v, Sent(v.ks), h, p)
      <4>1. CASE signed
        BY <4>1, <1>2, <1>7, Zenon DEF client_cert_verify, SealedRecord
      <4>2. CASE ~signed
        BY <4>2, <1>2, <1>7, Zenon DEF client_cert_verify, SealedRecord
      <4> QED BY <4>1, <4>2
    <3>3. kind \in {"Handshake", "Alert"}
      OBVIOUS
    <3> HIDE DEF kind, m
    <3>4. v.ok
      BY <3>3, WriteSealed
    <3> QED BY <3>1, <3>2, <3>4, Zenon
  <2>2. h.state = "ClientFinished"
    BY <1>2 DEF HandshakeShape
  <2>3. p = "opening"
    <3>1. profile.request /\ profile.client # "none"
      BY <1>2, <2>1 DEF KeyInv, ClientCertVerifyStage
    <3>2. profile.client # "nosigner"
      BY <3>1 DEF Sound
    <3>3. profile.client \in {"none", "signer", "nosigner"}
      BY <1>1, ProfilesAssumption DEF SessionShapes, ProfileType
    <3> QED BY <3>1, <3>2, <3>3
  <2> HIDE DEF h, p
  <2>4. hs' = h /\ phase' = p
    BY <1>1, <2>1, AnswerEffect, Zenon
  <2>5. c = Len(FlightRecords)
    BY <1>3, <2>1 DEF Stands
  <2>6. Stands(c)'
    BY <1>4, <2>2, <2>4, <2>5 DEF Stands
  <2>7. Standing'
    BY <1>2, <1>3, <2>6, ReaderStays
  <2> QED BY <2>3, <2>4, <2>7 DEF InStep, Standing
<1>8. CASE client_finished
  <2> DEFINE h == [hs EXCEPT !.state = "ApplicationData", !.traffic_hash = NoSecret]
             g == [hs EXCEPT !.state = "ApplicationData"]
  <2>1. hs.state = "ClientFinished" /\ \E w, k : w.ok /\ Answer(w, k, h, "up")
    <3> DEFINE kind == "Handshake"
               m == create_client_finished(ks)
               v == SealedRecord(ks, kind, m)
    <3>1. hs.state = "ClientFinished"
      BY <1>8, Zenon DEF client_finished, InState
    <3>2. hs.traffic_hash # NoSecret
      BY <1>2, <3>1, TranscriptIsHash DEF KeyInv, ClientFinishedStage
    <3>3. Answer(v, client_finished_finalize(Sent(v.ks)), h, "up")
      BY <1>2, <1>8, <3>2, Zenon DEF client_finished, SealedRecord
    <3>4. kind \in {"Handshake", "Alert"}
      OBVIOUS
    <3> HIDE DEF kind, m
    <3>5. v.ok
      BY <3>4, WriteSealed
    <3> QED BY <3>1, <3>3, <3>5, Zenon
  <2>2. DOMAIN g = {"state", "traffic_hash", "secret", "certificate_request"} /\ g.state = "ApplicationData"
    BY <1>2 DEF HandshakeShape
  <2>3. h = [g EXCEPT !.traffic_hash = NoSecret]
    BY Zenon
  <2> HIDE DEF g
  <2>4. h.state = "ApplicationData"
    BY <2>2, <2>3
  <2> HIDE DEF h
  <2>5. hs' = h /\ phase' = "up"
    BY <1>1, <2>1, AnswerEffect, Zenon
  <2>6. ks'.read.counter = 0
    BY <1>1, <1>8, <2>5, ClientFinishedSent
  <2>7. c = Len(FlightRecords) /\ Len(FlightRecords) \in Nat
    BY <1>1, <1>3, <2>1, FlightRecordShapes DEF Stands, SessionShapes
  <2>8. c = Current'
    BY <1>4, <2>6, <2>7
  <2>9. Stands(c)'
    BY <2>4, <2>5, <2>8 DEF Stands
  <2>10. Standing'
    BY <1>2, <1>3, <2>9, ReaderStays
  <2> QED BY <2>5, <2>10 DEF InStep, Standing
<1> QED BY <1>5, <1>6, <1>7, <1>8 DEF ClientSends

\* The reader goes on.
LEMMA ReadsInStep ==
    ASSUME SInv, Next, InStep, Sound, Sound', ReaderStep
    PROVE  InStep'
<1>1. /\ UNCHANGED <<profile, srv, ks, hs>> /\ StreamInv /\ ReaderShapes /\ rd \in Readings
      /\ taken \in Nat
  BY ClientFrames DEF server, SInv, ReaderShapes
<1>2. phase \in {"new", "opening", "up"}
  <2>1. phase \in Phases /\ phase \notin {"failed", "closed"}
    BY Steps DEF SInv, SessionShapes, Running
  <2>2. phase # "peer_closed"
    <3> SUFFICES ASSUME phase = "peer_closed" PROVE FALSE
      OBVIOUS
    <3>1. rd.at = "idle" /\ ~lost
      BY DEF InStep, Sound
    <3> QED BY <3>1 DEF ReaderStep, HeaderPiece, BodyPiece, ReadFails, HandshakeRead, CancelRead
  <2> QED BY <2>1, <2>2 DEF Phases
<1>3. PICK c \in 0 .. Len(srv) : At(c) /\ Stands(c)
  BY <1>2 DEF InStep
<1>4. Stands(c)' /\ c \in 0 .. Len(srv')
  BY <1>1, <1>3, StandsFrame
<1>5. Base(c)' = Base(c) /\ Base(c) \in Nat
  BY <1>1, BaseFacts DEF Base, EndOf
<1>6. At(c)' /\ phase' = phase
  <2>1. CASE \E k \in 1 .. HeaderLen : HeaderPiece(k)
    <3>1. \A r \in ToSet(srv) : ~(r.n > ReadBufLen)
      BY DEF Sound
    <3> QED BY <1>1, <1>3, <2>1, <3>1, HeaderInStep
  <2>2. CASE \E k \in 1 .. ReadBufLen : BodyPiece(k)
    BY <1>1, <1>3, <2>2, BodyInStep
  <2>3. CASE ReadFails
    BY <2>3 DEF ReadFails, Sound
  <2>4. CASE HandshakeRead
    <3>1. /\ rd.at = "idle" /\ rd' = [rd EXCEPT !.at = "header", !.have = 0, !.start = taken]
          /\ rdr' = rdr /\ taken' = taken /\ phase' = phase
      BY <2>4, Zenon DEF HandshakeRead, session
    <3>2. rd'.at = "header" /\ rd'.have = 0 /\ rd'.start = taken
      BY <1>1, <3>1 DEF Readings
    <3>3. taken = Base(c) /\ rdr.pending = 0
      BY <1>3, <3>1 DEF At
    <3>4. taken = Base(c) + 0 /\ 0 < HeaderLen
      BY <1>5, <3>3, RecordSizes
    <3> QED BY <1>5, <3>1, <3>2, <3>3, <3>4 DEF At
  <2>5. CASE CancelRead
    <3> DEFINE cut == rd.cut \/ rd.at = "body" \/ rd.have > 0
    <3>1. /\ rd.at # "idle" /\ rd' = [Finish("idle") EXCEPT !.cut = cut]
          /\ rdr' = rdr /\ taken' = taken /\ phase' = phase
      BY <2>5, Zenon DEF CancelRead, session
    <3>2. Finish("idle") \in Readings /\ Finish("idle").at = "idle"
      BY <1>1, FinishFields
    <3>3. rd'.cut = cut /\ rd'.at = "idle"
      BY <3>1, <3>2 DEF Readings
    <3>4. rd.at # "body" /\ ~(rd.have > 0)
      BY <3>3 DEF Sound
    <3>5. rd.at = "header" /\ rd.have = 0
      BY <1>1, <3>1, <3>4 DEF Readings
    <3>6. taken = Base(c) + 0 /\ rdr.pending = 0
      BY <1>3, <3>5 DEF At
    <3>7. taken = Base(c)
      BY <1>5, <3>6
    <3> QED BY <1>5, <3>1, <3>3, <3>6, <3>7 DEF At
  <2>6. CASE phase = "up" /\ ReadBuffered
    <3>1. /\ rd.at = "idle" /\ rd' = Finish("header")
          /\ rdr' = rdr /\ taken' = taken /\ phase' = phase
      BY <2>6, Zenon DEF ReadBuffered, session
    <3>2. rd'.at = "header" /\ rd'.have = 0 /\ rd'.start = taken
      BY <1>1, <3>1, FinishFields
    <3>3. taken = Base(c) /\ rdr.pending = 0
      BY <1>3, <3>1 DEF At
    <3>4. taken = Base(c) + 0 /\ 0 < HeaderLen
      BY <1>5, <3>3, RecordSizes
    <3> QED BY <1>5, <3>1, <3>2, <3>3, <3>4 DEF At
  <2> QED BY <2>1, <2>2, <2>3, <2>4, <2>5, <2>6 DEF ReaderStep
<1> QED BY <1>2, <1>4, <1>6 DEF InStep

\* A record of the handshake is the one that is next, and takes it on.
LEMMA HandshakeInStep ==
    ASSUME SInv, Next, InStep, Sound, HandshakeRecord
    PROVE  InStep'
<1>1. /\ phase = "opening" /\ RecordWhole /\ rd' = Finish("idle") /\ rdr' = consume(rdr, rd.want)
      /\ UNCHANGED <<profile, srv, taken>>
  BY Zenon DEF HandshakeRecord, server
<1>2. /\ SessionShapes /\ WriteInv /\ StreamInv /\ ReaderShapes /\ Agreeing
  BY DEF SInv, Sound
<1>3. PICK c \in 0 .. Len(srv) : At(c) /\ Stands(c)
  BY <1>1 DEF InStep
<1>4. c \in Nat
  BY <1>2, BaseFacts
<1>5. /\ c + 1 \in DOMAIN srv /\ GenuineRecord = {srv[c + 1]}
      /\ At(c + 1)' /\ c + 1 \in 0 .. Len(srv')
  BY <1>1, <1>2, <1>3, RecordInStep
<1> DEFINE r == srv[c + 1]
           a == IF hs.state = "ServerHello" THEN process_server_hello(r) ELSE process_server_verify(r)
           d == c + 1
<1>6. HandleProcessingError(a)
  <2>1. \E q \in GenuineRecord :
           HandleProcessingError(IF hs.state = "ServerHello" THEN process_server_hello(q)
                                 ELSE process_server_verify(q))
    BY Zenon DEF HandshakeRecord, handle_processing_error, handle_processing_error_blocking
  <2> QED BY <1>5, <2>1, Zenon
<1>7. hs.state \in {"ServerHello", "ServerVerify"}
  BY <1>1, <1>2 DEF RecordWhole, WriteInv, PhaseInv
<1>8. a.ok /\ StandsAfter(a, d)
  <2>1. CASE hs.state = "ServerHello"
    <3>1. process_server_hello(r).ok /\ StandsAfter(process_server_hello(r), d)
      BY <1>1, <1>2, <1>3, <1>4, <1>5, <2>1, HelloInStep
    <3> QED BY <2>1, <3>1, Zenon
  <2>2. CASE hs.state = "ServerVerify"
    <3>1. process_server_verify(r).ok /\ StandsAfter(process_server_verify(r), d)
      BY <1>1, <1>2, <1>3, <1>4, <1>5, <2>2, VerifyInStep
    <3>2. hs.state # "ServerHello"
      BY <2>2
    <3> QED BY <3>1, <3>2, Zenon
  <2> QED BY <1>7, <2>1, <2>2
<1> HIDE DEF a
<1>9. ks' = a.ks /\ hs' = a.hs /\ phase' = phase
  BY <1>6, <1>8, Zenon DEF HandleProcessingError
<1>10. /\ PlainRecords' = PlainRecords /\ SealedRecords' = SealedRecords
       /\ FlightRecords' = FlightRecords /\ ServerTranscript' = ServerTranscript
  BY <1>1, ProfileFrame
<1>11. Stands(c + 1)'
  <2> SUFFICES Stands(d)'
    OBVIOUS
  <2> HIDE DEF d
  <2>1. CASE /\ a.hs.state = "ServerVerify"
             /\ d = PlainRecords + a.ks.read.counter \/ (d = 1 /\ a.ks.read.counter = 0)
             /\ a.ks.read.counter < SealedRecords /\ Heard(a.ks.transcript, a.ks.read.counter)
    <3>1. Heard(ks.transcript, ks.read.counter)'
      BY <1>9, <1>10, <2>1 DEF Heard
    <3>2. d' = d
      BY DEF d
    <3> QED BY <1>9, <1>10, <2>1, <3>1, <3>2 DEF Stands
  <2>2. CASE a.hs.state \in {"ClientCert", "ClientFinished"} /\ d = Len(FlightRecords)
    <3>1. d' = d
      BY DEF d
    <3> QED BY <1>9, <1>10, <2>2, <3>1 DEF Stands
  <2> QED BY <1>8, <2>1, <2>2 DEF StandsAfter
<1>12. Standing'
  BY <1>5, <1>11 DEF Standing
<1> QED BY <1>1, <1>9, <1>12 DEF InStep, Standing

\* A record after the handshake is the one that is next, opens under the read
\* key and is handled.
LEMMA RecordsInStep ==
    ASSUME SInv, Next, InStep, Sound, ApplicationRecord
    PROVE  InStep'
<1>1. /\ phase = "up" /\ RecordWhole /\ rdr' = consume(rdr, rd.want)
      /\ IF dec_is_empty(dec') /\ phase' = "up" THEN rd' = Finish("header") ELSE rd' = Finish("idle")
      /\ UNCHANGED <<profile, srv, taken, hs>>
  BY RecordSteps, ClientFrames DEF server
<1>2. /\ SessionShapes /\ WriteInv /\ StreamInv /\ ReaderShapes /\ Running
  BY Steps DEF SInv
<1>3. PICK c \in 0 .. Len(srv) : At(c) /\ Stands(c)
  BY <1>1 DEF InStep
<1> DEFINE n == Len(FlightRecords)
           rc == ks.read.counter
           r == srv[c + 1]
<1>4. c \in Nat
  BY <1>2, BaseFacts
<1>5. /\ c + 1 \in DOMAIN srv /\ GenuineRecord = {r}
      /\ At(c + 1)' /\ c + 1 \in 0 .. Len(srv')
  BY <1>1, <1>2, <1>3, RecordInStep
<1>6. /\ hs.state = "ApplicationData" /\ ks = AppKeys(ks.transcript, Len(out) - FinishedIndex, rc)
      /\ rc \in Nat /\ n \in Nat
  BY <1>1, <1>2, ApplicationState, FlightRecordShapes DEF ApplicationStage
<1>7. c = n + rc
  BY <1>3, <1>6 DEF Stands, Current
<1>8. ks.read.key = ServerAppKey
  <2> DEFINE t == ks.transcript
             w == Len(out) - FinishedIndex
  <2>1. ks = AppKeys(t, w, rc)
    BY <1>6
  <2> HIDE DEF t, w, rc
  <2> QED BY <2>1, StageFields
<1>9. r.outer = "ApplicationData" /\ LaterShape(r) /\ r.nonce = <<ServerAppKey, rc>>
  <2> DEFINE i == c + 1
  <2>1. i \in DOMAIN srv /\ i > n /\ i - n - 1 = rc
    <3> HIDE DEF rc, n
    <3> QED BY <1>4, <1>5, <1>6, <1>7
  <2>2. \A j \in DOMAIN srv : j > Len(FlightRecords) =>
           /\ srv[j].outer = "ApplicationData" /\ LaterShape(srv[j])
           /\ srv[j].nonce = <<ServerAppKey, j - Len(FlightRecords) - 1>>
    BY <1>2, Zenon DEF StreamInv, Ordered
  <2> HIDE DEF i, rc
  <2>3. /\ srv[i].outer = "ApplicationData" /\ LaterShape(srv[i])
        /\ srv[i].nonce = <<ServerAppKey, rc>>
    BY <2>1, <2>2
  <2> QED BY <2>3 DEF i
<1>10. Decrypts(r)
  BY <1>8, <1>9, Zenon DEF Decrypts, get_nonce
<1>11. r.msgs # <<"KeyUpdate">> /\ r.msgs # <<"InternalError">>
  <2>1. r \in ToSet(srv)
    BY <1>5 DEF ToSet
  <2> QED BY <2>1 DEF Sound
<1>12. ~Refused(r)
  <2>1. CASE r.inner = "ApplicationData"
    BY <1>10, <2>1 DEF Refused
  <2>2. CASE r.inner = "Handshake"
    <3>1. r.msgs = <<"NewSessionTicket">>
      BY <1>9, <1>11, <2>2 DEF LaterShape
    <3>2. r.msgs[1] = "NewSessionTicket"
      BY <3>1
    <3> QED BY <1>10, <2>2, <3>2 DEF Refused, handshake_parses
  <2>3. CASE r.inner = "Alert"
    <3>1. r.msgs = <<"CloseNotify">>
      BY <1>9, <1>11, <2>3 DEF LaterShape
    <3> QED BY <1>10, <2>3, <3>1 DEF Refused
  <2> QED BY <1>9, <2>1, <2>2, <2>3 DEF LaterShape
<1>13. HandleRecord(r)
  BY <1>5, Zenon DEF ApplicationRecord
<1>14. /\ Received(ks).read.counter = rc + 1
       /\ \A m : Received(Hashed(ks, m)).read.counter = rc + 1
  BY <1>1, <1>2, ReadCounters
<1>15. \/ phase' = phase /\ ks'.read.counter = rc + 1
       \/ phase' = "peer_closed"
  BY <1>12, <1>13, <1>14, Zenon DEF HandleRecord, Ends
<1>16. CASE phase' = phase /\ ks'.read.counter = rc + 1
  <2>1. FlightRecords' = FlightRecords
    BY <1>1, ProfileFrame
  <2>2. Current' = c + 1
    <3>1. Current' = n + (rc + 1)
      BY <1>16, <2>1 DEF Current
    <3> HIDE DEF n, rc
    <3> QED BY <1>6, <1>7, <3>1
  <2>3. Stands(c + 1)'
    BY <1>1, <1>6, <2>2 DEF Stands
  <2>4. Standing'
    BY <1>5, <2>3 DEF Standing
  <2> QED BY <1>1, <1>16, <2>4 DEF InStep, Standing
<1>17. CASE phase' = "peer_closed"
  <2>1. rd' = Finish("idle")
    BY <1>1, <1>17
  <2>2. rd'.at = "idle"
    BY <1>2, <2>1, FinishFields
  <2> QED BY <1>17, <2>2 DEF InStep
<1> QED BY <1>15, <1>16, <1>17

\* Writing and closing only fail with the transport.
LEMMA WritesInStep ==
    ASSUME SInv, Next, InStep, Sound, WriterStep \/ CloseConnection
    PROVE  InStep'
<1>1. ~lost /\ SessionShapes /\ WriteInv /\ Running /\ UNCHANGED <<profile, rd, rdr, taken, hs>>
  BY Steps, ClientFrames DEF Sound, SInv, reading
<1>2. CASE CloseConnection
  <2>1. phase' = "closed"
    BY <1>1, <1>2, Zenon DEF CloseConnection
  <2> QED BY <2>1 DEF InStep
<1>3. CASE WriterStep
  <2>1. phase \in {"up", "peer_closed"}
    BY <1>3 DEF WriterStep
  <2>2. phase' = phase /\ (ks' = ks \/ ks' = Sent(ks))
    <3>1. ASSUME NEW w, FlushRecord(w) PROVE phase' = phase /\ (ks' = ks \/ ks' = Sent(ks))
      BY <1>1, <3>1, Zenon DEF FlushRecord
    <3>2. CASE Flush
      BY <3>1, <3>2, Zenon DEF Flush
    <3>3. CASE WriteBytes
      BY <3>1, <3>3, Zenon DEF WriteBytes
    <3> QED BY <1>3, <3>2, <3>3 DEF WriterStep
  <2>3. ks'.read.counter = ks.read.counter
    BY <1>1, <2>1, <2>2, ReadCounters
  <2>4. hs.state = "ApplicationData"
    BY <1>1, <2>1, ApplicationState
  <2>5. CASE phase = "up"
    <3>1. PICK c \in 0 .. Len(srv) : At(c) /\ Stands(c)
      BY <2>5 DEF InStep
    <3>2. Stands(c)'
      BY <1>1, <2>3, <2>4, <3>1, StandsFrame
    <3>3. Standing'
      BY <1>1, <3>1, <3>2, ReaderStays
    <3> QED BY <2>5, <2>2, <3>3 DEF InStep, Standing
  <2>6. CASE phase = "peer_closed"
    BY <1>1, <2>2, <2>6 DEF InStep
  <2> QED BY <2>1, <2>5, <2>6
<1> QED BY <1>2, <1>3

\* Every step keeps the reader in step, or gives a cause.
LEMMA SyncStep ==
    ASSUME SInv, Next, SyncInv
    PROVE  SyncInv'
<1>1. CASE Excused
  BY <1>1, ExcusedStays DEF SyncInv
<1>2. CASE Excused'
  BY <1>2 DEF SyncInv
<1>3. CASE ~Excused /\ ~Excused'
  <2>1. InStep /\ Sound
    BY <1>3, SoundIsNotExcused DEF SyncInv
  <2>2. Sound'
    BY <1>3, SoundIsNotExcused, PTL
  <2>3. ServerStep => phase' = phase
    BY Zenon DEF ServerStep, ServerFlight, ServerSends, TransportLost, session
  <2>4. InStep'
    BY <2>1, <2>2, <2>3, Steps, OthersInStep, AnswersInStep, ReadsInStep, HandshakeInStep,
       RecordsInStep, WritesInStep
  <2> QED BY <2>4 DEF SyncInv
<1> QED BY <1>1, <1>2, <1>3

\* The reader is in step with the stream from the start.
LEMMA InitSync ==
    ASSUME Init
    PROVE  SyncInv
<1>1. /\ phase = "new" /\ srv = << >> /\ rd.at = "idle" /\ taken = 0 /\ rdr.pending = 0
      /\ hs.state = "ClientHello"
  BY DEF Init, Idle, RecordReader_new, Handshake_new
<1>2. At(0) /\ Stands(0)
  BY <1>1 DEF At, Base, Stands
<1>3. 0 \in 0 .. Len(srv)
  BY <1>1
<1> QED BY <1>1, <1>2, <1>3 DEF SyncInv, InStep

\* A step that changes nothing.
LEMMA SyncStutters ==
    ASSUME SyncInv, UNCHANGED vars
    PROVE  SyncInv'
<1>1. UNCHANGED <<profile, srv, lost, ks, hs, rdr, taken, rd, phase>>
  BY DEF vars, server, reading, session
<1>2. Excused => Excused'
  BY <1>1 DEF Excused
<1>3. \A c : At(c) => At(c)'
  BY <1>1 DEF At, Base, EndOf
<1>4. \A c : Stands(c) => Stands(c)'
  <2> SUFFICES ASSUME NEW c, Stands(c) PROVE Stands(c)'
    OBVIOUS
  <2> QED BY <1>1, StandsFrame
<1>5. InStep => InStep'
  BY <1>1, <1>3, <1>4 DEF InStep
<1> QED BY <1>2, <1>5 DEF SyncInv

\* A connection only fails for a reason outside the client, for every
\* configuration of the two ends, every size of the buffer and of the records
\* and every cut of the stream into pieces: the transport is lost, the two ends
\* do not agree, the server sends something the client does not take, or a read
\* was dropped in the middle of a record (connection.rs, record_reader.rs,
\* key_schedule.rs).
THEOREM FailuresHaveCause == Spec => []ErrorsHaveCause
<1>1. Init => SyncInv
  BY InitSync
<1>2. SInv /\ SyncInv /\ [Next]_vars => SyncInv'
  BY SyncStep, SyncStutters
<1>3. SyncInv => ErrorsHaveCause
  BY Zenon DEF SyncInv, InStep, Excused, ErrorsHaveCause
<1> QED BY <1>1, <1>2, <1>3, SInvInductive, PTL DEF Spec
=============================================================================
