---------------------------- MODULE TlsKeySchedule ----------------------------
(***************************************************************************)
(* The TLS 1.3 key schedule of tools/embedded-tls/src/key_schedule.rs.     *)
(*                                                                         *)
(* Hashes, HKDF and HMAC are taken to be free of collisions: the result of *)
(* each is the tuple of what went in, so two keys are equal exactly when   *)
(* they were derived from the same secrets and the same transcript.  A     *)
(* transcript is the sequence of the messages hashed so far.               *)
(***************************************************************************)
EXTENDS Naturals, Sequences

NoSecret == <<"uninitialized">>

\* What an uninitialised or zeroed input contributes.
zero == <<"zero">>

\* HKDF-Extract and HKDF-Expand-Label.
Extract(salt, ikm) == <<"extract", salt, ikm>>
Expand(prk, label, context) == <<label, prk, context>>

\* SharedState, WriteKeySchedule and ReadKeySchedule of a new connection.
KeySchedule_new ==
    [secret |-> zero, hkdf |-> NoSecret, binder |-> NoSecret,
     write |-> [key |-> NoSecret, counter |-> 0],
     read  |-> [key |-> NoSecret, counter |-> 0],
     transcript |-> << >>]

\* SharedState::initialize
shared_initialize(ks, ikm) ==
    LET prk == Extract(ks.secret, ikm)
    IN  [ks EXCEPT !.hkdf = prk, !.secret = prk]

\* SharedState::derived
shared_derived(ks) == [ks EXCEPT !.secret = Expand(ks.hkdf, "derived", << >>)]

\* Slip: the record counter carries over from the handshake keys.
calculate_traffic_secret_keeps_counter(ks, label, counter) ==
    [key |-> Expand(ks.hkdf, label, ks.transcript), counter |-> counter]

\* KeyScheduleState::calculate_traffic_secret: a new key starts at record 0.
calculate_traffic_secret(ks, label, counter) ==
    [key |-> Expand(ks.hkdf, label, ks.transcript), counter |-> 0]

calculate_traffic_secrets(ks, clientLabel, serverLabel) ==
    [ks EXCEPT
        !.write = calculate_traffic_secret(ks, clientLabel, ks.write.counter),
        !.read  = calculate_traffic_secret(ks, serverLabel, ks.read.counter)]

initialize_early_secret(ks, psk) ==
    LET s == shared_initialize(ks, psk)
    IN  shared_derived([s EXCEPT !.binder = Expand(s.hkdf, "ext binder", << >>)])

initialize_handshake_secret(ks, ikm) ==
    shared_derived(calculate_traffic_secrets(shared_initialize(ks, ikm),
                                             "c hs traffic", "s hs traffic"))

initialize_master_secret(ks) ==
    shared_derived(calculate_traffic_secrets(shared_initialize(ks, zero),
                                             "c ap traffic", "s ap traffic"))

\* The nonce is the key's IV combined with the counter, so key and counter
\* together name it; equal nonces are equal pairs.
get_nonce(state) == <<state.key, state.counter>>

increment_counter(state) == [state EXCEPT !.counter = @ + 1]

Mac(key, transcript) == <<Expand(key, "finished", << >>), transcript>>

create_client_finished(ks) == Mac(ks.write.key, ks.transcript)

\* hash is the transcript as it was before the Finished message itself.
verify_server_finished(ks, verify, hash) == verify = Mac(ks.read.key, hash)

create_psk_binder(ks, transcript) == Mac(ks.binder, transcript)
=============================================================================
