---------------------------- MODULE OtaDownload ----------------------------
(***************************************************************************)
(* One OTA attempt, download_and_write_to_flash in detail: the erase, the  *)
(* TLS workspace, the redirects, the chunk loop, the checks on what was    *)
(* received and on what was written, and the boot metadata, up to the      *)
(* reset or an error.  OtaDownloadSteps relates it to OtaCoordination.     *)
(*                                                                         *)
(* Sizes are numbers; the contents of the i-th chunk of the signed image   *)
(* is i itself.  A hash is injective, so a digest is the hashed sequence.  *)
(***************************************************************************)
EXTENDS Integers, Sequences

CONSTANTS
  ENC_CHUNK_SIZE,     \* plaintext bytes in a chunk (4096 in the code)
  FLASH_SECTOR_SIZE,  \* 4096 in the code
  SlotSize,           \* partition_size of an app slot
  PrefixMin,          \* bytes validate_esp_image_prefix needs (8 in the code)
  Downloads,          \* the verified manifests, with what is published for them
  SilentFaults        \* may a flash write report success and write garbage?

MAX_REDIRECTS == 3
OTA_V2_HEADER_SIZE == 16
CHUNK_WIRE_OVERHEAD == 36

(* size: image_size; https: the scheme of url; prefixOk: the image starts  *)
(* like an ESP image; published: does the encrypted file hold the image    *)
(* image_sha256 was computed from.                                       *)
DownloadType ==
  [size : Nat \ {0}, https : BOOLEAN, prefixOk : BOOLEAN, published : BOOLEAN]

ASSUME SizesAssumption ==
  /\ ENC_CHUNK_SIZE \in Nat \ {0} /\ FLASH_SECTOR_SIZE \in Nat \ {0}
  /\ SlotSize \in Nat /\ PrefixMin \in 1..ENC_CHUNK_SIZE
  /\ Downloads \subseteq DownloadType /\ SilentFaults \in BOOLEAN

VARIABLES
  pc,
  dl,          \* the manifest
  https,       \* the scheme of current_url
  redirects,
  tls,         \* owner of the TLS workspace
  erased,      \* bytes of the slot erased from its start
  flash,       \* chunk index -> contents of the slot there
  index, flash_offset, sha,  \* chunk_index, flash_offset, sha_hasher
  consumed,    \* bytes of the body read
  selected, targetState      \* boot metadata: selected slot, the target's state

vars == <<pc, dl, https, redirects, tls, erased, flash, index, flash_offset, sha,
          consumed, selected, targetState>>
hopVars    == <<https, redirects, tls>>
streamVars == <<index, flash_offset, sha, consumed>>
slotVars   == <<erased, flash>>
bootVars   == <<selected, targetState>>

Ended == {"failed", "rebooted"}
\* What the slot holds where no chunk of an image is.
Old == -1
Blank == -2
Garbage == -3
----------------------------------------------------------------------------
(* Arithmetic of the stream and of the slot.                               *)

div_ceil(a, b) == (a + b - 1) \div b

num_chunks(d) == div_ceil(d.size, ENC_CHUNK_SIZE)
Chunks(d) == 0..(num_chunks(d) - 1)

\* Slip: every chunk is expected to be full.
FullChunk(d, i) == ENC_CHUNK_SIZE
expected_len(d, i) ==
  IF i = num_chunks(d) - 1 THEN d.size - i * ENC_CHUNK_SIZE ELSE ENC_CHUNK_SIZE

\* Slip: the tags are counted, the length prefixes are not.
TagsOnly(d) == OTA_V2_HEADER_SIZE + d.size + num_chunks(d) * 32
\* What OtaManifest::validate demands of download_size.
download_size(d) ==
  OTA_V2_HEADER_SIZE + d.size + num_chunks(d) * CHUNK_WIRE_OVERHEAD

\* One sector at the tail of the slot is kept free.
max_writable ==
  IF SlotSize > FLASH_SECTOR_SIZE THEN SlotSize - FLASH_SECTOR_SIZE ELSE 0

\* Slip: the last, partial sector is not erased.
WholeSectors(d) == (d.size \div FLASH_SECTOR_SIZE) * FLASH_SECTOR_SIZE
aligned(d) == div_ceil(d.size, FLASH_SECTOR_SIZE) * FLASH_SECTOR_SIZE

\* The digest of the signed image, and of what the published file decrypts to.
image_sha256(d) == [i \in 1..num_chunks(d) |-> i - 1]
Plaintext(d, i) == IF d.published THEN i ELSE Garbage
----------------------------------------------------------------------------
\* Slip: an error path forgets the guard.
FailHoldingTls == pc' = "failed" /\ UNCHANGED hopVars
\* Every error return: the guards on the stack are dropped.
Fail ==
  /\ pc' = "failed" /\ tls' = IF tls = "ota" THEN "none" ELSE tls
  /\ UNCHANGED <<https, redirects>>

\* mqtt_task, in the back-off of a failed set-up, gives the workspace back.
MqttReleasesTls ==
  /\ pc \notin Ended /\ tls = "mqtt"
  /\ tls' = "none"
  /\ UNCHANGED <<pc, dl, https, redirects, slotVars, streamVars, bootVars>>

\* Nonce prefix, canonical JSON, partition table or slot lookup.
SetupFails ==
  /\ pc = "netWait" /\ Fail
  /\ UNCHANGED <<dl, slotVars, streamVars, bootVars>>

TooLargeForSlot ==
  /\ pc = "netWait" /\ dl.size > max_writable /\ Fail
  /\ UNCHANGED <<dl, slotVars, streamVars, bootVars>>

\* prepare_inactive_slot, once the network is up.
Prepare ==
  /\ pc = "netWait" /\ dl.size <= max_writable
  /\ erased' = aligned(dl)
  /\ flash' = [i \in DOMAIN flash |->
                 IF i * ENC_CHUNK_SIZE < aligned(dl) THEN Blank ELSE flash[i]]
  /\ pc' = IF https THEN "tlsWait" ELSE "request"
  /\ UNCHANGED <<dl, hopVars, streamVars, bootVars>>

EraseFails ==
  /\ pc = "netWait" /\ dl.size <= max_writable
  /\ flash' = [i \in DOMAIN flash |-> Garbage]
  /\ Fail
  /\ UNCHANGED <<dl, erased, streamVars, bootVars>>

AcquireTls ==
  /\ pc = "tlsWait" /\ tls = "none"
  /\ tls' = "ota" /\ pc' = "request"
  /\ UNCHANGED <<dl, https, redirects, slotVars, streamVars, bootVars>>

\* TLS_WORKSPACE_WAIT_ATTEMPTS polls in vain.
TlsTimeout ==
  /\ pc = "tlsWait" /\ tls = "mqtt" /\ Fail
  /\ UNCHANGED <<dl, slotVars, streamVars, bootVars>>

\* Connect, send, a redirect without a usable Location, a status other than
\* 200, a wrong or missing Content-Length, chunked encoding.
RequestFails ==
  /\ pc = "request" /\ Fail
  /\ UNCHANGED <<dl, slotVars, streamVars, bootVars>>

\* Slip: the policy for the first URL, which admits local http.
AnyAllowedUrl(to) == to \in {"https", "localHttp"}
\* starts_with("https://") and validate_ota_url_policy.
RedirectAllowed(to) == to = "https"

RedirectRejected(to) ==
  /\ pc = "request" /\ (redirects >= MAX_REDIRECTS \/ ~RedirectAllowed(to))
  /\ Fail
  /\ UNCHANGED <<dl, slotVars, streamVars, bootVars>>

\* The hop's guard is dropped and, with no await in between, taken again.
Redirect(to) ==
  /\ pc = "request" /\ redirects < MAX_REDIRECTS /\ RedirectAllowed(to)
  /\ redirects' = redirects + 1
  /\ https' = (to = "https")
  /\ pc' = IF tls = "ota" THEN "request" ELSE "tlsWait"
  /\ UNCHANGED <<dl, tls, slotVars, streamVars, bootVars>>

Respond ==
  /\ pc = "request"
  /\ pc' = "header"
  /\ UNCHANGED <<dl, hopVars, slotVars, streamVars, bootVars>>

ReadHeader ==
  /\ pc = "header"
  /\ consumed' = OTA_V2_HEADER_SIZE
  /\ pc' = "chunk"
  /\ UNCHANGED <<dl, hopVars, slotVars, index, flash_offset, sha, bootVars>>

\* Slip: reads wait for ever.
NeverTimesOut == FALSE
\* read_exact times out, ends early or fails; or the header is not ours.
ReadFails ==
  /\ pc \in {"header", "chunk"} /\ Fail
  /\ UNCHANGED <<dl, slotVars, streamVars, bootVars>>

(* A chunk as the server sends it: its length prefix, and the manifest and *)
(* the chunk index its tag was made for.                                   *)
WireChunks(d) ==
  [len : {expected_len(d, i) : i \in Chunks(d)} \cup {ENC_CHUNK_SIZE + 1},
   ours : BOOLEAN, idx : Chunks(d)]

\* The length check, then verify_chunk_hmac; the tag covers manifest, index,
\* offset, length and ciphertext.
Accepted(c) == c.len = expected_len(dl, index) /\ c.ours /\ c.idx = index

\* validate_esp_image_prefix, on the first chunk if it is long enough.
PrefixAccepted(c) == index > 0 \/ c.len < PrefixMin \/ dl.prefixOk

ChunkRejected(c) ==
  /\ pc = "chunk" /\ ~(Accepted(c) /\ PrefixAccepted(c))
  /\ Fail
  /\ UNCHANGED <<dl, slotVars, streamVars, bootVars>>

ChunkWriteFails(c) ==
  /\ pc = "chunk" /\ Accepted(c) /\ PrefixAccepted(c)
  /\ flash' = [flash EXCEPT ![index] = Garbage]
  /\ Fail
  /\ UNCHANGED <<dl, erased, streamVars, bootVars>>

ChunkWritten(c) ==
  /\ pc = "chunk" /\ Accepted(c) /\ PrefixAccepted(c)
  /\ \/ flash' = [flash EXCEPT ![index] = Plaintext(dl, index)]
     \/ SilentFaults /\ flash' = [flash EXCEPT ![index] = Garbage]
  /\ sha' = Append(sha, Plaintext(dl, index))
  /\ flash_offset' = flash_offset + c.len
  /\ consumed' = consumed + CHUNK_WIRE_OVERHEAD + c.len
  /\ index' = index + 1
  /\ pc' = IF index' = num_chunks(dl) THEN "verify" ELSE "chunk"
  /\ UNCHANGED <<dl, hopVars, erased, bootVars>>

\* Slip: only the size is compared.
SizeMatches == flash_offset = dl.size
\* post_verify: total_plaintext is incremented together with flash_offset.
post_verify == flash_offset = dl.size /\ sha = image_sha256(dl)

\* The first FLASH_READBACK_LEN bytes, which is one chunk.
verify_flash_readback == flash[0] = sha[1]

\* From here to the end there is no await; the workspace guard, dropped when
\* the stream ended, is given back in the model with the error or the reset.
VerifyFails ==
  /\ pc = "verify" /\ Fail
  /\ UNCHANGED <<dl, slotVars, streamVars, bootVars>>

Verify ==
  /\ pc = "verify" /\ post_verify /\ verify_flash_readback
  /\ pc' = "activate"
  /\ UNCHANGED <<dl, hopVars, slotVars, streamVars, bootVars>>

\* activate_next_partition; the state in the entry it writes, the old one or
\* none, shows when mark_current_app_new does not replace it.
Activate ==
  /\ pc = "activate"
  /\ selected' = "target"
  /\ pc' = "mark"
  /\ UNCHANGED <<dl, hopVars, slotVars, streamVars, targetState>>

ActivateFails ==
  /\ pc = "activate" /\ Fail
  /\ UNCHANGED <<dl, slotVars, streamVars, bootVars>>

EntryState == IF pc = "mark" THEN {targetState, "Undefined"} ELSE {targetState}

Rebooted == pc' = "rebooted" /\ tls' = "none" /\ UNCHANGED <<https, redirects>>

\* mark_current_app_new, then ota_task's software_reset.
MarkNew ==
  /\ pc = "mark"
  /\ targetState' = "New" /\ Rebooted
  /\ UNCHANGED <<dl, slotVars, streamVars, selected>>

MarkNewFails ==
  /\ pc = "mark" /\ Fail
  /\ targetState' \in EntryState
  /\ UNCHANGED <<dl, slotVars, streamVars, selected>>

\* Power is lost, perhaps in the middle of an erase or a write.
PowerLoss ==
  /\ pc \notin Ended /\ Rebooted
  /\ \/ UNCHANGED flash
     \/ /\ pc = "netWait" /\ dl.size <= max_writable
        /\ flash' = [i \in DOMAIN flash |-> Garbage]
     \/ pc = "chunk" /\ flash' = [flash EXCEPT ![index] = Garbage]
  /\ targetState' \in EntryState
  /\ UNCHANGED <<dl, erased, streamVars, selected>>
----------------------------------------------------------------------------
Init ==
  /\ dl \in Downloads /\ pc = "netWait"
  /\ https = dl.https /\ redirects = 0 /\ tls \in {"none", "mqtt"}
  /\ erased = 0 /\ flash = [i \in Chunks(dl) |-> Old]
  /\ index = 0 /\ flash_offset = 0 /\ sha = <<>> /\ consumed = 0
  /\ selected = "running" /\ targetState \in {"Undefined", "Valid", "Aborted"}

Next ==
  \/ SetupFails \/ TooLargeForSlot \/ Prepare \/ EraseFails
  \/ MqttReleasesTls \/ AcquireTls \/ TlsTimeout \/ RequestFails \/ Respond
  \/ \E to \in {"https", "localHttp", "refused"} : Redirect(to) \/ RedirectRejected(to)
  \/ ReadHeader \/ ReadFails
  \/ \E c \in WireChunks(dl) : ChunkRejected(c) \/ ChunkWriteFails(c) \/ ChunkWritten(c)
  \/ VerifyFails \/ Verify \/ Activate \/ ActivateFails \/ MarkNew \/ MarkNewFails
  \/ PowerLoss

Spec == Init /\ [][Next]_vars

(* The code's own timers: 25 s for the workspace, 10 s for each read.  No  *)
(* fairness for connect and response: nothing bounds them.                 *)
LiveSpec ==
  /\ Spec
  /\ WF_vars(AcquireTls \/ TlsTimeout) /\ WF_vars(ReadFails)
  /\ WF_vars(VerifyFails \/ Verify \/ Activate \/ ActivateFails
             \/ MarkNew \/ MarkNewFails)
----------------------------------------------------------------------------
(* Properties.                                                             *)

Contents == {Old, Blank, Garbage} \cup Nat

\* Every variable keeps its type: no more redirects, chunks or bytes than the
\* manifest allows, and the offset stays within the image.
TypeOK ==
  /\ pc \in {"netWait", "tlsWait", "request", "header", "chunk", "verify",
             "activate", "mark"} \cup Ended
  /\ dl \in Downloads /\ https \in BOOLEAN /\ tls \in {"none", "mqtt", "ota"}
  /\ redirects \in 0..MAX_REDIRECTS /\ erased \in 0..SlotSize
  /\ flash \in [Chunks(dl) -> Contents]
  /\ index \in 0..num_chunks(dl) /\ Len(sha) = index
  /\ flash_offset \in 0..dl.size /\ consumed \in 0..download_size(dl)
  /\ selected \in {"running", "target"}
  /\ targetState \in {"New", "Valid", "Aborted", "Undefined"}

\* The boot metadata never selects a slot that does not hold the signed image,
\* whatever the server sends, the flash reports and the power does; a silent
\* write fault is caught in the part that is read back, the first chunk.
SelectedSlotHoldsImage ==
  selected = "target" =>
    \A i \in Chunks(dl) : flash[i] = i \/ (SilentFaults /\ i > 0)

\* Chunks are written only to erased flash, back to back, and the slot's last
\* sector is never touched, for a last chunk and a last sector of any size.
WritesFitErased ==
  pc \in {"request", "header", "chunk", "verify", "activate", "mark"} =>
    /\ flash_offset = (IF index = num_chunks(dl) THEN dl.size
                       ELSE index * ENC_CHUNK_SIZE)
    /\ dl.size <= erased /\ erased <= SlotSize
    /\ dl.size + FLASH_SECTOR_SIZE <= SlotSize
    /\ \A i \in Chunks(dl) : i >= index => flash[i] = Blank

\* An image that passes verification used up exactly the download_size bytes
\* the manifest's validation demanded and the response announced.
BodyIsDownloadSize ==
  pc \in {"activate", "mark"} => consumed = download_size(dl)

\* Once redirected, the attempt stays on https and under the workspace guard,
\* and the guard is gone when the attempt is over.
RedirectedIsGuarded ==
  /\ redirects > 0 => https
  /\ pc \in {"request", "header", "chunk"} => (tls = "ota" <=> https)
  /\ pc \in Ended => tls # "ota"

\* Once the server has answered, the attempt ends by the code's own timeouts.
AnsweredAttemptEnds == pc = "header" ~> pc \in Ended
============================================================================
