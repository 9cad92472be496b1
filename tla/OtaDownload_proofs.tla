------------------------- MODULE OtaDownload_proofs -------------------------
(***************************************************************************)
(* What an OTA attempt installs, for every chunk size, image size and      *)
(* behaviour of server, flash and power.                                   *)
(***************************************************************************)
EXTENDS OtaDownloadSteps, TLAPS

\* What was written follows what was hashed, chunk by chunk, up to the faults
\* a write may hide; the read-back is about chunk 0.
StreamInv ==
  /\ dl \in Downloads
  /\ index \in Nat /\ sha \in Seq(Int) /\ Len(sha) = index
  /\ flash \in [Chunks(dl) -> Int]
  /\ \A i \in Chunks(dl) : i < index => flash[i] = sha[i + 1] \/ SilentFaults
  /\ pc = "netWait" => index = 0

\* What is known of the stream at each stage after it.
StageInv ==
  /\ pc \in {"activate", "mark"} =>
       post_verify /\ verify_flash_readback
  /\ selected = "target" =>
       /\ pc \in {"mark"} \cup Ended
       /\ post_verify /\ verify_flash_readback

DownloadInv == StreamInv /\ StageInv

\* Chunk indices and contents are integers.
LEMMA ChunkFacts ==
  ASSUME NEW d \in Downloads
  PROVE  /\ num_chunks(d) \in Int
         /\ Chunks(d) = 0..(num_chunks(d) - 1)
         /\ \A i \in Chunks(d) : i \in Nat /\ Plaintext(d, i) \in Int
<1>1. d.size \in Nat /\ ENC_CHUNK_SIZE \in Nat /\ ENC_CHUNK_SIZE > 0
  BY SizesAssumption DEF DownloadType
<1>2. num_chunks(d) \in Int
  BY <1>1 DEF num_chunks, div_ceil
<1>. QED
  BY <1>2 DEF Chunks, Plaintext, Garbage

\* What the stages established is the property.
LEMMA InvImpliesHolds == DownloadInv => SelectedSlotHoldsImage
<1>. SUFFICES ASSUME DownloadInv, selected = "target", NEW i \in Chunks(dl)
              PROVE  flash[i] = i \/ (SilentFaults /\ i > 0)
  BY DEF SelectedSlotHoldsImage
<1>1. /\ sha = image_sha256(dl) /\ flash[0] = sha[1] /\ dl \in Downloads
  BY DEF DownloadInv, StreamInv, StageInv, post_verify, verify_flash_readback
<1>2. i \in Nat /\ num_chunks(dl) \in Int /\ i + 1 \in 1..num_chunks(dl)
  BY <1>1, ChunkFacts
<1>3. sha[i + 1] = i /\ sha[1] = 0
  BY <1>1, <1>2 DEF image_sha256
<1>4. index = num_chunks(dl)
  <2>1. Len(image_sha256(dl)) = num_chunks(dl)
    BY <1>2 DEF image_sha256
  <2>. QED
    BY <1>1, <2>1 DEF DownloadInv, StreamInv
<1>5. flash[i] = sha[i + 1] \/ SilentFaults
  BY <1>2, <1>4, ChunkFacts DEF DownloadInv, StreamInv
<1>6. CASE i = 0
  BY <1>1, <1>3, <1>6
<1>7. CASE i > 0
  BY <1>3, <1>5, <1>7
<1>. QED
  BY <1>2, <1>6, <1>7

\* An accepted chunk extends the hash and the flash by the same plaintext.
LEMMA WrittenKeepsInv ==
  ASSUME DownloadInv, NEW c \in WireChunks(dl), ChunkWritten(c)
  PROVE  DownloadInv'
<1>. USE DEF DownloadInv, StreamInv, StageInv
<1>1. index \in Chunks(dl) /\ index \in Nat /\ dl' = dl
  <2>1. c.idx \in Chunks(dl) /\ c.idx = index
    BY DEF WireChunks, ChunkWritten, Accepted
  <2>. QED
    BY <2>1 DEF ChunkWritten
<1>2. Plaintext(dl, index) \in Int /\ Garbage \in Int
  BY <1>1, ChunkFacts DEF Garbage
<1>3. /\ sha' = Append(sha, Plaintext(dl, index)) /\ index' = index + 1
      /\ sha' \in Seq(Int) /\ Len(sha') = index' /\ index' \in Nat
      /\ sha'[index + 1] = Plaintext(dl, index)
      /\ \A k \in 1..index : sha'[k] = sha[k]
  BY <1>1, <1>2 DEF ChunkWritten
<1>4. flash' \in [Chunks(dl) -> Int]
  BY <1>1, <1>2 DEF ChunkWritten
<1>5. ASSUME NEW i \in Chunks(dl), i < index'
      PROVE  flash'[i] = sha'[i + 1] \/ SilentFaults
  <2>1. i \in Nat
    BY ChunkFacts
  <2>2. CASE i = index
    BY <1>1, <1>3, <2>2 DEF ChunkWritten
  <2>3. CASE i < index
    <3>1. flash'[i] = flash[i]
      BY <1>1, <2>1, <2>3 DEF ChunkWritten
    <3>2. sha'[i + 1] = sha[i + 1]
      BY <1>1, <1>3, <2>1, <2>3
    <3>. QED
      BY <2>3, <3>1, <3>2
  <2>. QED
    BY <1>1, <1>3, <1>5, <2>1, <2>2, <2>3
<1>6. pc' \in {"verify", "chunk"} /\ selected' = selected /\ pc = "chunk"
  BY DEF ChunkWritten, bootVars
<1>7. StreamInv'
  BY <1>1, <1>3, <1>4, <1>5, <1>6
<1>8. StageInv'
  BY <1>6 DEF Ended
<1>. QED
  BY <1>7, <1>8

\* Every step keeps the invariant.
LEMMA DownloadStep ==
  ASSUME DownloadInv, [Next]_vars
  PROVE  DownloadInv'
<1>. USE DEF DownloadInv, StreamInv, StageInv, Ended, post_verify,
            verify_flash_readback, hopVars, streamVars, slotVars, bootVars
<1>0. Garbage \in Int /\ Blank \in Int
  BY DEF Garbage, Blank
<1>1. CASE SetupFails \/ TooLargeForSlot \/ TlsTimeout \/ RequestFails
           \/ ReadFails \/ VerifyFails \/ ActivateFails
  BY <1>1 DEF SetupFails, TooLargeForSlot, TlsTimeout, RequestFails, ReadFails,
              VerifyFails, ActivateFails, Fail
<1>2. CASE Prepare
  <2>1. index = 0 /\ pc = "netWait" /\ selected # "target"
    BY <1>2 DEF Prepare
  <2>2. DOMAIN flash = Chunks(dl)
    OBVIOUS
  <2>3. flash' \in [Chunks(dl) -> Int]
    BY <1>0, <1>2, <2>2 DEF Prepare
  <2>4. \A i \in Chunks(dl) : ~(i < 0)
    BY ChunkFacts
  <2>5. UNCHANGED <<dl, index, sha, selected>> /\ pc' \in {"tlsWait", "request"}
    BY <1>2 DEF Prepare
  <2>. QED
    BY <2>1, <2>3, <2>4, <2>5
<1>3. CASE EraseFails
  BY <1>0, <1>3 DEF EraseFails, Fail
<1>4. CASE MqttReleasesTls \/ AcquireTls \/ Respond \/ ReadHeader
  BY <1>4 DEF MqttReleasesTls, AcquireTls, Respond, ReadHeader
<1>5. ASSUME NEW to, Redirect(to) \/ RedirectRejected(to) PROVE DownloadInv'
  BY <1>5 DEF Redirect, RedirectRejected, Fail
<1>6. ASSUME NEW c \in WireChunks(dl), ChunkRejected(c) PROVE DownloadInv'
  BY <1>6 DEF ChunkRejected, Fail
<1>7. ASSUME NEW c \in WireChunks(dl), ChunkWriteFails(c) PROVE DownloadInv'
  <2>1. \A i \in Chunks(dl) : i < index => flash'[i] = flash[i]
    BY <1>7, ChunkFacts DEF ChunkWriteFails
  <2>2. flash' \in [Chunks(dl) -> Int]
    BY <1>0, <1>7 DEF ChunkWriteFails
  <2>. QED
    BY <1>7, <2>1, <2>2 DEF ChunkWriteFails, Fail
<1>8. ASSUME NEW c \in WireChunks(dl), ChunkWritten(c) PROVE DownloadInv'
  BY <1>8, WrittenKeepsInv
<1>9. CASE Verify \/ Activate
  BY <1>9 DEF Verify, Activate
<1>10. CASE MarkNew \/ MarkNewFails
  BY <1>10 DEF MarkNew, MarkNewFails, Rebooted, Fail
<1>11. CASE PowerLoss
  <2>1. \A i \in Chunks(dl) : i < index => flash'[i] = flash[i]
    BY <1>11, ChunkFacts DEF PowerLoss
  <2>2. flash' \in [Chunks(dl) -> Int]
    BY <1>0, <1>11 DEF PowerLoss
  <2>3. selected = "target" => flash' = flash
    BY <1>11 DEF PowerLoss
  <2>. QED
    BY <1>11, <2>1, <2>2, <2>3 DEF PowerLoss, Rebooted
<1>12. CASE UNCHANGED vars
  BY <1>12 DEF vars
<1>. QED
  BY <1>1, <1>2, <1>3, <1>4, <1>5, <1>6, <1>7, <1>8, <1>9, <1>10, <1>11, <1>12
  DEF Next

\* Whatever the server sends, the flash reports and the power does, the boot
\* metadata never selects a slot that does not hold the signed image, but for
\* silent write faults past the chunk that is read back.
THEOREM OnlySignedImageSelected == Spec => []SelectedSlotHoldsImage
<1>1. Init => DownloadInv
  <2>. SUFFICES ASSUME Init PROVE DownloadInv
    OBVIOUS
  <2>1. flash \in [Chunks(dl) -> Int]
    BY DEF Init, Old
  <2>. QED
    BY <2>1, ChunkFacts DEF Init, DownloadInv, StreamInv, StageInv
<1>2. DownloadInv /\ [Next]_vars => DownloadInv'
  BY DownloadStep
<1>. QED
  BY <1>1, <1>2, InvImpliesHolds, PTL DEF Spec
----------------------------------------------------------------------------
(* The arithmetic of the stream and of the slot.                           *)

\* Products the solver does not multiply out by itself.
LEMMA Products ==
  ASSUME NEW c \in Nat, NEW i \in Int, NEW j \in Int
  PROVE  /\ i * c \in Int /\ (i + 1) * c = i * c + c /\ (i - 1) * c = i * c - c
         /\ i <= j => i * c <= j * c
         /\ i \in Nat => i * c \in Nat
OBVIOUS

\* What \div promises, for a divisor that is not a literal.
LEMMA Division ==
  ASSUME NEW a \in Nat, NEW b \in Nat \ {0}
  PROVE  a \div b \in Nat /\ (a \div b) * b <= a /\ a < (a \div b) * b + b
OBVIOUS

\* div_ceil counts the blocks of b that a takes, the last one perhaps partial.
LEMMA DivCeil ==
  ASSUME NEW a \in Nat \ {0}, NEW b \in Nat \ {0}
  PROVE  /\ div_ceil(a, b) \in Nat \ {0}
         /\ (div_ceil(a, b) - 1) * b < a /\ a <= div_ceil(a, b) * b
         /\ div_ceil(a, b) * b < a + b
<1>. DEFINE q == div_ceil(a, b)
<1>1. a + b - 1 \in Nat
  OBVIOUS
<1>2. q \in Nat /\ q * b <= a + b - 1 /\ a + b - 1 < q * b + b
  BY <1>1, Division DEF div_ceil
<1>3. (q - 1) * b = q * b - b /\ q * b \in Int
  BY <1>2, Products
<1>4. q # 0
  BY <1>2
<1>. HIDE DEF q
<1>5. (q - 1) * b < a /\ a <= q * b /\ q * b < a + b
  BY <1>2, <1>3
<1>. QED
  BY <1>2, <1>4, <1>5 DEF q

\* The sizes that a manifest's image size gives: of the chunks, of the erased
\* part of the slot, and of the body.
LEMMA SizeFacts ==
  ASSUME NEW d \in Downloads
  PROVE  /\ d.size \in Nat \ {0} /\ num_chunks(d) \in Nat \ {0}
         /\ Chunks(d) = 0..(num_chunks(d) - 1)
         /\ (num_chunks(d) - 1) * ENC_CHUNK_SIZE < d.size
         /\ d.size <= num_chunks(d) * ENC_CHUNK_SIZE
         /\ aligned(d) \in Nat /\ d.size <= aligned(d)
         /\ aligned(d) < d.size + FLASH_SECTOR_SIZE
         /\ max_writable \in Nat
         /\ d.size <= max_writable => d.size + FLASH_SECTOR_SIZE <= SlotSize
         /\ download_size(d) \in Nat
<1>1. d.size \in Nat \ {0} /\ ENC_CHUNK_SIZE \in Nat \ {0} /\ SlotSize \in Nat
      /\ FLASH_SECTOR_SIZE \in Nat \ {0}
  BY SizesAssumption DEF DownloadType
<1>2. /\ num_chunks(d) \in Nat \ {0}
      /\ (num_chunks(d) - 1) * ENC_CHUNK_SIZE < d.size
      /\ d.size <= num_chunks(d) * ENC_CHUNK_SIZE
  BY <1>1, DivCeil DEF num_chunks
<1>3. div_ceil(d.size, FLASH_SECTOR_SIZE) \in Nat
  BY <1>1, DivCeil
<1>4. aligned(d) \in Nat
  BY <1>1, <1>3, Products DEF aligned
<1>5. d.size <= aligned(d) /\ aligned(d) < d.size + FLASH_SECTOR_SIZE
  BY <1>1, DivCeil DEF aligned
<1>6. max_writable \in Nat
      /\ (d.size <= max_writable => d.size + FLASH_SECTOR_SIZE <= SlotSize)
  BY <1>1 DEF max_writable
<1>7. download_size(d) \in Nat
  BY <1>1, <1>2 DEF download_size, OTA_V2_HEADER_SIZE, CHUNK_WIRE_OVERHEAD
<1>. QED
  BY <1>1, <1>2, <1>4, <1>5, <1>6, <1>7 DEF Chunks

\* The offset after i chunks.
Offset(i) == IF i = num_chunks(dl) THEN dl.size ELSE i * ENC_CHUNK_SIZE
\* The bytes of the body that carry the header and i chunks.
BodyOf(i) == OTA_V2_HEADER_SIZE + i * CHUNK_WIRE_OVERHEAD + Offset(i)

Streaming == {"chunk", "verify", "activate", "mark"}
Erased == {"tlsWait", "request", "header"} \cup Streaming

\* What index, offset and bytes read have to do with each other, and with the
\* stage of the attempt.
SizeInv ==
  /\ TypeOK
  /\ flash_offset = Offset(index)
  /\ pc \in {"netWait", "tlsWait", "request", "header"} => index = 0
  /\ pc = "chunk" => index < num_chunks(dl)
  /\ pc \in {"verify", "activate", "mark"} => index = num_chunks(dl)
  /\ consumed \in {0, BodyOf(index)}
  /\ pc \in Streaming => consumed = BodyOf(index)
  /\ pc \in Erased =>
       /\ dl.size <= erased /\ dl.size + FLASH_SECTOR_SIZE <= SlotSize
       /\ \A i \in Chunks(dl) : i >= index => flash[i] = Blank

\* Where chunk i lies in the image and in the body; the last chunk ends both.
LEMMA OffsetFacts ==
  ASSUME dl \in Downloads, NEW i \in 0..num_chunks(dl)
  PROVE  /\ Offset(i) \in 0..dl.size
         /\ BodyOf(i) \in 0..download_size(dl)
         /\ BodyOf(num_chunks(dl)) = download_size(dl)
         /\ Offset(0) = 0
         /\ i < num_chunks(dl) =>
              /\ Offset(i + 1) = Offset(i) + expected_len(dl, i)
              /\ BodyOf(i + 1) = BodyOf(i) + CHUNK_WIRE_OVERHEAD + expected_len(dl, i)
<1>. DEFINE n == num_chunks(dl)
            C == ENC_CHUNK_SIZE
<1>1. /\ n \in Nat \ {0} /\ C \in Nat \ {0} /\ dl.size \in Nat \ {0}
      /\ (n - 1) * C < dl.size /\ i \in Nat /\ i <= n
  BY SizeFacts, SizesAssumption
<1>2. /\ i * C \in Nat /\ (i + 1) * C = i * C + C /\ (n - 1) * C \in Nat
      /\ i <= n - 1 => i * C <= (n - 1) * C
      /\ 0 * C = 0
  BY <1>1, Products
<1>3. Offset(i) \in 0..dl.size /\ Offset(0) = 0
  BY <1>1, <1>2 DEF Offset
<1>4. BodyOf(n) = download_size(dl)
  BY <1>1 DEF BodyOf, Offset, download_size, OTA_V2_HEADER_SIZE, CHUNK_WIRE_OVERHEAD
<1>5. BodyOf(i) \in 0..download_size(dl)
  BY <1>1, <1>3 DEF BodyOf, download_size, OTA_V2_HEADER_SIZE, CHUNK_WIRE_OVERHEAD
<1>6. ASSUME i < n
      PROVE  Offset(i + 1) = Offset(i) + expected_len(dl, i)
  <2>1. CASE i = n - 1
    BY <1>1, <1>2, <2>1 DEF Offset, expected_len
  <2>2. CASE i # n - 1
    BY <1>1, <1>2, <1>6, <2>2 DEF Offset, expected_len
  <2>. QED
    BY <2>1, <2>2
<1>7. ASSUME i < n
      PROVE  BodyOf(i + 1) = BodyOf(i) + CHUNK_WIRE_OVERHEAD + expected_len(dl, i)
  <2>1. Offset(i) \in Int /\ expected_len(dl, i) \in Int
    BY <1>1, <1>2, <1>3 DEF expected_len
  <2>. QED
    BY <1>1, <1>6, <1>7, <2>1 DEF BodyOf, OTA_V2_HEADER_SIZE, CHUNK_WIRE_OVERHEAD
<1>. QED
  BY <1>3, <1>4, <1>5, <1>6, <1>7

\* A chunk fills the next blank place, and takes offset and body along.
LEMMA WrittenKeepsSizes ==
  ASSUME DownloadInv, SizeInv, NEW c \in WireChunks(dl), ChunkWritten(c)
  PROVE  SizeInv'
<1>. USE DEF SizeInv, TypeOK
<1>1. /\ index \in Chunks(dl) /\ index \in 0..num_chunks(dl) /\ index < num_chunks(dl)
      /\ c.len = expected_len(dl, index) /\ dl' = dl /\ dl \in Downloads
  BY DEF ChunkWritten, Accepted, WireChunks
<1>2. num_chunks(dl) \in Nat \ {0} /\ Chunks(dl) = 0..(num_chunks(dl) - 1)
  BY <1>1, SizeFacts
<1>3. /\ index' = index + 1 /\ index' \in 0..num_chunks(dl)
      /\ flash_offset' = Offset(index + 1) /\ consumed' = BodyOf(index + 1)
  <2>1. consumed = BodyOf(index)
    BY DEF ChunkWritten, Streaming
  <2>. QED
    BY <1>1, <1>2, <2>1, OffsetFacts DEF ChunkWritten
<1>4. \A i : Offset(i)' = Offset(i') /\ BodyOf(i)' = BodyOf(i')
  BY <1>1 DEF Offset, BodyOf, num_chunks
<1>5. flash_offset' = Offset(index)' /\ consumed' = BodyOf(index)'
  BY <1>1, <1>3 DEF Offset, BodyOf
<1>6. Offset(index + 1) \in 0..dl.size /\ BodyOf(index + 1) \in 0..download_size(dl)
  BY <1>1, <1>3, OffsetFacts
<1>7. Plaintext(dl, index) \in Contents /\ Garbage \in Contents
  BY <1>1, <1>2 DEF Plaintext, Contents
<1>8. flash' \in [Chunks(dl) -> Contents]
  BY <1>1, <1>7 DEF ChunkWritten
<1>9. Len(sha') = index'
  BY <1>1 DEF ChunkWritten, DownloadInv, StreamInv
<1>10. /\ pc' = IF index' = num_chunks(dl) THEN "verify" ELSE "chunk"
       /\ UNCHANGED <<dl, https, redirects, tls, erased, selected, targetState>>
       /\ pc = "chunk"
  BY DEF ChunkWritten, hopVars, bootVars
<1>11. TypeOK'
  BY <1>3, <1>6, <1>8, <1>9, <1>10
<1>12. \A i \in Chunks(dl) : i >= index' => flash'[i] = Blank
  BY <1>1, <1>2, <1>3 DEF ChunkWritten, Erased, Streaming
<1>13. pc' = "chunk" => index' < num_chunks(dl)
  BY <1>2, <1>3, <1>10
<1>. QED
  BY <1>3, <1>5, <1>10, <1>11, <1>12, <1>13 DEF Erased, Streaming

\* Every step keeps sizes, offsets and places in line.
LEMMA SizeStep ==
  ASSUME DownloadInv, SizeInv, [Next]_vars
  PROVE  SizeInv'
<1>. USE DEF SizeInv, TypeOK, Ended, Erased, Streaming, hopVars, streamVars,
            slotVars, bootVars
<1>0. /\ dl \in Downloads /\ Garbage \in Contents /\ Blank \in Contents
      /\ index \in 0..num_chunks(dl)
  BY DEF Contents
<1>a. dl' = dl /\ index' = index => Offset(index)' = Offset(index) /\ BodyOf(index)' = BodyOf(index)
  BY DEF Offset, BodyOf
<1>1. CASE SetupFails \/ TooLargeForSlot \/ TlsTimeout \/ RequestFails
           \/ ReadFails \/ VerifyFails \/ ActivateFails
  BY <1>a, <1>1 DEF SetupFails, TooLargeForSlot, TlsTimeout, RequestFails, ReadFails,
              VerifyFails, ActivateFails, Fail
<1>2. CASE Prepare
  <2>1. /\ index = 0 /\ dl.size <= max_writable /\ erased' = aligned(dl)
        /\ UNCHANGED <<dl, https, redirects, tls, index, flash_offset, sha, consumed,
                       selected, targetState>>
        /\ pc' \in {"tlsWait", "request"}
    BY <1>2 DEF Prepare
  <2>2. /\ erased' \in 0..SlotSize /\ dl.size <= erased'
        /\ dl.size + FLASH_SECTOR_SIZE <= SlotSize
    BY <2>1, SizeFacts, SizesAssumption
  <2>3. \A i \in Chunks(dl) : i * ENC_CHUNK_SIZE < aligned(dl)
    <3>. TAKE i \in Chunks(dl)
    <3>1. i \in Nat /\ num_chunks(dl) \in Nat /\ i <= num_chunks(dl) - 1
      BY SizeFacts
    <3>2. i * ENC_CHUNK_SIZE <= (num_chunks(dl) - 1) * ENC_CHUNK_SIZE
          /\ i * ENC_CHUNK_SIZE \in Int /\ (num_chunks(dl) - 1) * ENC_CHUNK_SIZE \in Int
      <4>1. ENC_CHUNK_SIZE \in Nat /\ i \in Int /\ num_chunks(dl) - 1 \in Int
        BY <3>1, SizesAssumption
      <4>. HIDE DEF SizeInv, TypeOK
      <4>. QED
        BY <3>1, <4>1, Products
    <3>. QED
      BY <3>2, SizeFacts
  <2>4. flash' = [i \in Chunks(dl) |-> Blank]
    BY <1>2, <2>3 DEF Prepare
  <2>. QED
    BY <1>a, <1>0, <2>1, <2>2, <2>4
<1>3. CASE EraseFails
  BY <1>a, <1>0, <1>3 DEF EraseFails, Fail
<1>4. CASE MqttReleasesTls \/ AcquireTls \/ Respond
  BY <1>a, <1>4 DEF MqttReleasesTls, AcquireTls, Respond
<1>5. CASE ReadHeader
  <2>1. index = 0 /\ BodyOf(0) = OTA_V2_HEADER_SIZE
    BY <1>0, <1>5, OffsetFacts DEF ReadHeader, BodyOf, OTA_V2_HEADER_SIZE, CHUNK_WIRE_OVERHEAD
  <2>2. num_chunks(dl) > 0 /\ BodyOf(0) \in 0..download_size(dl)
    BY <1>0, <2>1, OffsetFacts, SizeFacts
  <2>. QED
    BY <1>a, <1>5, <2>1, <2>2 DEF ReadHeader
<1>6. ASSUME NEW to \in {"https", "localHttp", "refused"},
             Redirect(to) \/ RedirectRejected(to)
      PROVE  SizeInv'
  <2>1. CASE Redirect(to)
    <3>1. redirects' \in 0..MAX_REDIRECTS /\ https' \in BOOLEAN
      BY <2>1 DEF Redirect, MAX_REDIRECTS
    <3>. QED
      BY <1>a, <2>1, <3>1 DEF Redirect
  <2>2. CASE RedirectRejected(to)
    BY <1>a, <2>2 DEF RedirectRejected, Fail
  <2>. QED
    BY <1>6, <2>1, <2>2
<1>7. ASSUME NEW c \in WireChunks(dl), ChunkRejected(c) PROVE SizeInv'
  BY <1>a, <1>7 DEF ChunkRejected, Fail
<1>8. ASSUME NEW c \in WireChunks(dl), ChunkWriteFails(c) PROVE SizeInv'
  BY <1>a, <1>0, <1>8 DEF ChunkWriteFails, Fail
<1>9. ASSUME NEW c \in WireChunks(dl), ChunkWritten(c) PROVE SizeInv'
  BY <1>9, WrittenKeepsSizes
<1>10. CASE Verify \/ Activate
  BY <1>a, <1>10 DEF Verify, Activate
<1>11. CASE MarkNew \/ MarkNewFails
  BY <1>a, <1>11 DEF MarkNew, MarkNewFails, Rebooted, Fail, EntryState
<1>12. CASE PowerLoss
  <2>1. flash' \in [Chunks(dl) -> Contents]
    BY <1>0, <1>12 DEF PowerLoss
  <2>. QED
    BY <1>a, <1>12, <2>1 DEF PowerLoss, Rebooted, EntryState
<1>13. CASE UNCHANGED vars
  BY <1>a, <1>13 DEF vars
<1>. QED
  BY <1>1, <1>2, <1>3, <1>4, <1>5, <1>6, <1>7, <1>8, <1>9, <1>10, <1>11, <1>12,
     <1>13 DEF Next

\* At the start nothing is written, read or erased.
LEMMA InitSizes == Init => DownloadInv /\ SizeInv
<1>. SUFFICES ASSUME Init PROVE DownloadInv /\ SizeInv
  OBVIOUS
<1>1. dl \in Downloads /\ index = 0 /\ pc = "netWait"
  BY DEF Init
<1>2. flash \in [Chunks(dl) -> Int] /\ flash \in [Chunks(dl) -> Contents]
  BY DEF Init, Old, Contents
<1>3. num_chunks(dl) \in Nat \ {0} /\ download_size(dl) \in Nat /\ dl.size \in Nat
      /\ dl.https \in BOOLEAN /\ SlotSize \in Nat
  BY <1>1, SizeFacts, SizesAssumption DEF DownloadType
<1>4. Offset(0) = 0
  BY <1>1, <1>3, OffsetFacts
<1>5. DownloadInv
  BY <1>1, <1>2, ChunkFacts DEF Init, DownloadInv, StreamInv, StageInv
<1>6. TypeOK
  BY <1>1, <1>2, <1>3 DEF Init, TypeOK, MAX_REDIRECTS
<1>. QED
  BY <1>1, <1>4, <1>5, <1>6 DEF Init, SizeInv, Streaming, Erased

\* Sizes, offsets and erased flash fit together in every reachable state.
LEMMA SizesAlways == Spec => [](DownloadInv /\ SizeInv)
<1>1. Init => DownloadInv /\ SizeInv
  BY InitSizes
<1>2. DownloadInv /\ SizeInv /\ [Next]_vars => (DownloadInv /\ SizeInv)'
  BY DownloadStep, SizeStep
<1>. QED
  BY <1>1, <1>2, PTL DEF Spec

\* For all sizes: redirects, chunks, offset and bytes read stay within what the
\* manifest allows.
THEOREM DownloadTypeCorrect == Spec => []TypeOK
<1>1. SizeInv => TypeOK
  BY DEF SizeInv
<1>. QED
  BY <1>1, SizesAlways, PTL

\* For every chunk size, sector size, slot and image size, with remainders or
\* without: chunks go back to back to erased flash and the slot's last sector
\* is left alone.
THEOREM WritesStayInErasedFlash == Spec => []WritesFitErased
<1>1. SizeInv => WritesFitErased
  BY SizesAssumption DEF SizeInv, TypeOK, WritesFitErased, Erased, Streaming, Offset
<1>. QED
  BY <1>1, SizesAlways, PTL

\* An image that passes verification used up exactly the bytes the manifest
\* announced, wherever the last chunk ends.
THEOREM BodyUsedUp == Spec => []BodyIsDownloadSize
<1>1. SizeInv => BodyIsDownloadSize
  <2>. SUFFICES ASSUME SizeInv, pc \in {"activate", "mark"}
                PROVE  consumed = download_size(dl)
    BY DEF BodyIsDownloadSize
  <2>. QED
    BY OffsetFacts DEF SizeInv, TypeOK, Streaming
<1>. QED
  BY <1>1, SizesAlways, PTL

\* The guard of the TLS workspace goes with the scheme of the URL in use.
GuardInv ==
  /\ https \in BOOLEAN
  /\ pc = "tlsWait" => https /\ tls # "ota"
  /\ pc = "netWait" => redirects = 0 /\ tls # "ota"
  /\ pc \in {"verify", "activate", "mark"} => (tls = "ota" <=> https)
  /\ redirects \in Nat
  /\ RedirectedIsGuarded

\* Every step keeps the guard of the TLS workspace with the scheme in use.
LEMMA GuardStep ==
  ASSUME GuardInv, [Next]_vars
  PROVE  GuardInv'
<1>. USE DEF GuardInv, RedirectedIsGuarded, Ended
<1>1. CASE \/ SetupFails \/ TooLargeForSlot \/ EraseFails \/ TlsTimeout
           \/ RequestFails \/ ReadFails \/ VerifyFails \/ ActivateFails
           \/ MarkNew \/ MarkNewFails \/ PowerLoss
  BY <1>1 DEF SetupFails, TooLargeForSlot, EraseFails, TlsTimeout, RequestFails,
     ReadFails, VerifyFails, ActivateFails, MarkNew, MarkNewFails, PowerLoss,
     Fail, Rebooted
<1>2. CASE Prepare \/ MqttReleasesTls \/ AcquireTls \/ Respond \/ ReadHeader
  BY <1>2 DEF Prepare, MqttReleasesTls, AcquireTls, Respond, ReadHeader, hopVars
<1>3. ASSUME NEW to, Redirect(to) \/ RedirectRejected(to) PROVE GuardInv'
  <2>1. CASE Redirect(to)
    <3>1. https' = TRUE
      BY <2>1, Zenon DEF Redirect, RedirectAllowed
    <3>2. redirects' \in Nat /\ UNCHANGED tls
          /\ pc' = IF tls = "ota" THEN "request" ELSE "tlsWait"
      BY <2>1 DEF Redirect
    <3>. QED
      BY <3>1, <3>2
  <2>2. CASE RedirectRejected(to)
    BY <2>2 DEF RedirectRejected, Fail
  <2>. QED
    BY <1>3, <2>1, <2>2
<1>4. ASSUME NEW c, ChunkRejected(c) \/ ChunkWriteFails(c) \/ ChunkWritten(c)
      PROVE  GuardInv'
  BY <1>4 DEF ChunkRejected, ChunkWriteFails, ChunkWritten, Fail, hopVars
<1>5. CASE Verify \/ Activate
  BY <1>5 DEF Verify, Activate, hopVars
<1>6. CASE UNCHANGED vars
  BY <1>6 DEF vars, hopVars
<1>. QED
  BY <1>1, <1>2, <1>3, <1>4, <1>5, <1>6 DEF Next

\* However often it is redirected, the attempt stays on https under the guard,
\* and gives the guard back when it ends, on every error path.
THEOREM GuardFollowsScheme == Spec => []RedirectedIsGuarded
<1>. USE DEF GuardInv, RedirectedIsGuarded, Ended
<1>1. Init => GuardInv
  BY SizesAssumption DEF Init, DownloadType
<1>2. GuardInv /\ [Next]_vars => GuardInv'
  BY GuardStep
<1>3. GuardInv => RedirectedIsGuarded
  OBVIOUS
<1>. QED
  BY <1>1, <1>2, <1>3, PTL DEF Spec
----------------------------------------------------------------------------
(* The attempt as ota_task's part of OtaCoordination.                      *)

\* What the refinement mapping looks at, by stage: the slot is as it was until
\* the erase, and the updated slot is selected just before it is marked.
MapInv ==
  /\ pc = "netWait" => https = dl.https /\ \A i \in Chunks(dl) : flash[i] = Old
  /\ pc \in Erased => flash[0] # Old
  /\ pc = "mark" => selected = "target"
  /\ pc \notin {"mark"} \cup Ended => selected = "running"

AttemptInv == DownloadInv /\ SizeInv /\ GuardInv /\ MapInv

\* Every step keeps what the mapping to OtaCoordination reads.
LEMMA MapStep ==
  ASSUME AttemptInv, [Next]_vars
  PROVE  MapInv'
<1>. USE DEF MapInv, Ended, Erased, Streaming, hopVars, streamVars, slotVars, bootVars
<1>0. dl \in Downloads /\ 0 \in Chunks(dl) /\ DOMAIN flash = Chunks(dl)
  BY SizeFacts DEF AttemptInv, SizeInv, TypeOK
<1>. USE DEF AttemptInv
<1>1. CASE \/ SetupFails \/ TooLargeForSlot \/ EraseFails \/ TlsTimeout
           \/ RequestFails \/ ReadFails \/ VerifyFails \/ ActivateFails
           \/ MarkNew \/ MarkNewFails \/ PowerLoss
  BY <1>1 DEF SetupFails, TooLargeForSlot, EraseFails, TlsTimeout, RequestFails,
     ReadFails, VerifyFails, ActivateFails, MarkNew, MarkNewFails, PowerLoss,
     Fail, Rebooted
<1>2. CASE Prepare
  <2>1. flash'[0] # Old
    BY <1>0, <1>2, SizeFacts, SizesAssumption DEF Prepare, Blank, Old
  <2>. QED
    BY <1>2, <2>1 DEF Prepare
<1>3. CASE MqttReleasesTls \/ AcquireTls \/ Respond \/ ReadHeader
  BY <1>3 DEF MqttReleasesTls, AcquireTls, Respond, ReadHeader
<1>4. ASSUME NEW to, Redirect(to) \/ RedirectRejected(to) PROVE MapInv'
  BY <1>4 DEF Redirect, RedirectRejected, Fail
<1>5. ASSUME NEW c \in WireChunks(dl),
             ChunkRejected(c) \/ ChunkWriteFails(c) \/ ChunkWritten(c)
      PROVE  MapInv'
  <2>1. CASE ChunkRejected(c) \/ ChunkWriteFails(c)
    BY <2>1 DEF ChunkRejected, ChunkWriteFails, Fail
  <2>2. CASE ChunkWritten(c)
    <3>1. Plaintext(dl, 0) # Old /\ Garbage # Old
      BY DEF Plaintext, Garbage, Old
    <3>2. flash'[0] \in {flash[0], Plaintext(dl, 0), Garbage}
      BY <1>0, <2>2 DEF ChunkWritten
    <3>. QED
      BY <2>2, <3>1, <3>2 DEF ChunkWritten
  <2>. QED
    BY <1>5, <2>1, <2>2
<1>6. CASE Verify \/ Activate
  BY <1>6 DEF Verify, Activate
<1>7. CASE UNCHANGED vars
  BY <1>7 DEF vars
<1>. QED
  BY <1>1, <1>2, <1>3, <1>4, <1>5, <1>6, <1>7 DEF Next

\* The four invariants hold together in every state of an attempt.
LEMMA AttemptAlways == Spec => []AttemptInv
<1>1. Init => AttemptInv
  <2>. SUFFICES ASSUME Init PROVE AttemptInv
    OBVIOUS
  <2>1. GuardInv
    BY SizesAssumption DEF Init, DownloadType, GuardInv, RedirectedIsGuarded, Ended
  <2>2. MapInv
    BY DEF Init, MapInv, Erased, Streaming, Ended
  <2>. QED
    BY <2>1, <2>2, InitSizes DEF AttemptInv
<1>2. AttemptInv /\ [Next]_vars => AttemptInv'
  BY DownloadStep, SizeStep, GuardStep, MapStep DEF AttemptInv
<1>. QED
  BY <1>1, <1>2, PTL DEF Spec

\* OtaCoordination's inactive slot is the one that is updated.
LEMMA TargetIsInactive == OC!InactiveSlot = "target"
BY DEF OC!InactiveSlot, OC!OtherSlot

\* What the stages say of the slot that is updated.
TargetKnown ==
  /\ pc = "netWait" => TargetImage = "Whole"
  /\ pc \in Erased => TargetImage = "Broken"
  /\ pc \in {"activate", "mark"} => Verified
  /\ pc \in {"netWait", "tlsWait", "request", "header", "chunk"} => ~Verified
  /\ TargetImage \in {"Whole", "Broken"}

\* The invariants tell what the updated slot counts as at each stage.
LEMMA TargetFacts == AttemptInv => TargetKnown
<1>. SUFFICES ASSUME AttemptInv PROVE TargetKnown
  OBVIOUS
<1>1. dl \in Downloads /\ 0 \in Chunks(dl)
  BY SizeFacts DEF AttemptInv, SizeInv, TypeOK
<1>2. pc \in {"activate", "mark"} => Verified
  BY DEF AttemptInv, SizeInv, DownloadInv, StageInv, Verified
<1>3. pc \in {"netWait", "tlsWait", "request", "header", "chunk"} => ~Verified
  BY <1>1, SizeFacts DEF AttemptInv, SizeInv, TypeOK, Verified
<1>. QED
  BY <1>1, <1>2, <1>3 DEF AttemptInv, MapInv, TargetImage, Erased, Streaming, TargetKnown

\* An error return is a step that gives the attempt up, whatever the slot and
\* the boot metadata look like then.
LEMMA FailAbandons ==
  ASSUME Unfinished, Fail, UNCHANGED dl
  PROVE  OC!OtaAbandoned
<1>1. pc \notin Ended /\ pc' = "failed" /\ ~Unfinished' /\ (tls' = "mqtt" <=> tls = "mqtt")
  BY DEF Fail, Unfinished, Ended
<1>. QED
  BY <1>1 DEF Fail, OC!OtaAbandoned, OC!SendOtaState, OC!TlsReleasedBy,
     OC!OtaUntouched, OC!boundVars, OC!confirmVars, OC!mqttVars

\* Short of the reboot, a step of the attempt is one of ota_task's, MQTT's
\* back-off running out, or nothing that the coordination sees.
LEMMA AttemptStep ==
  ASSUME AttemptInv, AttemptInv', Next
  PROVE  pc' = "rebooted" \/ OC!OtaNext \/ OC!MqttBackoffExpires \/ UNCHANGED OC!vars
<1>. USE DEF hopVars, streamVars, slotVars, bootVars, Unfinished, Ended
<1>t. TargetKnown /\ TargetKnown'
  <2>1. TargetKnown'
    BY TargetFacts, PTL
  <2>. QED
    BY <2>1, TargetFacts
<1>. HIDE DEF Unfinished
<1>1. CASE SetupFails \/ TooLargeForSlot \/ EraseFails
  <2>1. Unfinished /\ Fail /\ UNCHANGED <<dl, selected, targetState>> /\ pc = "netWait"
    BY <1>1 DEF SetupFails, TooLargeForSlot, EraseFails, Unfinished
  <2>2. OC!OtaAbandoned
    BY <2>1, FailAbandons
  <2>3. OC!OtaPrepareFails
    BY <1>t, <2>1, <2>2, TargetIsInactive DEF OC!OtaPrepareFails, TargetKnown, Fail
  <2>. QED
    BY <2>3 DEF OC!OtaNext
<1>2. CASE TlsTimeout
  <2>1. /\ Unfinished /\ Fail /\ UNCHANGED <<dl, flash, index, flash_offset, sha,
                                            selected, targetState>>
        /\ pc = "tlsWait" /\ tls = "mqtt"
    BY <1>2 DEF TlsTimeout, Unfinished
  <2>2. OC!OtaAbandoned
    BY <2>1, FailAbandons
  <2>3. Verified' <=> Verified
    BY <2>1 DEF Verified, post_verify, verify_flash_readback
  <2>4. UNCHANGED TargetImage
    BY <1>t, <2>1, <2>3 DEF TargetKnown, TargetImage, Fail
  <2>5. OC!OtaTlsTimeout
    BY <2>1, <2>2, <2>4 DEF OC!OtaTlsTimeout, OC!TLS_WORKSPACE_WAIT_SECS, Unfinished, Fail
  <2>. QED
    BY <2>5 DEF OC!OtaNext
<1>3. ASSUME /\ pc \in {"request", "header", "chunk", "verify", "activate"} /\ Fail
             /\ UNCHANGED <<dl, selected, targetState>>
      PROVE  OC!OtaNext
  <2>1. Unfinished
    BY <1>3 DEF Unfinished
  <2>2. OC!OtaAbandoned
    BY <1>3, <2>1, FailAbandons
  <2>3. TargetImage = "Broken" /\ pc' = "failed"
    BY <1>t, <1>3 DEF TargetKnown, Erased, Streaming, Fail
  <2>4. CASE TargetImage' = "Broken"
    <3>1. OC!OtaFetchFails
      BY <1>3, <2>1, <2>2, <2>3, <2>4 DEF OC!OtaFetchFails
    <3>. QED
      BY <3>1 DEF OC!OtaNext
  <2>5. CASE TargetImage' = "Whole"
    <3>1. OC!OtaActivateFails
      BY <1>3, <2>1, <2>2, <2>3, <2>5, TargetIsInactive DEF OC!OtaActivateFails
    <3>. QED
      BY <3>1 DEF OC!OtaNext
  <2>. QED
    BY <1>t, <2>4, <2>5 DEF TargetKnown
<1>4. CASE RequestFails \/ ReadFails \/ VerifyFails \/ ActivateFails
  BY <1>3, <1>4 DEF RequestFails, ReadFails, VerifyFails, ActivateFails, Streaming
<1>5. ASSUME NEW to, RedirectRejected(to)
      PROVE  OC!OtaNext
  BY <1>3, <1>5 DEF RedirectRejected
<1>6. ASSUME NEW c, ChunkRejected(c) \/ ChunkWriteFails(c)
      PROVE  OC!OtaNext
  BY <1>3, <1>6 DEF ChunkRejected, ChunkWriteFails, Streaming
<1>7. CASE MarkNewFails
  <2>1. /\ Unfinished /\ Fail /\ UNCHANGED <<dl, flash, index, flash_offset, sha, selected>>
        /\ pc = "mark" /\ targetState' \in {targetState, "Undefined"}
    BY <1>7 DEF MarkNewFails, EntryState, Unfinished
  <2>2. OC!OtaAbandoned
    BY <2>1, FailAbandons
  <2>3. TargetImage' = "Whole"
    <3>1. Verified' <=> Verified
      BY <2>1 DEF Verified, post_verify, verify_flash_readback
    <3>. QED
      BY <1>t, <2>1, <3>1 DEF TargetKnown, TargetImage, Fail
  <2>4. selected = "target" /\ pc' = "failed"
    BY <2>1 DEF AttemptInv, MapInv, Fail
  <2>5. OC!OtaMarkNewFails
    <3>. DEFINE img == [running |-> "Whole", target |-> TargetImage]
                st == [running |-> "Valid", target |-> targetState]
    <3>1. img' = [img EXCEPT !["target"] = "Whole"]
      BY <2>3
    <3>2. st' = st \/ st' = [st EXCEPT !["target"] = "Undefined"]
      BY <2>1
    <3>3. OC!Activated(img', st')
      BY <3>1, <3>2, TargetIsInactive DEF OC!Activated
    <3>. QED
      BY <2>1, <2>2, <2>4, <3>3, TargetIsInactive DEF OC!OtaMarkNewFails
  <2>. QED
    BY <2>5 DEF OC!OtaNext
<1>8. CASE Prepare
  <2>1. /\ pc = "netWait" /\ https = dl.https /\ Unfinished /\ Unfinished'
        /\ pc' = IF https THEN "tlsWait" ELSE "request"
        /\ UNCHANGED <<dl, tls, selected, targetState>>
    BY <1>8 DEF Prepare, AttemptInv, MapInv, Unfinished
  <2>2. TargetImage = "Whole" /\ TargetImage' = "Broken"
    BY <1>t, <2>1 DEF TargetKnown, Erased
  <2>3. OC!OtaPrepare
    BY <2>1, <2>2, TargetIsInactive DEF OC!OtaPrepare, OC!OtaUntouched, OC!boundVars,
       OC!confirmVars, OC!mqttVars
  <2>. QED
    BY <2>3 DEF OC!OtaNext
<1>9. CASE MqttReleasesTls
  <2>1. /\ Unfinished /\ Unfinished' /\ tls = "mqtt" /\ tls' = "none"
        /\ UNCHANGED <<pc, dl, flash, index, flash_offset, sha, selected, targetState>>
    BY <1>9 DEF MqttReleasesTls, Unfinished
  <2>2. UNCHANGED TargetImage
    BY <2>1 DEF TargetImage, Verified, post_verify, verify_flash_readback
  <2>3. OC!MqttBackoffExpires
    BY <2>1, <2>2 DEF OC!MqttBackoffExpires, OC!OpenSession, OC!TlsReleasedBy, OC!Quiet,
       OC!is_mqtt_allowed, OC!next_mqtt_backoff_secs, OC!MQTT_MAX_BACKOFF_SECS,
       OC!flashVars, OC!boundVars, OC!otaVars, OC!confirmVars
  <2>. QED
    BY <2>3
<1>10. CASE AcquireTls
  <2>1. /\ Unfinished /\ Unfinished' /\ tls = "none" /\ tls' = "ota"
        /\ pc = "tlsWait" /\ pc' = "request"
        /\ UNCHANGED <<dl, selected, targetState>>
    BY <1>10 DEF AcquireTls, Unfinished
  <2>2. UNCHANGED TargetImage
    BY <1>t, <2>1 DEF TargetKnown, Erased
  <2>3. OC!OtaAcquireTls
    BY <2>1, <2>2 DEF OC!OtaAcquireTls, OC!OtaUntouched, OC!flashVars, OC!boundVars,
       OC!confirmVars, OC!mqttVars
  <2>. QED
    BY <2>3 DEF OC!OtaNext
<1>11. ASSUME NEW to, Redirect(to)
       PROVE  OC!OtaNext \/ UNCHANGED OC!vars
  <2>1. /\ Unfinished /\ Unfinished' /\ pc = "request"
        /\ pc' = IF tls = "ota" THEN "request" ELSE "tlsWait"
        /\ UNCHANGED <<dl, tls, selected, targetState>>
    BY <1>11 DEF Redirect, Unfinished
  <2>2. UNCHANGED TargetImage
    BY <1>t, <2>1 DEF TargetKnown, Erased
  <2>3. CASE tls = "ota"
    BY <2>1, <2>2, <2>3 DEF OC!vars
  <2>4. CASE tls # "ota"
    BY <2>1, <2>2, <2>4 DEF OC!OtaRedirect, OC!OtaNext, OC!OtaUntouched, OC!flashVars,
       OC!boundVars, OC!confirmVars, OC!mqttVars
  <2>. QED
    BY <2>3, <2>4
<1>12. ASSUME /\ pc \in {"request", "header"} \cup Streaming
              /\ pc' \in {"request", "header"} \cup Streaming
              /\ UNCHANGED <<dl, tls, targetState>>
       PROVE  UNCHANGED OC!vars
  <2>1. Unfinished /\ Unfinished'
    BY <1>12 DEF Unfinished, Streaming
  <2>2. UNCHANGED TargetImage
    BY <1>t, <1>12 DEF TargetKnown, Erased, Streaming
  <2>3. (IF pc = "mark" THEN "running" ELSE selected) = "running"
        /\ (IF pc' = "mark" THEN "running" ELSE selected') = "running"
    BY <1>12 DEF AttemptInv, MapInv, Streaming
  <2>. QED
    BY <1>12, <2>1, <2>2, <2>3 DEF OC!vars, Streaming
<1>13. CASE Respond \/ ReadHeader \/ Verify \/ Activate
  BY <1>12, <1>13 DEF Respond, ReadHeader, Verify, Activate, Streaming
<1>14. ASSUME NEW c, ChunkWritten(c)
       PROVE  UNCHANGED OC!vars
  BY <1>12, <1>14 DEF ChunkWritten, Streaming
<1>15. CASE MarkNew \/ PowerLoss
  BY <1>15 DEF MarkNew, PowerLoss, Rebooted
<1>. QED
  BY <1>1, <1>2, <1>4, <1>5, <1>6, <1>7, <1>8, <1>9, <1>10, <1>11, <1>13, <1>14,
     <1>15 DEF Next

\* The other tasks see of an attempt what OtaCoordination lets ota_task do, for
\* all sizes, servers, redirects and faults: every step of the detailed module
\* is a step of ota_task, the end of MQTT's back-off, a reset, or invisible.
THEOREM AttemptRefinesOtaTask == Spec => AttemptIsOtaTask
<1>1. AttemptInv /\ AttemptInv' /\ [Next]_vars =>
        [pc' = "rebooted" \/ OC!OtaNext \/ OC!MqttBackoffExpires
           \/ UNCHANGED OC!vars]_vars
  BY AttemptStep
<1>. QED
  BY <1>1, AttemptAlways, PTL DEF Spec, AttemptIsOtaTask
============================================================================
