------------------------------ MODULE Rubicson -------------------------------
(***************************************************************************)
(* The decoder of crates/rubicson: from the gaps between radio pulses, in  *)
(* microseconds, to a sensor reading.  A byte is the set of its bits that  *)
(* are 1 (0 the lowest), so that exclusive or is the symmetric difference; *)
(* a temperature is its integer number of tenths of a degree.              *)
(***************************************************************************)
EXTENDS Integers, Sequences, SequencesExt, FiniteSetsExt

BITS_IN_PACKET == 36
BYTES_IN_PACKET == 5
MAX_PACKETS == 12

Xor(a, b) == (a \ b) \cup (b \ a)
ValueOf(byte) == MapThenSumSet(LAMBDA i : 2 ^ i, byte)

sign_extend_nth_bit(value, n) == IF value >= 2 ^ (n - 1) THEN value - 2 ^ n ELSE value

\* What a gap means: a bit ("one", "zero"), or "ignore", "break", "reset".
decode_gap(gap) ==
  CASE gap > 4500 -> "reset"
    [] gap > 2500 /\ gap <= 4500 -> "break"
    [] gap > 1500 /\ gap <= 2500 -> "one"
    [] gap > 750 /\ gap <= 1500 -> "zero"
    [] OTHER -> "ignore"

-----------------------------------------------------------------------------
(* decode_rubicson.  A row holds the bits of a packet in order of arrival. *)

\* The k-th byte of a row, k from 0.
ByteOf(bits, k) == {b \in 0 .. 7 : bits[8 * k + 7 - b] = 1}

Poly == {0, 4, 5}           \* 0x31
CrcInit == {2, 3, 5, 6}     \* 0x6c

\* Slip: the polynomial is applied by the bit that comes in.
CrcShift_late(crc) ==
  LET shifted == {i + 1 : i \in crc \ {7}} IN IF 6 \in crc THEN Xor(shifted, Poly) ELSE shifted

CrcShift(crc) ==
  LET shifted == {i + 1 : i \in crc \ {7}} IN IF 7 \in crc THEN Xor(shifted, Poly) ELSE shifted

calculate_crc8(data, init) ==
  LET byte(crc, b) == FoldLeft(LAMBDA c, i : CrcShift(c), Xor(crc, b), <<1, 2, 3, 4, 5, 6, 7, 8>>)
  IN FoldLeft(byte, init, data)

\* The received CRC: the last two nibbles of the packet.
ReceivedCrc(bits) ==
  {i + 4 : i \in ByteOf(bits, 3) \cap 0 .. 3} \cup {i - 4 : i \in ByteOf(bits, 4) \cap 4 .. 7}

CrcOk(bits) ==
  calculate_crc8(<<ByteOf(bits, 0), ByteOf(bits, 1), ByteOf(bits, 2),
                   ByteOf(bits, 3) \cap 4 .. 7, ReceivedCrc(bits)>>, CrcInit) = {}

ReadingOf(bits) ==
  LET b1 == ByteOf(bits, 1)
      raw == 256 * ValueOf(b1 \cap 0 .. 3) + ValueOf(ByteOf(bits, 2))
  IN [id |-> ValueOf(ByteOf(bits, 0)), battery |-> 7 \in b1,
      channel |-> (ValueOf(b1 \cap {4, 5}) \div 16) + 1,
      temperature |-> sign_extend_nth_bit(raw, 12)]

-----------------------------------------------------------------------------
(* decode_gaps_iter: one step per gap of the iterator. *)

VARIABLES pulses,          \* the gaps still to come
          row,             \* the bits of the present row of bit_buffer
          bit_index, bit_buffer_row,
          outcome          \* "none", "running", "err" or "ok"

decoderVars == <<pulses, row, bit_index, bit_buffer_row, outcome>>

BlankRow == [i \in 0 .. 8 * BYTES_IN_PACKET - 1 |-> 0]

DecoderIdle ==
  /\ pulses = <<>> /\ row = BlankRow /\ bit_index = 0 /\ bit_buffer_row = 0
  /\ outcome = "none"

StartDecode(gaps) ==
  /\ pulses' = gaps /\ row' = BlankRow /\ bit_index' = 0 /\ bit_buffer_row' = 0
  /\ outcome' = "running"

\* The loop takes the next gap; past the last row it gives up.
Gap(meaning) ==
  /\ outcome = "running" /\ pulses # <<>> /\ bit_buffer_row < MAX_PACKETS
  /\ decode_gap(Head(pulses)) \in meaning
  /\ pulses' = Tail(pulses)

BufferFull ==
  /\ outcome = "running" /\ pulses # <<>> /\ bit_buffer_row >= MAX_PACKETS
  /\ outcome' = "err"
  /\ UNCHANGED <<pulses, row, bit_index, bit_buffer_row>>

\* add_bit drops the bits that do not fit the bytes of the row.
add_bit(bit) ==
  row' = IF bit_index \in DOMAIN row /\ bit = "one" THEN [row EXCEPT ![bit_index] = 1] ELSE row

OnBit ==
  /\ Gap({"zero", "one"})
  /\ add_bit(decode_gap(Head(pulses)))
  /\ bit_index' = bit_index + 1
  /\ UNCHANGED <<bit_buffer_row, outcome>>

OnIgnore == Gap({"ignore"}) /\ UNCHANGED <<row, bit_index, bit_buffer_row, outcome>>

\* The end of a row: its bits are read as a packet, or the next row begins.
OnBreak ==
  /\ Gap({"break"})
  /\ \/ CrcOk(row) /\ outcome' = "ok" /\ UNCHANGED <<row, bit_index, bit_buffer_row>>
     \/ /\ ~CrcOk(row)
        /\ bit_buffer_row' = bit_buffer_row + 1 /\ bit_index' = 0 /\ row' = BlankRow
        /\ UNCHANGED outcome

OnReset == Gap({"reset"}) /\ outcome' = "err" /\ UNCHANGED <<row, bit_index, bit_buffer_row>>

\* Slip: a capture that ends without a break is read whatever its length.
AfterLoop_any_length ==
  /\ outcome = "running" /\ pulses = <<>>
  /\ outcome' = IF CrcOk(row) THEN "ok" ELSE "err"
  /\ UNCHANGED <<pulses, row, bit_index, bit_buffer_row>>

\* After the last gap, a last row of exactly 36 bits is read too.
AfterLoop ==
  /\ outcome = "running" /\ pulses = <<>>
  /\ outcome' = IF bit_index = BITS_IN_PACKET /\ CrcOk(row) THEN "ok" ELSE "err"
  /\ UNCHANGED <<pulses, row, bit_index, bit_buffer_row>>

decode_gaps_iter == BufferFull \/ OnBit \/ OnIgnore \/ OnBreak \/ OnReset \/ AfterLoop
=============================================================================
