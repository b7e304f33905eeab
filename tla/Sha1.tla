--------------------------------- MODULE Sha1 ---------------------------------
(***************************************************************************)
(* Class Sha1 (sha1.h, sha1.cpp): how update() and finish() cut a message  *)
(* into blocks and pad it.  What hashBlock computes from the blocks, in    *)
(* order, is in Sha1Block and joined to this in AcceptKey.                 *)
(***************************************************************************)
EXTENDS Integers, Sequences

CONSTANTS
  BlockLength,      \* Sha1::BlockLength, 64 in the header
  Messages          \* the messages that are hashed, sequences of bytes

VARIABLES
  buffer, bufferOffset, byteCount,
  hashed,           \* the blocks hashBlock() was called with
  message,          \* history: what is hashed
  done              \* how far finish() is: "updating", "mark", "zeros", "length", "finished"

shaVars == <<buffer, bufferOffset, byteCount, hashed, message, done>>

\* Where the eight bytes of the length go.
LengthOffset == BlockLength - 8

ASSUME BlockAssumption == BlockLength \in 9..255
\* Below 2^29 bytes byteCount, which has 32 bits, does not wrap.
ASSUME MessagesAssumption == \A m \in Messages : m \in Seq(0..255) /\ Len(m) < 536870912

-------------------------------------------------------------------------------

HashesEarly(offset) == offset = BlockLength - 1   \* fault: one byte too early
BlockFull(offset) == offset = BlockLength

\* addUncounted: bufferOffset ^ 3 puts the byte where a little-endian machine's
\* words have it in message order, so the block is kept in that order here.
AddUncounted(byte) ==
  LET filled == [buffer EXCEPT ![bufferOffset + 1] = byte]
      offset == (bufferOffset + 1) % 256
  IN /\ buffer' = filled
     /\ IF BlockFull(offset)
          THEN bufferOffset' = 0 /\ hashed' = Append(hashed, filled)
          ELSE bufferOffset' = offset /\ UNCHANGED hashed

\* write(): the next byte of the message.
WriteByte ==
  /\ done = "updating" /\ byteCount < Len(message)
  /\ byteCount' = byteCount + 1
  /\ AddUncounted(message[byteCount + 1])
  /\ UNCHANGED <<message, done>>

\* pad(): the mark, zeros up to the length's place, and the length in bits.
PadMark ==
  /\ done = "updating" /\ byteCount = Len(message)
  /\ AddUncounted(128) /\ done' = "zeros"
  /\ UNCHANGED <<byteCount, message>>

PadsOn(offset) == offset # LengthOffset

PadZero ==
  /\ done = "zeros" /\ PadsOn(bufferOffset)
  /\ AddUncounted(0)
  /\ UNCHANGED <<byteCount, message, done>>

LengthInBytes == << 0, 0, 0, 0, 0, 0, byteCount \div 256, byteCount % 256 >>   \* fault
\* Three zero bytes, then byteCount shifted by 29, 21, 13, 5 and -3, each cut to
\* eight bits.
LengthBytes ==
  << 0, 0, 0, (byteCount \div 536870912) % 256, (byteCount \div 2097152) % 256,
     (byteCount \div 8192) % 256, (byteCount \div 32) % 256, (byteCount * 8) % 256 >>

\* The eight calls of addUncounted that fill the block up.
PadLength ==
  /\ done = "zeros" /\ ~PadsOn(bufferOffset)
  /\ hashed' = Append(hashed, SubSeq(buffer, 1, bufferOffset) \o LengthBytes)
  /\ bufferOffset' = 0 /\ done' = "finished"
  /\ UNCHANGED <<buffer, byteCount, message>>

ShaInit ==
  /\ message \in Messages
  /\ buffer = [i \in 1..BlockLength |-> 0] /\ bufferOffset = 0 /\ byteCount = 0
  /\ hashed = <<>> /\ done = "updating"

ShaNext == WriteByte \/ PadMark \/ PadZero \/ PadLength

ShaSpec == ShaInit /\ [][ShaNext]_shaVars

-------------------------------------------------------------------------------
(* Properties. *)

\* Block b of the text has the bytes that follow those of the b - 1 before it.
InBlock(b, i) == BlockLength * (b - 1) + i

\* While the message is read, every byte of it is in a block that was hashed or
\* in the buffer, where bufferOffset says: none is hashed twice or kept back.
BlocksHoldMessage ==
  done = "updating" =>
    /\ byteCount = BlockLength * Len(hashed) + bufferOffset
    /\ \A b \in DOMAIN hashed : hashed[b] = [i \in 1..BlockLength |-> message[InBlock(b, i)]]
    /\ \A i \in 1..bufferOffset : buffer[i] = message[InBlock(Len(hashed) + 1, i)]

\* FIPS 180-2's padding: the number of zeros that fill a block up to its last 64
\* bits, and the length in bits, which is less than 2^32 here.
Zeros == (BlockLength - 9 - Len(message)) % BlockLength
PaddedLength == Len(message) + 9 + Zeros
LengthByte(i) ==
  IF i <= 4 THEN 0
  ELSE ((8 * Len(message)) \div << 16777216, 65536, 256, 1 >>[i - 4]) % 256

\* The k-th byte of the padded message: the message, one bit, zeros, the length.
Padded(k) ==
  CASE k <= Len(message) -> message[k]
    [] k = Len(message) + 1 -> 128
    [] k \in Len(message) + 2..PaddedLength - 8 -> 0
    [] k > PaddedLength - 8 -> LengthByte(k + 8 - PaddedLength)

\* "Implement SHA-1 padding (fips180-2 5.1.1)": the blocks that were hashed are
\* those of the padded message, and no more.
PaddedAsFips180 ==
  done = "finished" =>
    /\ PaddedLength = BlockLength * Len(hashed)
    /\ \A b \in DOMAIN hashed : hashed[b] = [i \in 1..BlockLength |-> Padded(InBlock(b, i))]
===============================================================================
