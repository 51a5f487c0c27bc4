------------------------------- MODULE Sha256 -------------------------------
(***************************************************************************)
(* class Sha256 of core/src/ai_hash.cpp: how update() cuts its data into   *)
(* chunks and how finalize() pads the last ones.  The compression function *)
(* is taken as collision free: state_ is the sequence of the bytes that    *)
(* transform() has been given since reset(), and the digest that sequence. *)
(* A call of update() is one step for its arguments and one for every turn *)
(* of its loop.                                                            *)
(***************************************************************************)
EXTENDS Naturals, Sequences

CONSTANTS
  ChunkLen,      \* bytes of a chunk (64)
  LengthLen,     \* bytes of the message length at the end (8)
  ByteBits       \* bits of a byte (8)

ASSUME Sha256Assumption ==
  /\ ChunkLen \in Nat /\ LengthLen \in Nat \ {0}
  /\ LengthLen < ChunkLen
  /\ ByteBits \in Nat \ {0}

VARIABLES
  state,         \* state_
  bitLength,     \* bit_length_
  buffer,        \* the first buffer_len_ bytes of buffer_
  data,          \* p and len of update(): what is left of the argument
  message,       \* history: the arguments of update() since reset()
  digest,        \* what the last finalize() returned
  digested       \* history: the message of that call

hasher == <<state, bitLength, buffer>>
shaVars == <<hasher, data, message, digest, digested>>

Radix == 2 ^ ByteBits
Byte == 0 .. Radix - 1
Marker == 2 ^ (ByteBits - 1)             \* 0x80

(* Arithmetic that needs induction on the exponent *)
ASSUME PowerAssumption ==
  /\ Radix \in Nat /\ Marker \in 1 .. Radix - 1
  /\ Radix ^ LengthLen \in Nat \ {0}

Zeros(n) == [i \in 1 .. n |-> 0]

(* bit_length_ is as wide as the length at the end of the padding. *)
Bits(n) == n % Radix ^ LengthLen

ShaInit ==
  /\ state = <<>> /\ bitLength = 0 /\ buffer = <<>>
  /\ data = <<>> /\ message = <<>>
  /\ digest = <<>> /\ digested = <<>>

Reset == state' = <<>> /\ bitLength' = 0 /\ buffer' = <<>>

(* update(bytes): its loop does nothing for an empty argument.  The digest *)
(* of an earlier call is its caller's by now.                              *)
Update(bytes) ==
  /\ data = <<>>
  /\ data' = bytes
  /\ message' = message \o bytes
  /\ digest' = <<>> /\ digested' = <<>>
  /\ UNCHANGED hasher

(* Mutant: the chunk is not taken out of the buffer. *)
AbsorbKeepsChunk ==
  LET room == ChunkLen - Len(buffer)
      take == IF room > Len(data) THEN Len(data) ELSE room
      filled == buffer \o SubSeq(data, 1, take)
  IN
  /\ data # <<>>
  /\ data' = SubSeq(data, take + 1, Len(data))
  /\ bitLength' = Bits(bitLength + take * ByteBits)
  /\ IF Len(filled) = ChunkLen
     THEN state' = state \o filled /\ buffer' = filled
     ELSE state' = state /\ buffer' = filled
  /\ UNCHANGED <<message, digest, digested>>

(* One turn of the loop: fill the chunk, and transform it once it is full. *)
Absorb ==
  LET room == ChunkLen - Len(buffer)
      take == IF room > Len(data) THEN Len(data) ELSE room
      filled == buffer \o SubSeq(data, 1, take)
  IN
  /\ data # <<>>
  /\ data' = SubSeq(data, take + 1, Len(data))
  /\ bitLength' = Bits(bitLength + take * ByteBits)
  /\ IF Len(filled) = ChunkLen
     THEN state' = state \o filled /\ buffer' = <<>>
     ELSE state' = state /\ buffer' = filled
  /\ UNCHANGED <<message, digest, digested>>

LengthField(bits) ==
  [i \in 1 .. LengthLen |-> (bits \div Radix ^ (LengthLen - i)) % Radix]

(* Mutant: another chunk also where the length would just fit. *)
PaddedGreedy(marked) ==
  IF Len(marked) > ChunkLen - LengthLen - 1
  THEN marked \o Zeros(ChunkLen - Len(marked)) \o Zeros(ChunkLen - LengthLen)
  ELSE marked \o Zeros(ChunkLen - LengthLen - Len(marked))

(* The zeros of finalize(): where the length does not fit after the marker *)
(* the chunk is filled and another one begun.                              *)
PaddedTo(marked) ==
  IF Len(marked) > ChunkLen - LengthLen
  THEN marked \o Zeros(ChunkLen - Len(marked)) \o Zeros(ChunkLen - LengthLen)
  ELSE marked \o Zeros(ChunkLen - LengthLen - Len(marked))

(* finalize() *)
Finalize ==
  /\ data = <<>>
  /\ digest' = state \o PaddedTo(Append(buffer, Marker)) \o LengthField(bitLength)
  /\ digested' = message
  /\ message' = <<>>
  /\ Reset
  /\ UNCHANGED data

ShaNext == (\E bytes \in Seq(Byte) : Update(bytes)) \/ Absorb \/ Finalize

ShaSpec == ShaInit /\ [][ShaNext]_shaVars

-----------------------------------------------------------------------------
(* No byte is lost, repeated or reordered between the chunks, the buffer   *)
(* and what is still to be read, and the buffer is never full.             *)
Streamed ==
  /\ message = state \o buffer \o data
  /\ Len(state) % ChunkLen = 0
  /\ Len(buffer) < ChunkLen
  /\ bitLength = Bits(ByteBits * (Len(state) + Len(buffer)))

(* FIPS 180-4, 5.1.1: the message, a one bit, the least number of zeros    *)
(* that fills the last chunk up, and the length in bits.                   *)
Standard(m, padded) ==
  LET zeros == Len(padded) - Len(m) - 1 - LengthLen IN
  /\ Len(padded) % ChunkLen = 0
  /\ zeros \in 0 .. ChunkLen - 1
  /\ SubSeq(padded, 1, Len(m)) = m
  /\ padded[Len(m) + 1] = Marker
  /\ \A i \in Len(m) + 2 .. Len(m) + 1 + zeros : padded[i] = 0
  /\ SubSeq(padded, Len(padded) - LengthLen + 1, Len(padded)) = LengthField(Bits(ByteBits * Len(m)))

(* "FIPS 180-4 reference": whatever the sizes of the updates, and however  *)
(* often the object has been used before, what is hashed is the standard's *)
(* padding of exactly the bytes since the last finalize().                 *)
DigestIsStandard == digest # <<>> => Standard(digested, digest)
=============================================================================
