-------------------------------- MODULE Sha ---------------------------------
(***************************************************************************)
(* How lib/libtpm/sha.c, sha256.c and sha512.c cut a message into blocks   *)
(* and pad it: the work array w is reused from block to block and only     *)
(* partly cleared, so a wrong bound leaves bytes of an earlier block in    *)
(* the last one.  The compression function is opaque: a hash stands for    *)
(* the blocks it was given, in order.                                      *)
(*                                                                         *)
(* A byte of the message is its position, counted from 1; the counts of    *)
(* bits are kept as counts of bytes.                                       *)
(***************************************************************************)
EXTENDS Integers, Sequences

CONSTANT MaxLength            \* bound: the longest message

VARIABLE length               \* of the message hashed last, -1 before the first

shavars == <<length>>

Zero == 0
Mark == -1                    \* the byte 0x80
LenByte(i) == -10 - i         \* byte i of the 64-bit length
Width256 == 2 ^ 29            \* sha256_do counts the bits in 32 bits

ASSUME ShaAssumption == MaxLength \in Nat /\ MaxLength < Width256

\* The whole blocks, then the rest with its mark; if the length does not fit
\* behind it (from num = room on) a block of its own, of which only the first
\* `cleared' bytes are zeroed; the length goes to the last eight bytes.
Blocks(len, size, room, cleared) ==
  LET full == len \div size
      num == len % size
      whole == [k \in 1 .. full |-> [i \in 0 .. size - 1 |-> (k - 1) * size + i + 1]]
      last == [i \in 0 .. size - 1 |-> IF i < num THEN full * size + i + 1
                                       ELSE IF i = num THEN Mark ELSE Zero]
      w == IF num >= room
           THEN [i \in 0 .. size - 1 |-> IF i < cleared THEN Zero ELSE last[i]]
           ELSE last
      end == [i \in 0 .. size - 1 |-> IF i >= size - 8 THEN LenByte(i - (size - 8)) ELSE w[i]]
  IN whole \o (IF num >= room THEN <<last>> ELSE << >>) \o <<end>>

RoomOneLate(len) == [blocks |-> Blocks(len, 64, 57, 60), bytes |-> len]

sha1_do(len) == [blocks |-> Blocks(len, 64, 56, 60), bytes |-> len]
sha256_do(len) == [blocks |-> Blocks(len, 64, 56, 60), bytes |-> len % Width256]
sha512_do(len) == [blocks |-> Blocks(len, 128, 112, 128), bytes |-> len]

sha1(len) == sha1_do(len)
sha256(len) == sha256_do(len)
sha384(len) == sha512_do(len)
sha512(len) == sha512_do(len)

\* Messages of every length.
ShaInit == length = -1
ShaNext == length < MaxLength /\ length' = length + 1
ShaSpec == ShaInit /\ [][ShaNext]_shavars

-----------------------------------------------------------------------------
\* FIPS 180-4, 5.1: message, mark, zeros, length; a multiple of the block.
Total(len, size, field) == ((len + 1 + field + size - 1) \div size) * size
PaddedByte(len, total, i) ==
  IF i < len THEN i + 1
  ELSE IF i = len THEN Mark
  ELSE IF i >= total - 8 THEN LenByte(i - (total - 8)) ELSE Zero

Padded(h, len, size, field) ==
  LET total == Total(len, size, field) IN
  /\ Len(h.blocks) * size = total
  /\ \A k \in 1 .. Len(h.blocks) : \A i \in 0 .. size - 1 :
       h.blocks[k][i] = PaddedByte(len, total, (k - 1) * size + i)
  /\ h.bytes = len

\* The hash functions work on the message padded as FIPS 180-4 says: whatever the
\* length, nothing of an earlier block is left in the last one (sha1_do, sha256_do,
\* sha512_do).
PaddingRight ==
  length >= 0 =>
    /\ Padded(sha1(length), length, 64, 8)
    /\ Padded(sha256(length), length, 64, 8)
    /\ Padded(sha384(length), length, 128, 16)
    /\ Padded(sha512(length), length, 128, 16)
=============================================================================
