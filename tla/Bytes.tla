------------------------------- MODULE Bytes -------------------------------
(***************************************************************************)
(* Fixed-width big-endian fields in byte strings, the common ground of the *)
(* frame codec, the client protocol and the checkpoint codec.  The size of *)
(* a byte and the widths of the integer types are parameters, so that TLC  *)
(* can enumerate byte strings; the layouts keep their shape.               *)
(***************************************************************************)
EXTENDS Integers, SequencesExt

CONSTANTS
    Base,   \* the values of a byte (256), a power of two
    W16,    \* bytes of a uint16_t (2)
    W32     \* bytes of a uint32_t (4)

ASSUME BytesAssumption ==
    /\ Base \in Nat /\ Base > 1 /\ Base % 2 = 0
    /\ W16 \in Nat /\ W16 > 0
    /\ W32 \in Nat /\ W32 > W16

\* A fold from the left.  As a recursive function it costs TLC one step per
\* element, unlike the folds over sets of positions.
Fold(Op(_, _), base, seq) ==
    LET f[i \in 0 .. Len(seq)] == IF i = 0 THEN base ELSE Op(f[i - 1], seq[i])
    IN  f[Len(seq)]

\* The number of values that n bytes have.
Power(n) == Fold(LAMBDA acc, base : acc * base, 1, [i \in 1 .. n |-> Base])

W64 == 2 * W32
Byte == 0 .. Base - 1
Max16 == Power(W16) - 1
Max32 == Power(W32) - 1
Max64 == Power(W64) - 1

\* htons, htonl and append_*: the most significant byte goes first.
Bytes(value, width) ==
    [i \in 1 .. width |-> (value \div Power(width - i)) % Base]

\* ntohs, ntohl and Reader::read_*.
Value(bytes) == Fold(LAMBDA acc, byte : acc * Base + byte, 0, bytes)

\* An unsigned integer lies at an offset only when all its bytes do.
HasField(data, offset, width) ==
    offset <= Len(data) /\ Len(data) - offset >= width

Field(data, offset, width) ==
    Value(SubSeq(data, offset + 1, offset + width))

\* read_u64 reads its two halves.
Field64(data, offset) ==
    Field(data, offset, W32) * (Max32 + 1) + Field(data, offset + W32, W32)

\* append_u64 appends its two halves.
Bytes64(value) ==
    Bytes(value \div (Max32 + 1), W32) \o Bytes(value % (Max32 + 1), W32)

\* int32_t and its two's complement bits.
MaxInt32 == (Max32 + 1) \div 2 - 1
Int32s == (-1 - MaxInt32) .. MaxInt32

ToBits(value) == value % (Max32 + 1)

FromBits(bits) ==
    IF bits <= MaxInt32 THEN bits ELSE -1 - (Max32 - bits)

Concat(parts) == Fold(LAMBDA acc, part : acc \o part, <<>>, parts)
=============================================================================
