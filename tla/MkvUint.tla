------------------------------ MODULE MkvUint ------------------------------
(***************************************************************************)
(* The numbers of binary_parser.cpp, with bytes of Bits bits instead of    *)
(* eight: those of fixed width, and those of variable width, whose first   *)
(* byte begins with a marker bit that tells the width.                     *)
(***************************************************************************)
EXTENDS Integers, Sequences

CONSTANT Bits

ASSUME BitsAssumption == Bits \in Nat \ {0, 1}

Bytes == 0..(2^Bits - 1)

\* bytecount_to_minusone: all bits of a number of this width are set.
AllOnes(width) == 2^((Bits - 1) * width) - 1

\* Mutant: the largest number of each width is used as well.
FitsFull(number, width) == AllOnes(width) >= number

Fits(number, width) == AllOnes(width) > number

Width(number) ==
    LET Widths == {w \in 1..(Bits - 1) : Fits(number, w)}
    IN IF Widths = {} THEN Bits ELSE CHOOSE w \in Widths : \A v \in Widths : w <= v

\* wu8 to wu64: the most significant byte first.
BigEndian(number, width) ==
    [i \in 1..width |-> (number \div 2^(Bits * (width - i))) % 2^Bits]

Marker(width) == 2^(Bits - width)

\* bor_byte with a mask of one bit.
OrByte(byte, mask) == IF (byte \div mask) % 2 = 1 THEN byte ELSE byte + mask

\* wmkvuint
Encode(number) ==
    LET w == Width(number)
    IN [BigEndian(number, w) EXCEPT ![1] = OrByte(@, Marker(w))]

\* byte_to_size_table
byte_to_size_table ==
    [byte \in Bytes |->
        IF byte = 0 THEN Bits
        ELSE CHOOSE w \in 1..Bits : Marker(w) <= byte /\ byte < 2 * Marker(w)]

\* ru8 to ru64
Unsigned(bytes) ==
    LET upTo[i \in 0..Len(bytes)] ==
            IF i = 0 THEN 0 ELSE upTo[i - 1] * 2^Bits + bytes[i]
    IN upTo[Len(bytes)]

\* rs16 to rs56: x |= -(x & sign) copies the sign bit into all bits above it.
Signed(bytes) ==
    LET sign == 2^(Bits * Len(bytes) - 1)
        x == Unsigned(bytes)
    IN IF (x \div sign) % 2 = 1 THEN x - 2 * sign ELSE x

\* The number that bytes of variable width stand for.
Value(bytes) == Unsigned(bytes) - Marker(Len(bytes)) * 2^(Bits * (Len(bytes) - 1))
=============================================================================
