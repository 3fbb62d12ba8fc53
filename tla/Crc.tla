-------------------------------- MODULE Crc --------------------------------
(* dvb_crc32 of src/src/crc.cpp, and the division of polynomials over two    *)
(* elements that it stands for.  A register is a sequence of bits, the       *)
(* weightiest first: as many as four bytes have.                             *)
EXTENDS IoBits

CONSTANT Polynomial       \* a register: 0x04c11db7

RegisterBits == 4 * ByteBits
Registers == [1..RegisterBits -> {0, 1}]

ASSUME PolynomialAssumption == Polynomial \in Registers

\* arithmetic: what a power is, since a proof has numerals only
ASSUME WeightsAssumption == /\ 2^0 = 1
                            /\ \A n \in 0..RegisterBits : /\ 2^n \in Nat
                                                         /\ 2^(n + 1) = 2 * 2^n

\* the number that is spelled by bits, and how a number is spelled
NumberOf(bits) ==
  LET read[n \in 0..Len(bits)] == IF n = 0 THEN 0 ELSE 2 * read[n - 1] + bits[n]
  IN  read[Len(bits)]
BitsOf(val, size) == [i \in 1..size |-> Bit(val, size - i)]

Xor(r, s) == [i \in DOMAIN r |-> (r[i] + s[i]) % 2]
ShiftLeft(r, n) == SubSeq(r, n + 1, Len(r)) \o [i \in 1..n |-> 0]

\* one step of a division: the register takes in a bit
Divide(r, bit) == IF r[1] # bit THEN Xor(ShiftLeft(r, 1), Polynomial) ELSE ShiftLeft(r, 1)

\* bytes are divided bit by bit
Zeros == [i \in 1..RegisterBits |-> 0]
Ones == [i \in 1..RegisterBits |-> 1]
DivideByte(r, byte) ==
  LET after[n \in 0..ByteBits] ==
        IF n = 0 THEN r ELSE Divide(after[n - 1], Bit(byte, ByteBits - n))
  IN  after[ByteBits]
Remainder(bytes) ==
  LET after[n \in 0..Len(bytes)] ==
        IF n = 0 THEN Ones ELSE DivideByte(after[n - 1], bytes[n])
  IN  after[Len(bytes)]

----------------------------------------------------------------------------
\* the constants of the table are the remainders of single bytes
crc_table == [byte \in 0..(2^ByteBits - 1) |-> DivideByte(Zeros, byte)]

LeadingByte(r) == [i \in 1..ByteBits |-> r[i]]

\* slip for mutation: the table is not looked up by the byte taken in
TakeUnmixed(crc, byte) == Xor(ShiftLeft(crc, ByteBits), crc_table[NumberOf(LeadingByte(crc))])

\* one round of the loop
Take(crc, byte) ==
  Xor(ShiftLeft(crc, ByteBits),
      crc_table[NumberOf(Xor(LeadingByte(crc), BitsOf(byte, ByteBits)))])

dvb_crc32(bytes) ==
  LET crc[n \in 0..Len(bytes)] == IF n = 0 THEN Ones ELSE Take(crc[n - 1], bytes[n])
  IN  crc[Len(bytes)]
=============================================================================
