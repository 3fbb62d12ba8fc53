------------------------------ MODULE IoBits ------------------------------
(* The bit streams of inc/io.h: what a context reads and writes at bitpos.   *)
(* A byte has ByteBits bits, uint32_t four bytes.  Bit 0 of a stream is the  *)
(* weightiest bit of its first byte (the table at inc/io.h:220-225).         *)
EXTENDS Integers, Sequences

CONSTANT ByteBits         \* 8

ASSUME ByteAssumption == ByteBits \in Nat \ {0}

Word == 2^(4 * ByteBits)                \* uint32_t counts modulo this
Overloads == {ByteBits, 2 * ByteBits, 4 * ByteBits}   \* uint8_t, uint16_t, uint32_t

Aligned(pos) == pos % ByteBits = 0

\* a call that reads or writes a number: its overload, bitsize, what the client
\* writes or requires, and the iox_info that a text shows
Hints == {"FORMAT_HINT_DEC", "FORMAT_HINT_HEX", "FORMAT_HINT_BIN"}
Field == [w : Overloads, size : 1..(4 * ByteBits), val : Nat, name : STRING, hint : Hints]

\* the bit of weight 2^i of a value
Bit(val, i) == (val \div 2^i) % 2

\* "size" bits of the stream from pos on hold val
Holds(bits, pos, size, val) ==
  \A i \in pos..(pos + size - 1) : bits[i] = Bit(val, pos + size - 1 - i)

\* obCtx::nocheck_uint: the field is overwritten; the bits of a value that is
\* too large for it are or-ed into those before it, back to the last byte border
Put(bits, pos, size, val) ==
  [i \in DOMAIN bits |->
     LET new == Bit(val, pos + size - 1 - i) IN
       IF i \in pos..(pos + size - 1) THEN new
       ELSE IF i \in (pos - (pos % ByteBits))..(pos - 1) /\ new = 1 THEN 1
       ELSE bits[i]]

\* a number that is written over more than four bytes, or read from them
Spans(pos, size) == (pos % ByteBits) + size > 4 * ByteBits
=============================================================================
