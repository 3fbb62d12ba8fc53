------------------------------- MODULE BitIO -------------------------------
(* The bytes behind IoBits: obCtx::nocheck_uint and ibCtx::nocheck_uint8,    *)
(* nocheck_uint16, nocheck_uint32 of inc/io.h load two, three or four bytes  *)
(* into an integer, shift and mask it and, to write, store them again.       *)
EXTENDS IoBits, Bitwise

CONSTANTS BufferBytes,    \* the bytes of the message
          Fields,         \* the calls made
          Fills           \* what the bytes of the memory repeat

\* memory goes on past the message: three more bytes are in reach of a call
ASSUME BitIOAssumption == /\ BufferBytes \in Nat
                          /\ Fields \subseteq Field
                          /\ Fills \subseteq Seq(0..(2^ByteBits - 1)) \ {<<>>}
Memory == 0..(BufferBytes + 2)

VARIABLES bitpos,
          data,           \* the bytes of the message, and those after it
          val,            \* what a read returned
          call            \* the one call that is made

vars == <<bitpos, data, val, call>>

NoCall == [op |-> "none"]

Init == /\ bitpos \in 0..(BufferBytes * ByteBits)
        /\ \E fill \in Fills : data = [i \in Memory |-> fill[1 + (i % Len(fill))]]
        /\ val = 0
        /\ call = NoCall

----------------------------------------------------------------------------
At == bitpos \div ByteBits
Inside == bitpos % ByteBits

\* how many bytes the "fast route" of an overload loads, and the other one
BytesLoaded(w, size) ==
  CASE w = ByteBits     -> IF Inside + size <= w THEN 1 ELSE 2
    [] w = 2 * ByteBits -> IF Inside + size <= w THEN 2 ELSE 3
    [] w = 4 * ByteBits -> 4

\* slips for mutation: the bytes in the wrong order; a byte not cut to its size
LoadedReversed(n) == LET sum[k \in 0..n] == IF k = 0 THEN 0
                           ELSE sum[k - 1] + data[At + k - 1] * 2^((k - 1) * ByteBits)
                     IN sum[n]
ByteOfReversed(tmp, n, k) == (tmp \div 2^(k * ByteBits)) % 2^ByteBits
ByteOfWide(tmp, n, k) == tmp \div 2^((n - 1 - k) * ByteBits)

\* n bytes from At on as one integer, and one byte of such an integer
Loaded(n) == LET weight(k) == 2^((n - 1 - k) * ByteBits)
                 sum[k \in 0..n] == IF k = 0 THEN 0
                                    ELSE sum[k - 1] + data[At + k - 1] * weight(k - 1)
             IN sum[n]
ByteOf(tmp, n, k) == (tmp \div 2^((n - 1 - k) * ByteBits)) % 2^ByteBits

ShiftLeft(tmp, by, n) == (tmp % 2^(n * ByteBits - by)) * 2^by

\* the caller has compared bitpos with bitlimit
Legal(f) == /\ call = NoCall
            /\ f.size <= f.w /\ f.val < 2^f.w
            /\ bitpos + f.size <= BufferBytes * ByteBits

\* the uint32_t overload does nothing for a number that spans five bytes
LeftAlone(w, size) == w = 4 * ByteBits /\ Spans(bitpos, size)

NocheckUint(f) ==
  LET n == BytesLoaded(f.w, f.size)
      lshift == n * ByteBits - Inside - f.size
      others == (2^(n * ByteBits) - 1) - (2^f.size - 1) * 2^lshift
      tmp == (Loaded(n) & others) | ShiftLeft(f.val, lshift, n)
  IN /\ Legal(f)
     /\ ~LeftAlone(f.w, f.size)
     /\ data' = [i \in Memory |-> IF i \in At..(At + n - 1) THEN ByteOf(tmp, n, i - At)
                                  ELSE data[i]]
     /\ bitpos' = bitpos + f.size
     /\ call' = [op |-> "write", field |-> f]
     /\ UNCHANGED val

NocheckRead(f) ==
  LET n == BytesLoaded(f.w, f.size)
  IN /\ Legal(f)
     /\ ~LeftAlone(f.w, f.size)
     /\ val' = ShiftLeft(Loaded(n), Inside, n) \div 2^(n * ByteBits - f.size)
     /\ bitpos' = bitpos + f.size
     /\ call' = [op |-> "read", field |-> f]
     /\ UNCHANGED data

\* it writes nothing, or it reads 0
NocheckNothing(f) == /\ Legal(f)
                     /\ LeftAlone(f.w, f.size)
                     /\ call' \in {[op |-> "no write", field |-> f],
                                   [op |-> "no read", field |-> f]}
                     /\ UNCHANGED <<bitpos, data, val>>

Next == \E f \in Fields : NocheckUint(f) \/ NocheckRead(f) \/ NocheckNothing(f)

Spec == Init /\ [][Next]_vars

----------------------------------------------------------------------------
\* the stream of bits that the bytes are
Bits == [i \in 0..((BufferBytes + 3) * ByteBits - 1) |->
           Bit(data[i \div ByteBits], ByteBits - 1 - (i % ByteBits))]

\* every variable has its type
TypeOK == /\ bitpos \in 0..(BufferBytes * ByteBits)
          /\ data \in [Memory -> 0..(2^ByteBits - 1)]
          /\ val \in 0..(Word - 1)

\* inc/io.h:220-225 shows which bits a value goes to: the shifts, the masks and
\* the two routes of each overload all do that, for every position and size,
\* and touch no bit after the field
WritesItsField ==
  [][call'.op = "write" =>
       Bits' = Put(Bits, bitpos, call'.field.size, call'.field.val)]_vars

\* ... and a read gets the number that those bits hold
ReadsItsField ==
  [][call'.op = "read" =>
       Holds(Bits, bitpos, call'.field.size, val') /\ val' < 2^call'.field.size]_vars
=============================================================================
