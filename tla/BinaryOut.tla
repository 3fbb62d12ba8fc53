----------------------------- MODULE BinaryOut -----------------------------
(* iox in binary construction mode (obCtx, through ox and obx of             *)
(* src/src/io.cpp): numbers written at bitpos, and blocks whose length is    *)
(* written in front of them when they end.  An exception leaves the context  *)
(* as it was when it was thrown, and no further call is made on it.          *)
EXTENDS IoBits

CONSTANTS BufferBytes,    \* the size given to construct_binary
          Fields,         \* the calls of uint and uint_req
          LengthBits,     \* bitsize of the lengths of named blocks
          MaxOpen         \* a bound on the blocks open at once

\* what a length of n bits counts to
MostBytes(n) == 2^n - 1

\* nothing bounds the blocks a client opens one in the other but this: the
\* position of the innermost, and the most bytes of a block counted in bits
\* from there, are within an uint32_t
ASSUME OutAssumption == /\ BufferBytes \in Nat
                        /\ Fields \subseteq Field
                        /\ LengthBits \subseteq 1..(4 * ByteBits)
                        /\ \A n \in LengthBits :
                             /\ MostBytes(n) \in Nat
                             /\ (BufferBytes + 4 * MaxOpen + MostBytes(n)) * ByteBits < Word
                        /\ MaxOpen \in Nat

\* arithmetic: what a power is, since a proof has numerals only
ASSUME PowersAssumption == /\ 2^0 = 1
                           /\ \A n \in 0..(5 * ByteBits) : /\ 2^n \in Nat
                                                          /\ 2^(n + 1) = 2 * 2^n

BufferBits == BufferBytes * ByteBits

VARIABLES bitpos,
          bitlimit,
          scope_stack,    \* the blocks that are open, the innermost last
          data,           \* the bits of the buffer
          thrown,         \* the last call threw
          returned        \* what the last named_block_end returned

vars == <<bitpos, bitlimit, scope_stack, data, thrown, returned>>

\* the constructed buffer is the client's: whatever it holds
Init == /\ bitpos = 0
        /\ bitlimit = BufferBits
        /\ scope_stack = <<>>
        /\ data \in {[i \in 0..(BufferBits - 1) |-> b] : b \in {0, 1}}
        /\ thrown = FALSE
        /\ returned = 0

Top == scope_stack[Len(scope_stack)]
Outer == SubSeq(scope_stack, 1, Len(scope_stack) - 1)

----------------------------------------------------------------------------
\* slip for mutation: numbers that span five bytes are accepted
WritableSpanning(w, pos, size, limit) == pos + size <= limit

\* uint and uint_req, of the overload for w-bit integers.  Only the uint32_t
\* one looks at how many bytes the number is spread over
Writable(w, pos, size, limit) == /\ pos + size <= limit
                                 /\ w = 4 * ByteBits => ~Spans(pos, size)

Write(w, size, val) ==
  /\ ~thrown
  /\ Writable(w, bitpos, size, bitlimit)
  /\ data' = Put(data, bitpos, size, val)
  /\ bitpos' = bitpos + size
  /\ UNCHANGED <<bitlimit, scope_stack, thrown, returned>>

RefuseWrite(w, size) ==
  /\ ~thrown
  /\ ~Writable(w, bitpos, size, bitlimit)
  /\ thrown' = TRUE
  /\ UNCHANGED <<bitpos, bitlimit, scope_stack, data, returned>>

Uint(f) == /\ f.size <= f.w /\ f.val < 2^f.w
           /\ Write(f.w, f.size, f.val) \/ RefuseWrite(f.w, f.size)

----------------------------------------------------------------------------
\* slips for mutation: the block around is not looked at, or not even the
\* buffer, or one byte too many is allowed
BlockLimitOfBuffer(pos, size) == LET end == pos + MostBytes(size) * ByteBits IN
                                 IF end > BufferBits THEN BufferBits ELSE end
BlockLimitFree(pos, size) == pos + MostBytes(size) * ByteBits
BlockLimitLong(pos, size) == LET end == pos + (MostBytes(size) + 1) * ByteBits IN
                             IF end > bitlimit THEN bitlimit ELSE end

\* named_block_begin: room for the length is reserved, wherever it is; the
\* difference at io.cpp:700 wraps when that is past the limit, and the sum at
\* 707 wraps it back
BlockLimit(pos, size) == LET end == pos + MostBytes(size) * ByteBits IN
                         IF end > bitlimit THEN bitlimit ELSE end

BeginBlock(size) ==
  LET start == bitpos + size IN
  /\ ~thrown
  /\ Aligned(start)
  /\ bitpos' = start
  /\ bitlimit' = BlockLimit(start, size)
  /\ scope_stack' = Append(scope_stack, [bitpos_at_enter |-> start,
                                         bitlimit_at_enter |-> bitlimit,
                                         position_for_write |-> bitpos])
  /\ UNCHANGED <<data, thrown, returned>>

RefuseBegin(size) ==
  /\ ~thrown
  /\ ~Aligned(bitpos + size)
  /\ bitpos' = bitpos + size
  /\ thrown' = TRUE
  /\ UNCHANGED <<bitlimit, scope_stack, data, returned>>

NamedBlockBegin(size) == /\ Len(scope_stack) < MaxOpen
                         /\ BeginBlock(size) \/ RefuseBegin(size)

----------------------------------------------------------------------------
\* slip for mutation: a length field one bit too long
LengthFieldLong == 1 + Top.bitpos_at_enter - Top.position_for_write

\* named_block_end: what the block holds, and the field its length goes to
BlockBits == bitpos - Top.bitpos_at_enter
LengthField == Top.bitpos_at_enter - Top.position_for_write
LengthWritable == Writable(4 * ByteBits, Top.position_for_write, LengthField,
                           Top.bitlimit_at_enter)

EndBlock ==
  /\ ~thrown
  /\ scope_stack # <<>>
  /\ Aligned(BlockBits)
  /\ LengthWritable
  /\ returned' = BlockBits \div ByteBits
  /\ data' = Put(data, Top.position_for_write, LengthField, BlockBits \div ByteBits)
  /\ bitlimit' = Top.bitlimit_at_enter
  /\ scope_stack' = Outer
  /\ UNCHANGED <<bitpos, thrown>>

\* the length does not fit: the block is already closed when this is found
RefuseLength ==
  /\ ~thrown
  /\ scope_stack # <<>>
  /\ Aligned(BlockBits)
  /\ ~LengthWritable
  /\ bitpos' = Top.position_for_write
  /\ bitlimit' = Top.bitlimit_at_enter
  /\ scope_stack' = Outer
  /\ thrown' = TRUE
  /\ UNCHANGED <<data, returned>>

RefuseEnd ==
  /\ ~thrown
  /\ scope_stack # <<>>
  /\ ~Aligned(BlockBits)
  /\ thrown' = TRUE
  /\ UNCHANGED <<bitpos, bitlimit, scope_stack, data, returned>>

NamedBlockEnd == EndBlock \/ RefuseLength \/ RefuseEnd

----------------------------------------------------------------------------
Next == \/ \E f \in Fields : Uint(f)
        \/ \E size \in LengthBits : NamedBlockBegin(size)
        \/ NamedBlockEnd

Spec == Init /\ [][Next]_vars

----------------------------------------------------------------------------
Positions == /\ bitpos \in Nat
             /\ bitlimit \in 0..BufferBits
             /\ scope_stack \in Seq([bitpos_at_enter : Nat,
                                     bitlimit_at_enter : 0..BufferBits,
                                     position_for_write : Nat])

\* every variable has its type
TypeOK == /\ Positions
          /\ data \in [0..(BufferBits - 1) -> {0, 1}]
          /\ thrown \in BOOLEAN
          /\ returned \in Nat

\* the limit in the i-th open block, now or when the one inside it ends
InnerLimit(i) == IF i = Len(scope_stack) THEN bitlimit
                 ELSE scope_stack[i + 1].bitlimit_at_enter

\* inc/io.h:148 "Its role is to protect against read/write overruns": an inner
\* block may at most use what is left of the block around it, and the
\* outermost what is left of the buffer
LimitsNest ==
  \A i \in 1..Len(scope_stack) : InnerLimit(i) <= scope_stack[i].bitlimit_at_enter

\* Why LengthFits holds: the length field of an inner block may be reserved
\* past the limit of the block around it, but then the inner one cannot end
\* ("doomed"); a block that has passed its limit is such a block
PosInside(i) == IF i = Len(scope_stack) THEN bitpos
                ELSE scope_stack[i + 1].position_for_write
Doomed(i) == scope_stack[i].bitpos_at_enter > scope_stack[i].bitlimit_at_enter
BlockInOrder(i) ==
  LET enter == scope_stack[i].bitpos_at_enter
      field == enter - scope_stack[i].position_for_write
  IN /\ field \in LengthBits
     /\ enter <= PosInside(i)
     /\ InnerLimit(i) <= enter + MostBytes(field) * ByteBits
     /\ PosInside(i) > InnerLimit(i) => Doomed(i)
IInv == /\ Positions
        /\ LimitsNest
        /\ ~thrown => \A i \in 1..Len(scope_stack) : BlockInOrder(i)

\* inc/io.h:564 "Block must be no more then 2^bitsize-1 bytes": a length that
\* is written fits the field reserved for it, however the blocks inside have
\* stepped over the limit by their own length fields, which nobody checks
LengthFits ==
  [][NamedBlockEnd /\ ~thrown' => returned' <= MostBytes(LengthField)]_vars

\* A call that succeeds leaves alone what was written before it: a length
\* lands in the field reserved for it and nowhere else
WrittenStays ==
  [][\A i \in 0..(BufferBits - 1) :
       data'[i] # data[i] =>
         \/ i \in bitpos..(bitpos' - 1)
         \/ NamedBlockEnd /\ i \in Top.position_for_write..(Top.bitpos_at_enter - 1)]_vars
=============================================================================
