------------------------------ MODULE TextOut ------------------------------
(* iox in text construction mode (ocCtx, through ox and ocx of               *)
(* src/src/io.cpp): the calls of BinaryOut, which here write a text; bitpos  *)
(* and bitlimit follow the message that the text stands for.                 *)
EXTENDS IoText

Seqs == INSTANCE SequencesExt

CONSTANTS TextBits,       \* bitlimit of a text: 8*1000000
          BlockName,      \* the name of a block's length, which has no hint
          MaxOpen         \* a bound on the blocks open at once

VARIABLES bitpos,
          bitlimit,
          scope_stack,    \* the blocks that are open, the innermost last
          prod,           \* the text
          thrown,         \* the last call threw
          returned        \* what the last named_block_end returned

vars == <<bitpos, bitlimit, scope_stack, prod, thrown, returned>>

Init == /\ bitpos = 0
        /\ bitlimit = TextBits
        /\ scope_stack = <<>>
        /\ prod = <<>>
        /\ thrown = FALSE
        /\ returned = 0

Top == scope_stack[Len(scope_stack)]

----------------------------------------------------------------------------
\* ocx::uint and ocCtx::write_uint: the number must fit the message that the
\* text stands for, and its own size
Writable(size, val) == /\ bitpos + size <= bitlimit
                       /\ size < 4 * ByteBits => val < 2^size

Write(f) == /\ ~thrown
            /\ Writable(f.size, f.val)
            /\ prod' = Append(prod, Written(f.name, f.hint, f.size, f.val))
            /\ bitpos' = bitpos + f.size
            /\ UNCHANGED <<bitlimit, scope_stack, thrown, returned>>

RefuseWrite(f) == /\ ~thrown
                  /\ ~Writable(f.size, f.val)
                  /\ thrown' = TRUE
                  /\ UNCHANGED <<bitpos, bitlimit, scope_stack, prod, returned>>

Uint(f) == /\ f.size <= f.w /\ f.val < 2^f.w
           /\ Write(f) \/ RefuseWrite(f)

----------------------------------------------------------------------------
\* slip for mutation: the bits of the length are not counted
StartUncounted(size) == bitpos

\* named_block_begin: no text is reserved for the length, but its bits are
Start(size) == bitpos + size

BeginBlock(size) ==
  LET start == Start(size)
      end == start + (2^size - 1) * ByteBits IN
  /\ ~thrown
  /\ Aligned(start)
  /\ bitpos' = start
  /\ bitlimit' = IF end > bitlimit THEN bitlimit ELSE end
  /\ prod' = Append(prod, Open)
  /\ scope_stack' = Append(scope_stack, [bitpos_at_enter |-> start,
                                         bitlimit_at_enter |-> bitlimit,
                                         position_for_write |-> Len(prod)])
  /\ UNCHANGED <<thrown, returned>>

RefuseBegin(size) == /\ ~thrown
                     /\ ~Aligned(Start(size))
                     /\ bitpos' = Start(size)
                     /\ thrown' = TRUE
                     /\ UNCHANGED <<bitlimit, scope_stack, prod, returned>>

NamedBlockBegin(size) == /\ Len(scope_stack) < MaxOpen
                         /\ BeginBlock(size) \/ RefuseBegin(size)

----------------------------------------------------------------------------
BlockBits == bitpos - Top.bitpos_at_enter

\* slip for mutation: the length goes behind the brace
PlaceForLengthInside == Top.position_for_write + 2

\* where the length goes: before the brace that began the block
PlaceForLength == Top.position_for_write + 1

\* named_block_end: the length is written whatever number of bits was meant
\* to hold it, and nothing is compared with the limit
EndBlock ==
  /\ ~thrown
  /\ scope_stack # <<>>
  /\ Aligned(BlockBits)
  /\ returned' = BlockBits \div ByteBits
  /\ prod' = Seqs!InsertAt(Append(prod, Close), PlaceForLength,
                      WriteDec(BlockName, BlockBits \div ByteBits))
  /\ bitlimit' = Top.bitlimit_at_enter
  /\ scope_stack' = SubSeq(scope_stack, 1, Len(scope_stack) - 1)
  /\ UNCHANGED <<bitpos, thrown>>

RefuseEnd == /\ ~thrown
             /\ scope_stack # <<>>
             /\ ~Aligned(BlockBits)
             /\ thrown' = TRUE
             /\ UNCHANGED <<bitpos, bitlimit, scope_stack, prod, returned>>

NamedBlockEnd == EndBlock \/ RefuseEnd

----------------------------------------------------------------------------
\* every variable has its type
TypeOK == /\ bitpos \in Nat
          /\ bitlimit \in 0..TextBits
          /\ \A i \in 1..Len(scope_stack) :
               /\ scope_stack[i].bitpos_at_enter \in 0..bitpos
               /\ scope_stack[i].bitlimit_at_enter \in bitlimit..TextBits
               /\ scope_stack[i].position_for_write \in 0..(Len(prod) - 1)
          /\ thrown \in BOOLEAN
          /\ returned \in Nat
=============================================================================
