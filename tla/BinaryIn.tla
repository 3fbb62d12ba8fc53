------------------------------ MODULE BinaryIn ------------------------------
(* iox in binary parsing mode (ibCtx, through ix and ibx of src/src/io.cpp): *)
(* the same calls as in BinaryOut, which read what those have written.       *)
EXTENDS IoBits

CONSTANTS MessageBytes,   \* the most bytes a message has
          Fields,         \* the calls of uint and uint_req
          LengthBits      \* bitsize of the lengths of named blocks

\* a length, counted in bits, stays within an uint32_t
ASSUME InAssumption == /\ MessageBytes \in Nat
                       /\ Fields \subseteq Field
                       /\ LengthBits \subseteq 1..(4 * ByteBits)
                       /\ \A n \in LengthBits :
                            MessageBytes * ByteBits + (2^n - 1) * ByteBits < Word

VARIABLES bitpos,
          bitlimit,
          scope_stack,    \* the blocks that are open, the innermost last
          data,           \* the bits of the message
          thrown,         \* the last call threw
          returned,       \* what the last call returned
          announced       \* history: the lengths read for the open blocks

vars == <<bitpos, bitlimit, scope_stack, data, thrown, returned, announced>>

\* a context that has read nothing yet of the given bytes
Start(bits, size) == /\ bitpos = 0
                     /\ bitlimit = size * ByteBits
                     /\ scope_stack = <<>>
                     /\ data = bits
                     /\ thrown = FALSE
                     /\ returned = 0
                     /\ announced = <<>>

\* parse_binary, assigned to an object already in use
ParseBinary(bits, size) == /\ bitpos' = 0
                           /\ bitlimit' = size * ByteBits
                           /\ scope_stack' = <<>>
                           /\ data' = bits
                           /\ thrown' = FALSE
                           /\ returned' = 0
                           /\ announced' = <<>>

Init == \E size \in 0..MessageBytes :
          \E bits \in [0..(size * ByteBits - 1) -> {0, 1}] : Start(bits, size)

Top == scope_stack[Len(scope_stack)]
Outer(stack) == SubSeq(stack, 1, Len(stack) - 1)

Readable(size) == bitpos + size <= bitlimit

----------------------------------------------------------------------------
\* What a call that reads a number gets, and where that leaves it: of the
\* overload for w-bit integers.  A number spread over more than four bytes is
\* read as 0, and the position stays
Read(w, size, val) ==
  /\ ~thrown
  /\ size <= w
  /\ Readable(size)
  /\ IF w > ByteBits /\ Spans(bitpos, size)
     THEN val = 0 /\ bitpos' = bitpos
     ELSE Holds(data, bitpos, size, val) /\ bitpos' = bitpos + size

RefuseRead(size) == /\ ~thrown
                    /\ ~Readable(size)
                    /\ thrown' = TRUE
                    /\ UNCHANGED <<bitpos, bitlimit, scope_stack, data, returned, announced>>

Uint(f) ==
  \/ \E val \in 0..(2^f.size - 1) :
       /\ Read(f.w, f.size, val)
       /\ returned' = val
       /\ UNCHANGED <<bitlimit, scope_stack, data, thrown, announced>>
  \/ RefuseRead(f.size)

\* uint_req: the number is read and, if it is another one, the call throws
UintReq(f) ==
  \/ \E val \in 0..(2^f.size - 1) :
       /\ Read(f.w, f.size, val)
       /\ thrown' = (val # f.val)
       /\ UNCHANGED <<bitlimit, scope_stack, data, returned, announced>>
  \/ RefuseRead(f.size)

----------------------------------------------------------------------------
\* slip for mutation: a block may end anywhere in the message
HasBlockInMessage(start, length) ==
  Aligned(start) /\ start..(start + length * ByteBits - 1) \subseteq DOMAIN data

\* named_block_begin: the length is read, then the block begins
HasBlock(start, length) == /\ Aligned(start)
                           /\ start + length * ByteBits <= bitlimit

BeginBlock(size) ==
  \E length \in 0..(2^size - 1) :
    /\ Read(4 * ByteBits, size, length)
    /\ HasBlock(bitpos', length)
    /\ bitlimit' = bitpos' + length * ByteBits
    /\ scope_stack' = Append(scope_stack, [bitpos_at_enter |-> bitpos',
                                           bitlimit_at_enter |-> bitlimit])
    /\ announced' = Append(announced, length)
    /\ UNCHANGED <<data, thrown, returned>>

RefuseBegin(size) ==
  \E length \in 0..(2^size - 1) :
    /\ Read(4 * ByteBits, size, length)
    /\ ~HasBlock(bitpos', length)
    /\ thrown' = TRUE
    /\ UNCHANGED <<bitlimit, scope_stack, data, returned, announced>>

NamedBlockBegin(size) == BeginBlock(size) \/ RefuseBegin(size) \/ RefuseRead(size)

\* slips for mutation: the difference the other way round; bits may be left in
\* a block that ends
BlockBitsNegated == Top.bitpos_at_enter - bitpos
BlockDoneEarly == scope_stack # <<>> /\ Aligned(bitpos - Top.bitpos_at_enter)

\* named_block_end: all of the block must have been read
BlockBits == bitpos - Top.bitpos_at_enter
BlockDone == scope_stack # <<>> /\ bitpos >= bitlimit /\ Aligned(BlockBits)

EndBlock == /\ ~thrown
            /\ BlockDone
            /\ returned' = BlockBits \div ByteBits
            /\ bitlimit' = Top.bitlimit_at_enter
            /\ scope_stack' = Outer(scope_stack)
            /\ announced' = Outer(announced)
            /\ UNCHANGED <<bitpos, data, thrown>>

\* no block is open, or it has bits left, or is no whole number of bytes
RefuseEnd == /\ ~thrown
             /\ ~BlockDone
             /\ thrown' = TRUE
             /\ UNCHANGED <<bitpos, bitlimit, scope_stack, data, returned, announced>>

NamedBlockEnd == EndBlock \/ RefuseEnd

----------------------------------------------------------------------------
Next == \/ \E f \in Fields : Uint(f) \/ UintReq(f)
        \/ \E size \in LengthBits : NamedBlockBegin(size)
        \/ NamedBlockEnd

Spec == Init /\ [][Next]_vars

----------------------------------------------------------------------------
MessageBits == 0..(MessageBytes * ByteBits)

\* the limit in the i-th open block, now or when the one inside it ends
InnerLimit(i) == IF i = Len(scope_stack) THEN bitlimit
                 ELSE scope_stack[i + 1].bitlimit_at_enter

\* every variable has its type
TypeOK == /\ bitpos \in MessageBits
          /\ bitlimit \in MessageBits
          /\ scope_stack \in Seq([bitpos_at_enter : MessageBits,
                                  bitlimit_at_enter : MessageBits])
          /\ thrown \in BOOLEAN
          /\ returned \in Nat
          /\ announced \in Seq(Nat)

\* inc/io.h:148 "Its role is to protect against read/write overruns": nothing
\* is read past the limit of the block, nor a block begun that ends past it
LimitsNest ==
  /\ bitpos <= bitlimit
  /\ \A i \in 1..Len(scope_stack) :
       InnerLimit(i) <= scope_stack[i].bitlimit_at_enter

\* What makes ExactlyAsAnnounced inductive: the limit in a block is where the
\* length read for it says it ends
LimitsAnnounced ==
  /\ Len(announced) = Len(scope_stack)
  /\ \A i \in 1..Len(scope_stack) :
       InnerLimit(i) = scope_stack[i].bitpos_at_enter + announced[i] * ByteBits
IInv == TypeOK /\ LimitsNest /\ LimitsAnnounced

\* inc/io.h:559 "Exactly X ... bytes must had been read" and "Return X": a
\* block ends after as many bytes as its length announced when it began,
\* whatever the blocks inside it did to the limit
ExactlyAsAnnounced ==
  [][NamedBlockEnd /\ ~thrown' => returned' = announced[Len(announced)]]_vars
=============================================================================
