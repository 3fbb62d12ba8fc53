------------------------------- MODULE TextIn -------------------------------
(* iox in text parsing mode (icCtx, through ix and icx of src/src/io.cpp):   *)
(* the calls of BinaryIn on a text.  bitpos and bitlimit follow the message  *)
(* that the text stands for.                                                 *)
EXTENDS IoText

CONSTANTS TextBits,       \* bitlimit of a text: 8*1000000
          BlockName       \* the name in the iox_info of the named blocks

VARIABLES bitpos,
          bitlimit,
          scope_stack,    \* the blocks that are open, the innermost last
          unread,         \* the text from parse_pos on
          thrown,         \* the last call threw
          returned        \* what the last call returned

vars == <<bitpos, bitlimit, scope_stack, unread, thrown, returned>>

\* a context that has read nothing yet of a text
Start(text) == /\ bitpos = 0
               /\ bitlimit = TextBits
               /\ scope_stack = <<>>
               /\ unread = text
               /\ thrown = FALSE
               /\ returned = 0

\* parse_text, assigned to an object already in use
ParseText(text) == /\ bitpos' = 0
                   /\ bitlimit' = TextBits
                   /\ scope_stack' = <<>>
                   /\ unread' = text
                   /\ thrown' = FALSE
                   /\ returned' = 0

Top == scope_stack[Len(scope_stack)]

----------------------------------------------------------------------------
NextIs(kind) == unread # <<>> /\ Head(unread).kind = kind

\* the name that is asked for comes next, with a number that fits
Readable(name, size) == /\ NextIs("number")
                        /\ Head(unread).name = name
                        /\ Value(Head(unread)) < 2^size

\* icx::uint: read_uint leaves a number with a sign half read; the limit of
\* the block is not looked at
AfterNumber == IF Head(unread).prefix = "-" THEN <<Minus>> \o Tail(unread) ELSE Tail(unread)

NumberRead == Value(Head(unread))
Read(name, size) == /\ ~thrown
                    /\ Readable(name, size)
                    /\ bitpos' = bitpos + size

\* what expect has consumed of another name, or read_uint of a number that is
\* too large, is left in "unread": no call follows one that has thrown
RefuseRead(name, size) == /\ ~thrown
                          /\ ~Readable(name, size)
                          /\ thrown' = TRUE
                          /\ UNCHANGED <<bitpos, bitlimit, scope_stack, unread, returned>>

Uint(f) ==
  \/ /\ Read(f.name, f.size)
     /\ returned' = NumberRead
     /\ unread' = AfterNumber
     /\ UNCHANGED <<bitlimit, scope_stack, thrown>>
  \/ RefuseRead(f.name, f.size)

\* uint_req: the number is read and, if it is another one, the call throws
UintReq(f) ==
  \/ /\ Read(f.name, f.size)
     /\ thrown' = (NumberRead # f.val)
     /\ unread' = AfterNumber
     /\ UNCHANGED <<bitlimit, scope_stack, returned>>
  \/ RefuseRead(f.name, f.size)

----------------------------------------------------------------------------
\* expect for a brace: one that is missing is not missed
Past(kind, text) == IF text # <<>> /\ Head(text).kind = kind THEN Tail(text) ELSE text

\* slip for mutation: a block may be longer than the one around it
HasBlockAnywhere(start, length) == Aligned(start)

\* named_block_begin: the length is read, then the block begins
HasBlock(start, length) == /\ Aligned(start)
                           /\ start + length * ByteBits <= bitlimit

BeginBlock(size) ==
  /\ Read(BlockName, size)
  /\ HasBlock(bitpos', NumberRead)
  /\ bitlimit' = bitpos' + NumberRead * ByteBits
  /\ unread' = Past("{", AfterNumber)
  /\ scope_stack' = Append(scope_stack, [bitpos_at_enter |-> bitpos',
                                         bitlimit_at_enter |-> bitlimit])
  /\ UNCHANGED <<thrown, returned>>

RefuseBegin(size) ==
  /\ Read(BlockName, size)
  /\ ~HasBlock(bitpos', NumberRead)
  /\ thrown' = TRUE
  /\ unread' = AfterNumber
  /\ UNCHANGED <<bitlimit, scope_stack, returned>>

NamedBlockBegin(size) == BeginBlock(size) \/ RefuseBegin(size) \/ RefuseRead(BlockName, size)

BlockBits == bitpos - Top.bitpos_at_enter

\* named_block_end: what is left of the block is not looked at
EndBlock == /\ ~thrown
            /\ scope_stack # <<>>
            /\ Aligned(BlockBits)
            /\ unread' = Past("}", unread)
            /\ returned' = BlockBits \div ByteBits
            /\ bitlimit' = Top.bitlimit_at_enter
            /\ scope_stack' = SubSeq(scope_stack, 1, Len(scope_stack) - 1)
            /\ UNCHANGED <<bitpos, thrown>>

\* no block is open, and nothing is read, or the block is no whole number of
\* bytes, which is found out behind its brace
RefuseEnd == /\ ~thrown
             /\ \/ scope_stack = <<>> /\ UNCHANGED unread
                \/ /\ scope_stack # <<>> /\ ~Aligned(BlockBits)
                   /\ unread' = Past("}", unread)
             /\ thrown' = TRUE
             /\ UNCHANGED <<bitpos, bitlimit, scope_stack, returned>>

NamedBlockEnd == EndBlock \/ RefuseEnd

----------------------------------------------------------------------------
\* every variable has its type
TypeOK == /\ bitpos \in Nat
          /\ bitlimit \in 0..TextBits
          /\ \A i \in 1..Len(scope_stack) :
               /\ scope_stack[i].bitpos_at_enter \in 0..bitpos
               /\ scope_stack[i].bitlimit_at_enter \in 0..TextBits
          /\ thrown \in BOOLEAN
          /\ returned \in Nat

\* inc/io.h:767 "no more then block_size_limit bytes": no block of a text is
\* begun that is announced to end after the one around it
LimitsNest ==
  \A i \in 1..Len(scope_stack) :
    (IF i = Len(scope_stack) THEN bitlimit ELSE scope_stack[i + 1].bitlimit_at_enter)
      <= scope_stack[i].bitlimit_at_enter
=============================================================================
