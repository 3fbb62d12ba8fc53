-------------------------------- MODULE Iox --------------------------------
(* One iox object of src/src/io.cpp in any of its four modes: iox, ix and ox *)
(* hand each call to the context that the factory made.                      *)
EXTENDS IoText

CONSTANTS BufferBytes,    \* the size given to construct_binary
          TextBits,       \* bitlimit of a text: 8*1000000
          BlockName,      \* the name in the iox_info of the named blocks
          MaxOpen         \* a bound on the blocks open at once

ASSUME SizeAssumption == BufferBytes \in Nat /\ TextBits \in Nat /\ MaxOpen \in Nat

VARIABLES mode,           \* the factory that made the object
          bitpos, bitlimit, scope_stack, thrown, returned,
          data, announced,
          prod, unread

O == INSTANCE BinaryOut WITH Fields <- {}, LengthBits <- {}
I == INSTANCE BinaryIn WITH MessageBytes <- BufferBytes, Fields <- {}, LengthBits <- {}
T == INSTANCE TextOut
R == INSTANCE TextIn

iox == <<mode, bitpos, bitlimit, scope_stack, thrown, returned, data, announced, prod, unread>>

IsParsing == mode \in {"parse_binary", "parse_text"}
IsBinary == mode \in {"construct_binary", "parse_binary"}

----------------------------------------------------------------------------
\* the factories, whose results are assigned to the object
ConstructBinary(buffer) == /\ mode' = "construct_binary"
                           /\ bitpos' = 0
                           /\ bitlimit' = BufferBytes * ByteBits
                           /\ scope_stack' = <<>>
                           /\ data' = buffer
                           /\ thrown' = FALSE
                           /\ returned' = 0
                           /\ UNCHANGED <<announced, prod, unread>>

ParseBinary(bits, size) == /\ mode' = "parse_binary"
                           /\ I!ParseBinary(bits, size)
                           /\ UNCHANGED <<prod, unread>>

ConstructText == /\ mode' = "construct_text"
                 /\ bitpos' = 0
                 /\ bitlimit' = TextBits
                 /\ scope_stack' = <<>>
                 /\ prod' = <<>>
                 /\ thrown' = FALSE
                 /\ returned' = 0
                 /\ UNCHANGED <<data, announced, unread>>

ParseText(text) == /\ mode' = "parse_text"
                   /\ R!ParseText(text)
                   /\ UNCHANGED <<data, announced, prod>>

----------------------------------------------------------------------------
\* a call, by what it does to the context of each mode
Dispatch(CB, PB, CT, PT) ==
  /\ UNCHANGED mode
  /\ \/ mode = "construct_binary" /\ CB /\ UNCHANGED <<announced, prod, unread>>
     \/ mode = "parse_binary" /\ PB /\ UNCHANGED <<prod, unread>>
     \/ mode = "construct_text" /\ CT /\ UNCHANGED <<data, announced, unread>>
     \/ mode = "parse_text" /\ PT /\ UNCHANGED <<data, announced, prod>>

Uint(f) == Dispatch(O!Uint(f), I!Uint(f), T!Uint(f), R!Uint(f))

UintReq(f) == Dispatch(O!Uint(f), I!UintReq(f), T!Uint(f), R!UintReq(f))

NamedBlockBegin(size) == Dispatch(O!NamedBlockBegin(size), I!NamedBlockBegin(size),
                                  T!NamedBlockBegin(size), R!NamedBlockBegin(size))

NamedBlockEnd == Dispatch(O!NamedBlockEnd, I!NamedBlockEnd, T!NamedBlockEnd, R!NamedBlockEnd)

\* a test of the caller's fails
Throw == /\ ~thrown
         /\ thrown' = TRUE
         /\ UNCHANGED <<mode, bitpos, bitlimit, scope_stack, returned,
                        data, announced, prod, unread>>

\* block_size_left: unsigned, it wraps past the limit.  A text has none left
\* where the next token is a brace or nothing
BlockSizeLeft == IF mode = "parse_text" /\ (unread = <<>> \/ R!NextIs("}")) THEN 0
                 ELSE (bitlimit - bitpos) % Word
=============================================================================
