------------------------------ MODULE IoxParse ------------------------------
(* An iox object that parses, a message or a text, whatever that holds: ix   *)
(* (src/src/io.cpp) hands each call to the context of its mode.              *)
EXTENDS BinaryIn, IoText

CONSTANTS TextBits,       \* bitlimit of a text: 8*1000000
          BlockName,      \* the name in the iox_info of the named blocks
          Tokens,         \* what a text consists of
          MaxTokens,      \* a bound on the length of a text
          MaxOpen         \* a bound on the blocks of a text open at once

ASSUME TextAssumption == TextBits \in Nat /\ MaxTokens \in Nat /\ MaxOpen \in Nat

VARIABLES text_bitpos, text_bitlimit, text_scope_stack, unread, text_thrown, text_returned
VARIABLE binary           \* ioCtx::is_binary

R == INSTANCE TextIn WITH
       bitpos <- text_bitpos, bitlimit <- text_bitlimit, scope_stack <- text_scope_stack,
       thrown <- text_thrown, returned <- text_returned

\* read_uint gives an unsigned number, whatever the digits
ASSUME TokensAssumption == \A token \in Tokens : token.kind = "number" => R!Value(token) \in Nat

text == <<text_bitpos, text_bitlimit, text_scope_stack, unread, text_thrown, text_returned>>
parse_vars == <<vars, text, binary>>

ParseInit ==
  \/ binary = TRUE /\ Init /\ R!Start(<<>>)
  \/ /\ binary = FALSE
     /\ Start([i \in 0..-1 |-> 0], 0)
     /\ \E n \in 0..MaxTokens : \E tokens \in [1..n -> Tokens] : R!Start(tokens)

ParseBinaryCall == binary /\ Next /\ UNCHANGED <<text, binary>>

ParseTextCall ==
  /\ ~binary
  /\ UNCHANGED <<vars, binary>>
  /\ \/ \E f \in Fields : R!Uint(f) \/ R!UintReq(f)
     \/ Len(text_scope_stack) < MaxOpen /\ \E size \in LengthBits : R!NamedBlockBegin(size)
     \/ R!NamedBlockEnd

ParseNext == ParseBinaryCall \/ ParseTextCall

ParseSpec == ParseInit /\ [][ParseNext]_parse_vars

----------------------------------------------------------------------------
\* inc/io.h:767 "no more then block_size_limit bytes": no block of a text is
\* begun that is announced to end after the one around it
TextLimitsNest == R!LimitsNest
=============================================================================
