------------------------------ MODULE IoxModes ------------------------------
(* The four modes of iox together, which is what they are for (README,       *)
(* inc/io.h:42-48): one sequence of calls constructs a message and a text;   *)
(* made again on either of them, it parses it back.  A BinaryOut and a       *)
(* TextOut context are given the same calls, each for as long as it does not *)
(* throw; then what one of them has made is given to a BinaryIn or a TextIn  *)
(* context and its calls are repeated.                                       *)
EXTENDS BinaryOut

CONSTANTS TextBits,       \* bitlimit of a text: 8*1000000
          BlockName,      \* the name in the iox_info of the named blocks
          MaxCalls        \* a bound on the calls made to construct

\* texts are given more room than the buffer has
ASSUME ModesAssumption == /\ TextBits \in Nat
                          /\ TextBits >= BufferBits
                          /\ MaxCalls \in Nat

VARIABLES text_bitpos, text_bitlimit, text_scope_stack, prod, text_thrown, text_returned
VARIABLES in_bitpos, in_bitlimit, in_scope_stack, message, in_thrown, in_returned, announced
VARIABLES read_bitpos, read_bitlimit, read_scope_stack, unread, read_thrown, read_returned
VARIABLES phase,          \* "construct", then what is parsed: "binary" or "text"
          calls,          \* of each mode: the calls that succeeded, what they gave
          results         \* what the same calls give when they are repeated

T == INSTANCE TextOut WITH
       bitpos <- text_bitpos, bitlimit <- text_bitlimit, scope_stack <- text_scope_stack,
       thrown <- text_thrown, returned <- text_returned
I == INSTANCE BinaryIn WITH
       MessageBytes <- BufferBytes, bitpos <- in_bitpos, bitlimit <- in_bitlimit,
       scope_stack <- in_scope_stack, data <- message, thrown <- in_thrown,
       returned <- in_returned
R == INSTANCE TextIn WITH
       bitpos <- read_bitpos, bitlimit <- read_bitlimit, scope_stack <- read_scope_stack,
       thrown <- read_thrown, returned <- read_returned

text == <<text_bitpos, text_bitlimit, text_scope_stack, prod, text_thrown, text_returned>>
in == <<in_bitpos, in_bitlimit, in_scope_stack, message, in_thrown, in_returned, announced>>
read == <<read_bitpos, read_bitlimit, read_scope_stack, unread, read_thrown, read_returned>>
modes_vars == <<vars, text, in, read, phase, calls, results>>

\* the parsing contexts start on nothing; iox() leaves a binary one so
ModesInit == /\ Init
             /\ T!Init
             /\ I!Start([i \in 0..-1 |-> 0], 0)
             /\ R!Start(<<>>)
             /\ phase = "construct"
             /\ calls = [mode \in {"binary", "text"} |-> <<>>]
             /\ results = <<>>

----------------------------------------------------------------------------
\* a call is made on the contexts that have not thrown; B and X are what it
\* does to them, b and x what the client notes of it
OnBoth(B, X, b, x) ==
  /\ ~(thrown /\ text_thrown)
  /\ B \/ (thrown /\ UNCHANGED vars)
  /\ X \/ (text_thrown /\ UNCHANGED text)
  /\ calls' = [binary |-> IF thrown' THEN calls.binary ELSE Append(calls.binary, b),
               text |-> IF text_thrown' THEN calls.text ELSE Append(calls.text, x)]
  /\ UNCHANGED <<in, read, phase, results>>

Ended(length) == [name |-> "named_block_end", gave |-> length]

Construct ==
  /\ phase = "construct"
  /\ Len(calls.binary) < MaxCalls
  /\ Len(calls.text) < MaxCalls
  /\ \/ \E f \in Fields :
          LET call == [name |-> "uint", field |-> f, gave |-> f.val] IN
          OnBoth(Uint(f), T!Uint(f), call, call)
     \/ \E n \in LengthBits :
          LET call == [name |-> "named_block_begin", field |-> n, gave |-> 0] IN
          OnBoth(NamedBlockBegin(n), T!NamedBlockBegin(n), call, call)
     \/ OnBoth(NamedBlockEnd, T!NamedBlockEnd, Ended(returned'), Ended(text_returned'))

\* the client passes on the whole bytes that hold what was written
BytesUsed == (bitpos + ByteBits - 1) \div ByteBits

Reparse ==
  /\ phase = "construct"
  /\ UNCHANGED <<vars, text, calls, results>>
  /\ \/ /\ ~thrown
        /\ scope_stack = <<>>
        /\ phase' = "binary"
        /\ I!ParseBinary([i \in 0..(BytesUsed * ByteBits - 1) |-> data[i]], BytesUsed)
        /\ UNCHANGED read
     \/ /\ ~text_thrown
        /\ text_scope_stack = <<>>
        /\ phase' = "text"
        /\ R!ParseText(prod)
        /\ UNCHANGED in

\* the call to repeat, if there is one left
Pending(name) == /\ Len(results) < Len(calls[phase])
                 /\ calls[phase][Len(results) + 1].name = name
PendingField == calls[phase][Len(results) + 1].field

Repeated(failed, gave) == /\ results' = IF failed THEN results ELSE Append(results, gave)
                          /\ UNCHANGED <<vars, text, phase, calls>>

RepeatBinary ==
  /\ phase = "binary"
  /\ UNCHANGED read
  /\ \/ /\ Pending("uint")
        /\ \/ I!Uint(PendingField) /\ Repeated(in_thrown', in_returned')
           \/ I!UintReq(PendingField) /\ Repeated(in_thrown', PendingField.val)
     \/ /\ Pending("named_block_begin")
        /\ I!NamedBlockBegin(PendingField)
        /\ Repeated(in_thrown', 0)
     \/ /\ Pending("named_block_end")
        /\ I!NamedBlockEnd
        /\ Repeated(in_thrown', in_returned')

RepeatText ==
  /\ phase = "text"
  /\ UNCHANGED in
  /\ \/ /\ Pending("uint")
        /\ \/ R!Uint(PendingField) /\ Repeated(read_thrown', read_returned')
           \/ R!UintReq(PendingField) /\ Repeated(read_thrown', PendingField.val)
     \/ /\ Pending("named_block_begin")
        /\ R!NamedBlockBegin(PendingField)
        /\ Repeated(read_thrown', 0)
     \/ /\ Pending("named_block_end")
        /\ R!NamedBlockEnd
        /\ Repeated(read_thrown', read_returned')

ModesNext == Construct \/ Reparse \/ RepeatBinary \/ RepeatText

ModesSpec == ModesInit /\ [][ModesNext]_modes_vars

----------------------------------------------------------------------------
\* every variable of the four contexts has its type
ModesTypeOK == TypeOK /\ T!TypeOK /\ I!TypeOK /\ R!TypeOK

\* Calls that construct a message parse it back: no repeated call throws, each
\* gives the number the first one was given or the length it returned, and
\* both contexts end at the same bit
RoundTrip ==
  phase = "binary" =>
    /\ ~in_thrown
    /\ \A i \in 1..Len(results) : results[i] = calls.binary[i].gave
    /\ Len(results) = Len(calls.binary) => in_bitpos = bitpos

\* numbers that a text shows as they are read: the upper half of uint32_t is
\* written with a sign, letters of hexadecimal numbers are misread, and so is
\* whatever is written in binary
Legible(f) == \/ f.hint = "FORMAT_HINT_DEC" /\ f.val < Word \div 2
              \/ /\ f.hint = "FORMAT_HINT_HEX"
                 /\ \A i \in 1..Len(T!Digits(f.val, 16)) : T!Digits(f.val, 16)[i] < 10
Illegible(upto) == \E i \in 1..upto : calls.text[i].name = "uint" /\ ~Legible(calls.text[i].field)

\* The same of a text, if it is the text of a message that the binary mode has
\* accepted: only a number that is not legible makes a repeated call throw or
\* give something else, and at the end all of the text has been read
TextRoundTrip ==
  phase = "text" /\ ~thrown =>
    /\ read_thrown => Illegible(Len(results) + 1)
    /\ \A i \in 1..Len(results) : results[i] # calls.text[i].gave => Illegible(i)
    /\ Len(results) = Len(calls.text) =>
         (read_bitpos = text_bitpos /\ unread = <<>>) \/ Illegible(Len(results))

\* inc/io.h:144 "In text mode it simulates writing data and changes bitpos
\* accordingly": as long as both accept the calls, the two modes are at the
\* same bit, in blocks that begin at the same bits, and have returned the same
\* lengths; and a text takes every call that the message takes
TextSimulates ==
  /\ text_thrown => thrown
  /\ ~thrown => /\ bitpos = text_bitpos
                /\ Len(scope_stack) = Len(text_scope_stack)
                /\ \A i \in 1..Len(scope_stack) :
                     scope_stack[i].bitpos_at_enter = text_scope_stack[i].bitpos_at_enter
                /\ returned = text_returned

\* tests/test.cpp:657 "check parse/construct consistency" and inc/io.h:106
\* "'hint' can determine specific representation(decimal,hex,binary)": what
\* representation was chosen makes no difference to the number read
HintsKeepNumbers ==
  phase = "text" => \A i \in 1..Len(results) : results[i] = calls.text[i].gave
=============================================================================
