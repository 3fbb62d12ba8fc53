------------------------- MODULE NetworkInformation -------------------------
(* The structures of src/dvb/NIT.h and inc/descriptors.h on their way        *)
(* through the four modes, as tests/test.cpp takes them: what a client holds *)
(* is constructed as a message, parsed from it into another object,          *)
(* constructed as a text, parsed from that, and constructed as a message     *)
(* again.  On the way some bits of the message may change.                   *)
EXTENDS CommonTypes

CONSTANTS Bits, ServiceListTag, CableTag, AdaptationTag,
          Objects,        \* what clients hold: a layout and its members
          Malformed,      \* those of them no message can hold
          Fragile,        \* those whose message may change
          Bursts,         \* how: the bits that change, the first of them at 0
          Leftovers,      \* what section_length may hold before it is set
          MaxSectionLength   \* 1021

D == INSTANCE Descriptors

ASSUME StructureAssumption == /\ Malformed \cup Fragile \subseteq Objects
                              /\ Leftovers \subseteq Nat
                              /\ \A n \in {1, 2, 4, 5, 8, 12, 16, 28, 32} :
                                   Bits[n] \in 1..(4 * ByteBits)
                              /\ \A n \in {1, 2, 4, 5, 8, 12, 16} : Bits[n] <= 3 * ByteBits + 1
                              /\ ByteBits >= 2 /\ Bits[8] = ByteBits /\ Bits[16] >= 2
                              /\ \A burst \in Bursts : burst \subseteq Nat /\ 0 \in burst

VARIABLES given,          \* what the client held at first
          members,        \* what the object holds that is constructed
          made,           \* the members written, or read, so far
          todo,           \* the calls still to make
          nit_begin, crc_pos, section_length,
          stage,          \* 1: first constructed .. 5: constructed again
          message,        \* history: the bits first constructed
          flipped,        \* bits of the message have changed
          slips           \* history: known disagreements of the modes met

structure == <<given, members, made, todo, nit_begin, crc_pos, section_length>>
vars == <<common, structure, stage, message, flipped, slips>>

----------------------------------------------------------------------------
TsSpecification ==
  <<D!Uint(16, "transport_stream_id"), D!Uint(16, "original_network_id"),
    D!UintReq(4, "reserved_future_use"), D!BlockBegin(12), D!DescriptorVectorIo,
    D!BlockEnd("transport_descriptors_length")>>

\* the tests of section_length before and after it is set
LengthTest(when_parsing) == [op |-> "section_length_test", when_parsing |-> when_parsing]

SectionBody ==
  <<D!Uint(8, "table_id"), D!Uint(1, "section_syntax_indicator"),
    D!UintReq(1, "reserved_future_use"), D!UintReq(2, "reserved"),
    D!BlockBegin(12), LengthTest(TRUE),
    D!Uint(16, "network_id"), D!UintReq(2, "reserved"), D!Uint(5, "version_number"),
    D!Uint(1, "current_next_indicator"), D!Uint(8, "section_number"),
    D!Uint(8, "last_section_number"), D!UintReq(4, "reserved_future_use"),
    D!BlockBegin(12), D!DescriptorVectorIo, D!BlockEnd("network_descriptors_length"),
    D!UintReq(4, "reserved_future_use"),
    D!BlockBegin(12), D!VectorIo(TsSpecification), D!BlockEnd("transport_stream_loop_length")>>

SectionClose ==
  <<[op |-> "crc_io"], D!BlockEnd("section_length"), [op |-> "crc_late_fix"],
    LengthTest(FALSE)>>

NetworkInformationSection == <<[op |-> "nit_begin"]>> \o (SectionBody \o SectionClose)

\* the last ones are clients that write something of their own before
Layout == [network_information_section |-> NetworkInformationSection,
           ts_specification |-> TsSpecification,
           extended_event_descriptor |-> D!ExtendedEvent,
           item |-> D!Item,
           byte_and_section |-> <<D!Uint(8, "byte")>> \o NetworkInformationSection,
           bit_and_section |-> <<D!Uint(1, "bit")>> \o NetworkInformationSection,
           bit_and_item |-> <<D!Uint(1, "bit")>> \o D!Item]

ASSUME LayoutAssumption == \A o \in Objects : o.layout \in DOMAIN Layout

----------------------------------------------------------------------------
Init == /\ given \in Objects
        /\ members = given.members
        /\ made = <<>>
        /\ todo = Layout[given.layout]
        /\ nit_begin = 0 /\ crc_pos = 0 /\ section_length \in Leftovers
        /\ stage = 1 /\ message = <<>> /\ flipped = FALSE /\ slips = {}
        /\ mode = "construct_binary"
        /\ O!Init
        /\ announced = <<>> /\ prod = <<>> /\ unread = <<>>
        /\ str = <<>> /\ CRC = 0

----------------------------------------------------------------------------
\* the call that is made now, and the member it writes
Call == Head(todo)
Member == members[Len(made) + 1]

\* what a member of a C++ structure may be: an unsigned number, or characters
HoldsNumber == ~IsParsing => Member \in [1..1 -> 0..(Word - 1)]
HoldsString == ~IsParsing => Member \in Seq(Chars)

\* members are kept as sequences of numbers, a number as one of length one
Made(read) == made' = IF thrown' THEN made ELSE Append(made, IF IsParsing THEN read ELSE Member)
Then(calls) == todo' = calls \o Tail(todo)
Locals == <<nit_begin, crc_pos, section_length>>

\* the overload for a member is the smallest that holds it
Overload(size) == CHOOSE w \in Overloads : size <= w /\ \A v \in Overloads : size <= v => w <= v
FieldOf(call, val) == [w |-> Overload(call.size), size |-> call.size, val |-> val,
                       name |-> call.name, hint |-> call.hint]

\* read_hex misreads letters
Misread(f) == /\ mode = "construct_text" /\ f.hint = "FORMAT_HINT_HEX"
              /\ \E i \in DOMAIN Digits(f.val, 16) : Digits(f.val, 16)[i] > 9

UintCall ==
  LET f == FieldOf(Call, IF IsParsing THEN 0 ELSE Member[1]) IN
  /\ Call.op = "uint"
  /\ HoldsNumber
  /\ Uint(f)
  /\ Made(<<returned'>>)
  /\ slips' = IF Misread(f) THEN slips \cup {"letters"} ELSE slips
  /\ Then(<<>>)
  /\ UNCHANGED <<str, CRC, Locals>>

UintReqCall ==
  /\ Call.op = "uint_req"
  /\ UintReq(FieldOf(Call, 2^Call.size - 1))
  /\ Then(<<>>)
  /\ UNCHANGED <<str, CRC, made, slips, Locals>>

BlockBeginCall ==
  /\ Call.op = "named_block_begin"
  /\ NamedBlockBegin(Call.size)
  /\ Then(<<>>)
  /\ UNCHANGED <<str, CRC, made, slips, Locals>>

BlockEndCall ==
  /\ Call.op = "named_block_end"
  /\ NamedBlockEnd
  /\ section_length' = IF ~thrown' /\ Call.member = "section_length" THEN returned'
                       ELSE section_length
  /\ Then(<<>>)
  /\ UNCHANGED <<str, CRC, made, slips, nit_begin, crc_pos>>

\* slip for mutation: the last item is forgotten when there is no room for two
MoreUnlessLast == IF IsParsing THEN BlockSizeLeft > 4 * ByteBits ELSE Member = <<1>>

\* vector_io and descriptor_vector::io: items are read while any bits are left
More == IF IsParsing THEN BlockSizeLeft > 0 ELSE Member = <<1>>
VectorIo ==
  /\ Call.op = "vector_io"
  /\ made' = Append(made, IF More THEN <<1>> ELSE <<0>>)
  /\ IF More THEN todo' = Call.item \o todo ELSE Then(<<>>)
  /\ UNCHANGED <<common, slips, Locals>>

\* adaptation_field_data_descriptor alone does not write its tag
WritesTag == ~IsParsing => Member # <<AdaptationTag>>
TagCall ==
  /\ Call.op = "tag"
  /\ HoldsNumber
  /\ IF WritesTag
     THEN /\ Uint(FieldOf(D!Uint(8, "tag"), IF IsParsing THEN 0 ELSE Member[1]))
          /\ UNCHANGED <<str, CRC, slips>>
     ELSE UNCHANGED common /\ slips' = slips \cup {"tag"}
  /\ Made(<<returned'>>)
  /\ Then(<<>>)
  /\ UNCHANGED Locals

DescriptorFactory ==
  /\ Call.op = "descriptor_factory"
  /\ Then(D!Content(made[Len(made)][1]))
  /\ UNCHANGED <<common, made, slips, Locals>>

StringCall ==
  /\ Call.op \in {"short_string_io", "fixed_string_io"}
  /\ HoldsString
  /\ LET s == IF IsParsing THEN <<>> ELSE Member IN
       \/ Call.op = "short_string_io" /\ ShortString(Call.name, s)
       \/ Call.op = "fixed_string_io" /\ FixedString(Call.name, Call.num_chars, s)
  /\ Made(str')
  /\ Then(<<>>)
  /\ UNCHANGED <<slips, Locals>>

\* unknown_descriptor: a string as long as the length just written or read
DataCall ==
  LET length == made[Len(made)][1] IN
  /\ Call.op = "data"
  /\ Then(IF length > 0 THEN <<D!FixedStringIo(length, "data")>> ELSE <<>>)
  /\ UNCHANGED <<common, made, slips, Locals>>

\* the position at which the section begins is kept, and that of its checksum
NitBegin ==
  /\ Call.op = "nit_begin"
  /\ nit_begin' = bitpos
  /\ Then(<<>>)
  /\ UNCHANGED <<common, made, slips, crc_pos, section_length>>

CrcCall ==
  /\ Call.op = "crc_io"
  /\ crc_pos' = bitpos
  /\ crc_io(nit_begin)
  /\ Then(<<>>)
  /\ UNCHANGED <<made, slips, nit_begin, section_length>>

CrcLateFix ==
  /\ Call.op = "crc_late_fix"
  /\ crc_late_fix(nit_begin, crc_pos)
  /\ Then(<<>>)
  /\ UNCHANGED <<made, slips, Locals>>

\* the test before the length is known looks at what the member held before
TooLong == section_length > MaxSectionLength
SectionLengthTest ==
  /\ Call.op = "section_length_test"
  /\ IF Call.when_parsing = IsParsing /\ TooLong THEN Throw /\ UNCHANGED <<str, CRC>>
     ELSE ~thrown /\ UNCHANGED common
  /\ Then(<<>>)
  /\ UNCHANGED <<made, slips, Locals>>

Io == /\ ~thrown /\ todo # <<>>
      /\ \/ UintCall \/ UintReqCall \/ BlockBeginCall \/ BlockEndCall \/ VectorIo
         \/ TagCall \/ DescriptorFactory \/ StringCall \/ DataCall
         \/ NitBegin \/ CrcCall \/ CrcLateFix \/ SectionLengthTest
      /\ UNCHANGED <<given, members, stage, message, flipped>>

----------------------------------------------------------------------------
Sections == {"network_information_section", "byte_and_section"}
Done == ~thrown /\ todo = <<>>

\* the test after it has been set comes last: all of the message is there
Overlong == /\ mode = "construct_binary" /\ todo = <<>>
            /\ given.layout \in Sections /\ section_length > MaxSectionLength

\* the calls are made again, on another context; what is parsed is parsed into
\* another object
Again == /\ stage' = stage + 1
         /\ made' = <<>>
         /\ todo' = Layout[given.layout]
         /\ members' = IF IsParsing THEN made ELSE members
         /\ IF IsParsing THEN UNCHANGED section_length ELSE section_length' \in Leftovers
         /\ UNCHANGED <<given, nit_begin, crc_pos, str, CRC, slips>>

\* the message: the bits of the buffer up to bitpos, in whole bytes
BitsUpTo(upto) == [i \in DOMAIN data \cap 0..(upto - 1) |-> data[i]]
BytesUpTo(upto) == IF upto > BufferBytes * ByteBits THEN BufferBytes ELSE upto \div ByteBits

Damaged(bits, at, burst) == [i \in DOMAIN bits |-> IF i - at \in burst THEN 1 - bits[i] ELSE bits[i]]

Deliver == /\ stage = 1 /\ (Done \/ Overlong)
           /\ message' = BitsUpTo(bitpos)
           /\ \/ ParseBinary(message', BytesUpTo(bitpos)) /\ UNCHANGED flipped
              \/ /\ given \in Fragile
                 /\ \E i \in DOMAIN message', burst \in Bursts :
                      ParseBinary(Damaged(message', i, burst), BytesUpTo(bitpos))
                 /\ flipped' = TRUE
           /\ Again

\* the text of an extended event has no name, which produce_string asks for
WriteText == /\ stage = 2 /\ Done /\ ~flipped
         /\ given.layout # "extended_event_descriptor"
         /\ ConstructText
         /\ Again
         /\ UNCHANGED <<message, flipped>>

ReadText == /\ stage = 3 /\ Done
        /\ ParseText(prod)
        /\ Again
        /\ UNCHANGED <<message, flipped>>

Rebuild == /\ stage = 4 /\ Done
           /\ ConstructBinary([i \in 0..(BufferBytes * ByteBits - 1) |-> 1])
           /\ Again
           /\ UNCHANGED <<message, flipped>>

Next == Io \/ Deliver \/ WriteText \/ ReadText \/ Rebuild

Spec == Init /\ [][Next]_vars

----------------------------------------------------------------------------
\* every variable has its type; what is made is a list of numbers and strings
TypeOK == /\ mode \in {"construct_binary", "parse_binary", "construct_text", "parse_text"}
          /\ bitpos \in Nat /\ bitlimit \in Nat /\ thrown \in BOOLEAN /\ returned \in Nat
          /\ \A i \in DOMAIN data : data[i] \in {0, 1}
          /\ \A i \in 1..Len(made) : \A j \in 1..Len(made[i]) : made[i][j] \in 0..(Word - 1)
          /\ str \in Seq(Chars) /\ CRC \in 0..(Word - 1)
          /\ section_length \in Nat
          /\ stage \in 1..5

\* What a message can hold is constructed, and nothing else: not a list or a
\* string that is longer than its length can say, nor a string that is no whole
\* number of bytes further on.  What has been constructed is in the buffer
ConstructsWhatFits ==
  stage = 1 => /\ thrown => given \in Malformed \/ Overlong
               /\ Done => given \notin Malformed /\ bitpos <= bitlimit

\* tests/test.cpp:657 "check parse/construct consistency": what has been
\* constructed parses, and gives every member what the client gave it, strings
\* and lists and all.  A section_length left over above the limit refuses
\* every section, and what comes from a descriptor without a tag may be anything
RoundTrip ==
  stage \in {2, 4} /\ ~flipped /\ slips = {} =>
    /\ thrown => given.layout \in Sections /\ section_length > MaxSectionLength
    /\ Done => made = given.members

\* test_nit_table_parsing_1: a message that is parsed, printed, parsed from the
\* text and constructed again is the same message, checksum and all, whatever
\* the text made of the checksum
SameMessage ==
  stage = 5 /\ slips = {} =>
    /\ ~thrown
    /\ Done => BitsUpTo(bitpos) = message

\* The checksum covers the section as it is sent, its length included, though
\* that is written after the checksum first was: long division of the section
\* leaves nothing.  And no other section is accepted, wherever the bits that may
\* have changed led the parser: what it has read divides as well
SectionDivides ==
  /\ IsBinary /\ given.layout \in Sections
  /\ Done \/ Overlong
  => Remainder(BytesAt(nit_begin, (bitpos - nit_begin) \div ByteBits)) = Zeros

\* tests/test.cpp:1224 "error injections": no section is accepted of which bits
\* have changed, wherever that leads the loops and lengths of the parser
DamageRefused == ~(flipped /\ Done)

\* vector_io reads items while any bits are left (inc/commontypes.h:16): also
\* on a damaged message a parser comes to an end, for all it ever has made, the
\* tests of its loops included, is no more than the bits it has read
WorkIsBounded == mode = "parse_binary" => Len(made) <= bitpos

\* src/dvb/NIT.h:58-60 "NIT size exceeds 1024" is thrown when parsing: no section
\* longer than the limit is accepted
NothingTooLong == stage = 2 /\ Done /\ given.layout \in Sections => ~TooLong
=============================================================================
