---------------------------- MODULE CommonTypes ----------------------------
(* Strings and checksums (src/src/commontypes.cpp): calls made of those of   *)
(* Iox, in all four modes.  A character is a byte; those a text spells with  *)
(* are constants, and an escape of three octal digits has as many as a byte  *)
(* of ByteBits bits needs.  What a text holds between its quotes is kept     *)
(* character by character, for reading has to undo what writing does.        *)
EXTENDS Iox, Crc

CONSTANTS Quote, Backslash,
          LineEnds,       \* \r and \n
          Printable,      \* 32..126
          Zero            \* '0'

Chars == 0..(2^ByteBits - 1)

ASSUME CharAssumption == /\ {Quote, Backslash} \cup Zero..(Zero + 7) \subseteq Printable
                         /\ Printable \cup LineEnds \subseteq Chars

VARIABLES str,            \* the last string read
          CRC             \* the last checksum written or read

common == <<iox, str, CRC>>

----------------------------------------------------------------------------
\* characters that are written after a backslash
Escaped == {Quote, Backslash} \cup LineEnds
OctalLen == (ByteBits + 2) \div 3
OctalDigits == Zero..(Zero + 7)

\* slip for mutation: what is not printed is shown as something that is
ShownAsPrinted(c) ==
  IF c \in Escaped THEN <<Backslash, c>> ELSE IF c \in Printable THEN <<c>> ELSE <<Zero>>

ShownChar(c) ==
  IF c \in Escaped THEN <<Backslash, c>>
  ELSE IF c \in Printable THEN <<c>>
  ELSE <<Backslash>> \o [i \in 1..OctalLen |-> Zero + ((c \div 8^(OctalLen - i)) % 8)]

\* produce_string: up to the closing quote
Shown(s) ==
  LET text[n \in 0..Len(s)] == IF n = 0 THEN <<>> ELSE text[n - 1] \o ShownChar(s[n])
  IN  text[Len(s)] \o <<Quote>>

\* characters that stand for themselves after a backslash
Literal == {Quote, Backslash} \cup LineEnds

\* parse_string reads on: what it has so far, and the digits of an escape
Reading(at, s, val, digits) == [at |-> at, s |-> s, val |-> val, digits |-> digits]
Plain(s) == Reading("char", s, 0, 0)
ReadOctal(r, c) ==
  LET val == 8 * r.val + (c - Zero) IN
    IF c \notin OctalDigits THEN Reading("illegal", r.s, 0, 0)
    ELSE IF r.digits + 1 < OctalLen THEN Reading("octal", r.s, val, r.digits + 1)
    ELSE IF val \in Chars THEN Plain(Append(r.s, val))
    ELSE Reading("illegal", r.s, 0, 0)
ReadChar(r, c) ==
  CASE r.at = "char" /\ c = Quote -> Reading("end", r.s, 0, 0)
    [] r.at = "char" /\ c = Backslash -> Reading("escape", r.s, 0, 0)
    [] r.at = "char" /\ c \in Printable \ {Quote, Backslash} -> Plain(Append(r.s, c))
    [] r.at = "escape" /\ c \in Literal -> Plain(Append(r.s, c))
    [] r.at = "escape" /\ c \notin Literal -> ReadOctal(r, c)
    [] r.at = "octal" -> ReadOctal(r, c)
    [] OTHER -> Reading("illegal", r.s, 0, 0)
Unshown(text) ==
  LET after[n \in 0..Len(text)] ==
        IF n = 0 THEN Plain(<<>>) ELSE ReadChar(after[n - 1], text[n])
  IN  after[Len(text)]

----------------------------------------------------------------------------
BytesAt(pos, n) ==
  [i \in 1..n |-> NumberOf([j \in 1..ByteBits |-> data[pos + (i - 1) * ByteBits + j - 1]])]

\* slip for mutation: a byte is put where a bit belongs
CopiedUnsplit(pos, bytes) ==
  [i \in DOMAIN data |-> IF i - pos \in 0..(Len(bytes) - 1) THEN bytes[i - pos + 1] ELSE data[i]]

Copied(pos, bytes) ==
  [i \in DOMAIN data |->
     LET byte == (i - pos) \div ByteBits IN
       IF i >= pos /\ byte < Len(bytes)
       THEN Bit(bytes[byte + 1], ByteBits - 1 - ((i - pos) % ByteBits)) ELSE data[i]]

\* slip for mutation: the byte with the length needs no room
RoomBesides(bytes) == bitpos + (bytes - 1) * ByteBits <= bitlimit

Room(bytes) == bitpos + bytes * ByteBits <= bitlimit

\* a string that may be written goes to the message as bytes, its length
\* among them, and to the text between quotes
ConstructString(name, s, legal, bytes) ==
  IF ~(Aligned(bitpos) /\ legal /\ Room(Len(bytes))) THEN Throw /\ UNCHANGED <<str, CRC>>
  ELSE /\ ~thrown
       /\ bitpos' = bitpos + Len(bytes) * ByteBits
       /\ data' = IF IsBinary THEN Copied(bitpos, bytes) ELSE data
       /\ prod' = IF IsBinary THEN prod
                  ELSE Append(prod, [kind |-> "string", name |-> name, text |-> Shown(s)])
       /\ UNCHANGED <<mode, bitlimit, scope_stack, thrown, returned, announced, unread, str, CRC>>

\* a string of len bytes that begins "skipped" bytes further on: they have been
\* read already when it is found to be longer than what is left
ParseBinaryString(skipped, len) ==
  /\ ~thrown
  /\ thrown' = ~Room(skipped + len)
  /\ bitpos' = bitpos + (IF Room(skipped + len) THEN skipped + len ELSE skipped) * ByteBits
  /\ str' = IF Room(skipped + len) THEN BytesAt(bitpos + skipped * ByteBits, len) ELSE str
  /\ UNCHANGED <<mode, bitlimit, scope_stack, returned, data, announced, prod, unread, CRC>>

\* what stands in the text is not compared with the name and the quote that
\* are expected: a string is then read from its own name up to its first quote,
\* and what it holds is left to be read, as if it were a string without a name
Misnamed(name) == R!NextIs("string") /\ Head(unread).name # name
Contents(token) == [kind |-> "contents", text |-> token.text]

ParsedString(name) ==
  IF Misnamed(name) THEN Reading("end", <<Quote>>, 0, 0)
  ELSE IF R!NextIs("string") \/ R!NextIs("contents") THEN Unshown(Head(unread).text)
  ELSE Reading("illegal", <<>>, 0, 0)

\* the string is kept, then the bytes it counts for are looked for; "uncounted"
\* says how many bytes more than it has
ParseTextString(name, uncounted) ==
  LET parsed == ParsedString(name)
      len == (uncounted + Len(parsed.s)) % 2^ByteBits IN
  IF ~Aligned(bitpos) \/ parsed.at # "end" THEN Throw /\ UNCHANGED <<str, CRC>>
  ELSE /\ ~thrown
       /\ str' = parsed.s
       /\ unread' = (IF Misnamed(name) THEN <<Contents(Head(unread))>> ELSE <<>>) \o Tail(unread)
       /\ thrown' = ~Room(len)
       /\ bitpos' = IF Room(len) THEN bitpos + len * ByteBits ELSE bitpos
       /\ UNCHANGED <<mode, bitlimit, scope_stack, returned, data, announced, prod, CRC>>

----------------------------------------------------------------------------
\* short_string_io: a byte with the length goes before the string
ShortString(name, s) ==
  \/ ~IsParsing /\ ConstructString(name, s, Len(s) < 2^ByteBits, <<Len(s)>> \o s)
  \/ mode = "parse_text" /\ ParseTextString(name, 1)
  \/ mode = "parse_binary" /\ IF Aligned(bitpos) /\ Room(1)
                              THEN ParseBinaryString(1, BytesAt(bitpos, 1)[1])
                              ELSE Throw /\ UNCHANGED <<str, CRC>>

\* fixed_string_io: the length is known; of a text it is not asked
FixedString(name, num_chars, s) ==
  \/ ~IsParsing /\ ConstructString(name, s, Len(s) = num_chars, s)
  \/ mode = "parse_text" /\ ParseTextString(name, 0)
  \/ mode = "parse_binary" /\ IF Aligned(bitpos)
                              THEN ParseBinaryString(0, num_chars % 2^ByteBits)
                              ELSE Throw /\ UNCHANGED <<str, CRC>>

----------------------------------------------------------------------------
\* the checksum of the bytes from one position to another
Sum(from, to) == dvb_crc32(BytesAt(from, (to - from) \div ByteBits))

CrcField(val) == [w |-> RegisterBits, size |-> RegisterBits, val |-> val,
                  name |-> "CRC", hint |-> "FORMAT_HINT_DEC"]

\* crc_io in binary parsing mode: the number read is kept, and compared
CheckCrc(started_at) ==
  LET read == NumberOf([i \in 1..RegisterBits |-> data[bitpos + i - 1]]) IN
  /\ UNCHANGED <<mode, prod, unread>>
  /\ \/ /\ I!Read(RegisterBits, RegisterBits, read)
        /\ CRC' = read
        /\ thrown' = (read # NumberOf(Sum(started_at, bitpos)))
        /\ UNCHANGED <<bitlimit, scope_stack, returned, data, announced>>
     \/ I!RefuseRead(RegisterBits) /\ UNCHANGED CRC

ConstructCrc(started_at) ==
  LET sum == NumberOf(Sum(started_at, bitpos)) IN CRC' = sum /\ Uint(CrcField(sum))

crc_io(started_at) ==
  /\ UNCHANGED str
  /\ IF ~(Aligned(started_at) /\ Aligned(bitpos)) THEN Throw /\ UNCHANGED CRC
     ELSE \/ mode = "construct_binary" /\ ConstructCrc(started_at)
          \/ mode = "parse_binary" /\ CheckCrc(started_at)
          \/ mode = "construct_text" /\ Uint(CrcField(CRC)) /\ UNCHANGED CRC
          \/ /\ mode = "parse_text"
             /\ Uint(CrcField(0))
             /\ CRC' = IF thrown' THEN CRC ELSE returned'

\* slip for mutation: the sum is not taken again
FixNothing(started_at, crc_pos) == ~thrown /\ UNCHANGED common

\* crc_late_fix: now that the length is written, the sum is taken again; the
\* number goes where the first one went, and bitpos comes back
FixCrc(started_at, crc_pos) ==
  LET sum == NumberOf(Sum(started_at, crc_pos)) IN
  /\ ~thrown
  /\ CRC' = sum
  /\ thrown' = ~O!Writable(RegisterBits, crc_pos, RegisterBits, bitlimit)
  /\ data' = IF thrown' THEN data ELSE Put(data, crc_pos, RegisterBits, sum)
  /\ bitpos' = IF thrown' THEN crc_pos ELSE bitpos
  /\ UNCHANGED <<mode, bitlimit, scope_stack, returned, announced, prod, unread, str>>

crc_late_fix(started_at, crc_pos) ==
  IF ~(Aligned(started_at) /\ Aligned(bitpos)) THEN Throw /\ UNCHANGED <<str, CRC>>
  ELSE IF mode = "construct_binary" THEN FixCrc(started_at, crc_pos)
  ELSE ~thrown /\ UNCHANGED common
=============================================================================
