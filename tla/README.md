# A model of mopa

mopa is a C++ library for MPEG-2 program specific information: it cuts PSI
sections out of transport stream packets (`src/src/merger.cpp`), packs sections
into packets (`src/src/sec2ts.cpp`), and describes the layout of sections once
for parsing and construction, in binary and as text (`src/src/io.cpp`,
`src/inc/io.h`).  This directory models the library in TLA+, checks the models
with TLC on small instances and proves some of their properties with TLAPS.

## The system

| component | state it keeps | operations |
|---|---|---|
| `psi_extractor_impl` (merger.cpp) | `state` (wait_start / wait_more), the buffer `data` with `data_len`, the continuity counter `cc`, the callback | `ts_packet`, `on_section_ready`, the constructor with its limit |
| `sec2ts_impl` (sec2ts.cpp) | the packet under construction, `payload_start`/`payload_end`, `pusi`, `cc`, `pid`, two callbacks | `section`, `flush`, `setPID`, `on_adaptation_field`, `on_ts_packet_produced` |
| binary contexts `obCtx`, `ibCtx` (io.h, io.cpp) | `bitpos`, `bitlimit`, a stack of open blocks, the bytes | `uint` and `uint_req` in three widths, `named_block_begin`, `named_block_end`, `block_size_left` |
| text contexts `ocCtx`, `icCtx` (io.cpp) | the same, with the text written or the place in the text read | the same |
| `iox` handles (io.cpp) | a context, owned | four factories, copy, assignment |
| strings, lists, CRC (commontypes) | none of their own | `short_string_io`, `fixed_string_io`, `vector_io`, `crc_io`, `crc_late_fix` |
| CRC-32 (crc.cpp) | a constant table | `dvb_crc32` |
| descriptors, network information section | the fields of the structure | one `io` function each, for the four modes |
| `descriptor_vector` (descriptors.cpp) | pointers to the descriptors it owns | the factory, `io`, copy, assignment, `purge`, destruction |

How they interact.  A client of `sec2ts` gives it sections; the packets come
back through a callback in the middle of `section()` and `flush()`, and a second
callback lets the client put an adaptation field in each.  A `psi_extractor` is
fed packets and calls the client back with each whole section, in the middle of
`ts_packet()`; the client may replace the callback from inside it.  A section
extracted is then parsed through an `iox` object; a section to be packed has
been constructed through one: the `io` function of a structure makes the same calls in
every mode, some of them for strings and checksums that commontypes.cpp makes
of simpler ones, and a descriptor read is one that a factory has made and a
vector owns.  Nothing in the library runs concurrently and
nothing is persisted: what makes it hard is

* packets lost, repeated or damaged between the two sides, and the state that is
  left in the extractor afterwards;
* callbacks in the middle of a call;
* long sequences of legal calls: sections of awkward sizes one after the other,
  adaptation fields of awkward lengths, flushes; blocks nested in blocks whose
  limits contradict each other;
* numbers at their boundaries: a pointer field that just does not fit, a number
  that spans five bytes, a length that does not fit its field;
* loops that end only because of what somebody else does;
* values kept from an earlier call: a `section_length` of the section before, a
  checksum taken before the length it covers is written;
* pointers in structures that the compiler and `std::vector` copy, and exceptions
  in the middle of parsing into them.

What makes each component correct:

* extractor: its buffer is never overrun; what it hands over is one whole
  section each time; it never joins bytes of two sections and never skips a byte
  and goes on; every call returns.
* packetizer: every copy stays inside the packet; a pointer field leads to the
  first byte of a section; every call returns if the client's callback leaves
  room for payload.
* the two together: a queue of sections over a good channel; over a bad one,
  nothing forged, nothing out of order and only the sections hit are missing.
* bit access: a number goes to its own bits and comes back from them.
* construction: limits of nested blocks nest, lengths fit their fields, nothing
  written is overwritten.
* parsing: nothing is read past a block, and a block that ends had the length
  announced.
* text modes: they count the bits of the message the text stands for, and agree
  with the binary modes on every position.
* the modes together: the same calls parse what they have constructed.
* strings, lists, checksums, descriptors and sections: a structure comes back
  from its message and from its text as it was; a section carries the checksum
  of what is sent, and one that was damaged is refused; every list ends.
* descriptor vectors: every descriptor has one owner, and vectors that are copied
  behave like the values they stand for.

## The modules

| module | models | of |
|---|---|---|
| `TsPackets` | the packet layout shared by both sides | merger.cpp, sec2ts.cpp |
| `PsiExtractor` | `psi_extractor_impl` | merger.cpp |
| `SectionReassembly` | what an extractor promises (abstract) | - |
| `Sec2Ts`, `MCSec2Ts` | `sec2ts_impl` | sec2ts.cpp |
| `PsiLink`, `MCPsiLink` | the two, joined by a channel that may lose and repeat | both |
| `SectionLink` | what they promise together: a queue, until the channel fails (abstract) | - |
| `IoBits` | streams of bits and the fields in them | io.h |
| `BitIO`, `MCBitIO` | the byte arithmetic of the `nocheck_` functions | io.h |
| `BinaryOut` | `iox` in binary construction mode | io.cpp |
| `BinaryIn` | `iox` in binary parsing mode | io.cpp |
| `IoText` | texts as tokens; how numbers are written and read | io.cpp |
| `TextOut` | `iox` in text construction mode | io.cpp |
| `TextIn` | `iox` in text parsing mode | io.cpp |
| `IoxParse`, `MCIoxParse` | an object that parses any message or any text | io.cpp |
| `IoxModes`, `MCIoxModes` | the calls that construct, repeated to parse | io.cpp |
| `Iox` | an `iox` object in any of the modes, its factories and its dispatch | io.cpp, io.h |
| `Crc` | `dvb_crc32`, and the division it stands for | crc.cpp |
| `CommonTypes` | strings and checksum fields in the four modes | commontypes.cpp |
| `Descriptors` | the layouts of descriptors, the factory's choice | descriptors.h, descriptors.cpp |
| `NetworkInformation`, `MCNetworkInformation` | sections, lists and descriptors on their way through the modes | NIT.h, descriptors.h, commontypes.h |
| `DescriptorVector`, `MCDescriptorVector` | who owns the descriptors | descriptors.cpp |
| `DescriptorValues` | what a client is to see of them (abstract) | - |
| `PsiExtractorProofs`, `Sec2TsProofs`, `PsiLinkProofs`, `BinaryOutProofs`, `IoxParseProofs`, `IoxModesProofs`, `NetworkInformationProofs`, `DescriptorVectorProofs` | theorems | |

`IoBits` is under all the `iox` modules, `TsPackets` under the transport stream
ones.  `PsiLink` composes `Sec2Ts` and `PsiExtractor`; `IoxModes` composes
`BinaryOut`, `TextOut`, `BinaryIn` and `TextIn`; `IoxParse` the last two.  `Iox` puts
the four behind one object; `CommonTypes` is
built on `Iox` and `Crc`, and `NetworkInformation` makes the calls that
`Descriptors` lists on it.  `DescriptorVector` is the same parse seen from the
heap: what is read does not matter there, only what is made, kept and deleted.

### Extractor (`PsiExtractor`)

The state has the names of merger.cpp.  `data` is the buffer up to the last byte
written, `sec_p` the pointer of the loop at `more_sections`, kept as the number of
bytes consumed, and `data_len` what is between them.  `TsPacket` is `ts_packet`
from its first line to the label; `MoreSections` is one turn of the loop, with a
disjunct for each way out of it: nothing left or stuffing (`NoMoreSections`), a
rest to keep (`KeepRest`, with the `memcpy`), a section over the limit
(`TooLong`), a section nobody waits for (`NoCallback`), and one handed over
(`SectionCompleted`).  `pc` says which of the two runs, so that
`OnSectionReady` may happen between two sections of one packet: that is the
client calling it from its callback.  `section` is what a step hands over.

`memcpy` on overlapping ranges is undefined.  `Moved(order)` gives the outcome of
a copy that walks up and one that walks down; `CopyOrders` says which of them a
build may use.

### Packetizer (`Sec2Ts`)

`payload_start`, `payload_end`, `pusi` and the body of `ts_packet` are those of
sec2ts.cpp.  A call of `section()` starts with `Section`, which does what is done
to the packet that is open, and goes on with `More(n)`, one turn of the loop at
`more`, for an adaptation field of `n` bytes: `AdaptationOnly`, `EndSection`,
`FillPacket`.  `packet` is what a step gives to `on_ts_packet_produced`.
`AdaptationField` is the client's: any length in `AdaLens`, and content that
does not matter to the properties.  `SetPID` and `OnAdaptationField` may come between
two turns of the loop: that is the client calling them from one of its callbacks.

### The link (`PsiLink`)

Both objects, and a channel between them that is not code of the repository: it
keeps the order of packets, and up to `MaxDamage` of them are lost or arrive
twice.  `SectionsAt` says what each call of `section()` may be given; in `MCPsiLink`
sections tell each other apart by their first byte, and the rest of them is
zeros, which is the hardest content, because it looks like a section wherever it
is cut.  `stream` is all that was submitted, end to end, `bounds` where each
section begins in it and `sent` where each packet does; `lost` and `repeated` are the
numbers of the packets that were hit.  These are history, for `DamageIsLocal` to say
which sections may be missing, and for the proofs to say what a buffer holds.

An extractor that waits for a section takes any packet that starts one, whatever
its counter.  A packet that ends in stuffing or in a whole section leaves it
waiting, and when that packet comes again, so do all the sections that start in
it: `InOrder` and `SectionLink` allow this and no more.  `SectionLink` is a queue as
long as nothing was hit; once a packet was lost sections may be missing, once one
was repeated some may come again.  `ImplementsQueue` says the link is that.

### Bits (`IoBits`, `BitIO`)

The other `iox` modules see a message as a function from bit numbers to bits.
`BitIO` is what justifies it: it models the loads, shifts, masks and stores of
the `nocheck_` functions on bytes (with the bit operators of the `Bitwise`
module, which is why nothing is proved of it) and compares them with `Put` and
`Holds`.

### The four modes (`BinaryOut`, `BinaryIn`, `TextOut`, `TextIn`)

One action for a call that succeeds and one for each way a call throws:
`Write`/`RefuseWrite`, `BeginBlock`/`RefuseBegin`,
`EndBlock`/`RefuseLength`/`RefuseEnd`, and so on.  A call that throws leaves the
context as the code does, for example with `bitpos` moved past a length that was
reserved; no call is made after it.  The three overloads are the field `w` of a
call.  A text is a sequence of tokens, a number kept with its digits: `Written`
is what `sprintf` and `write_bin` make of a value, `Value` what `read_uint` makes
of that.  `IoText` has the code's conversions with their quirks: a value of the
upper half of `uint32_t` gets a sign, at which reading stops; letters of
hexadecimal digits lose ten; binary digits are inverted and read as decimal.  The
`0b` after which `read_uint` would take binary digits is written by nobody; texts of
the run `parse` have it.

### One object in any mode (`Iox`)

`iox` keeps one context and hands each call to `ibx`, `obx`, `icx` or `ocx` by the
mode its factory gave it: `Dispatch` chooses the action of `BinaryIn`,
`BinaryOut`, `TextIn` or `TextOut`, which work on the same variables.
`BlockSizeLeft` is `block_size_left` with its wrap past the limit and its answer 0
before a brace.

### Strings and checksums (`CommonTypes`, `Crc`)

A character is a byte.  Those that a text spells with (quote, backslash, line
ends, digits) are constants, so that bytes may be small; an escape has as many
octal digits as a byte needs.  Between the quotes a text is kept character by
character, because what `parse_string` reads must be what `produce_string` wrote.
`ReadChar` is the state machine of `parse_string`; its exceptions are `illegal`.  It
does not miss the name it expects: of a string that has another, the name is read up
to the quote, and `Contents` is what is then left.
The lengths kept in `uint8_t` are taken modulo a byte, and a string that does not
fit leaves `bitpos` where the code does.

`dvb_crc32` is the loop of crc.cpp over a table.  The 256 constants of the code
were compared with the ones `crc_table` computes from 0x04c11db7, and are the same;
the runs use a register of four 4-bit bytes and x^16 + x^12 + x^5 + 1.  `Remainder`
is long division bit by bit, which the table is for, and what `SectionDivides`
compares with.

### Sections (`Descriptors`, `NetworkInformation`)

An `io` function is the sequence of the calls it makes.  `todo` holds those still
to be made and each step makes the first; a list and a descriptor put the calls
of their items before the rest (`VectorIo`, `DescriptorFactory`).  `made` collects the
members read or written.  A client holds a structure, constructs its message,
parses it into a second object, prints that, parses the text into a third and
constructs the message again (`stage` 1 to 5), as `test_nit_table_parsing_1` of
tests/test.cpp does with a recorded one; or the message is hit on its way
(`Deliver`).  `section_length` is a member, and begins as what the object before
has left in it.

Two calls of the code cannot be right in every mode and are excepted by name in
`slips`: the tag of an adaptation field data descriptor, which is not written
(descriptors.h:32), and hexadecimal numbers with letters, which are misread.

### Ownership (`DescriptorVector`)

`heap` says what is at each address, `lists` the pointers in the vectors of each
object: `network_descriptors` first, then the `transport_descriptors` of each
element of `ts_loop`.  The structures around a vector have implicit copies and
destructors, which call the vector's; `std::vector` copies and destroys elements
when it grows (the classes have no move constructor that differs), and assigns
element by element or makes new ones: both are allowed in `Assign` and
`ParseList`.  `ParseDescriptor` makes a descriptor, keeps it and reads it; `throws`
is an exception from its `io`, at which the parse ends and the vectors stay what
they are.  `DescriptorValues` is the same with sequences of contents and no
pointers.

## The runs

| run | checks | bounds |
|---|---|---|
| `extractor` | `TypeOK`, `BufferBound`, `HeldIsUnfinished`, `SectionWellFormed`, `Returns`, `ImplementsReassembly` | packets of 8 bytes, limit 5, bytes 0, 2 and 255, a counter of 2 |
| `extractor_overlap` | refutes `RestCopied` | packets of 9 bytes, both copy orders |
| `sender` | `TypeOK`, `OpenPacketHasRoom`, `PointerInside`, `Returns` | packets of 10 bytes, sections of 3, 4, 5 and 9, adaptation fields of 0 to 6 |
| `link` | `CountersAgree`, `AllDelivered`, `NothingForged`, `InOrder`, `DamageIsLocal`, `ImplementsQueue`, `EventuallyDelivered` | packets of 11 bytes, 3 sections of 3, 4 or 9 bytes, adaptation fields of 0 or 3, a counter of 2, one packet lost or repeated |
| `link_adaptation_only` | refutes `AllDelivered` | packets of 9 bytes, sections of 3, 4 or 7, no loss, a counter of 3, adaptation fields that leave one byte of a packet |
| `bits` | `TypeOK`, `WritesItsField`, `ReadsItsField` | bytes of 7 bits, 5 bytes, every position, size and overload |
| `parse` | `TypeOK`, `LimitsNest`, `ExactlyAsAnnounced`, `TextLimitsNest` | bytes of 2 bits, every message up to 5 bytes, every text up to 4 tokens |
| `modes` | `ModesTypeOK`, `LimitsNest`, `RoundTrip`, `TextRoundTrip`, `TextSimulates`, `LengthFits`, `WrittenStays` | bytes of 2 bits, 7 calls, 3 blocks open at once |
| `hints` | refutes `HintsKeepNumbers` | the same, hexadecimal numbers |
| `sections` | `TypeOK`, `ConstructsWhatFits`, `RoundTrip`, `SameMessage`, `SectionDivides`, `DamageRefused`, `WorkIsBounded` | bytes of 4 bits, a buffer of 60, sections of at most 45, two bursts at every bit |
| `section_too_long` | refutes `NothingTooLong` | the same |
| `descriptors` | `OwnedOnce`, `ImplementsValues` | 2 objects with up to 3 vectors, 5 addresses, 2 contents |

Why the bounds are enough to show something:

* A packet of 8 to 11 bytes still has every layout a packet of 188 has: no
  adaptation field, one that leaves two bytes, one, or none; a pointer field
  before the first byte, in the middle, to the last byte and past it; two
  sections in a packet and a section over three packets.  The theorems are for
  every length up to 255.
* The bytes 0, 2 and 255 of the extractor's input are, at each place, a length
  that ends a section at once, a length that leaves it unfinished or over the
  limit, and stuffing.
* The link loses or repeats one packet with a counter that counts two.  With as
  many lost in a row as the counter counts, bytes of two sections are joined: 16
  packets in the code.  `NothingForged` and the others are claims below that, and
  `link` is at that edge.  Three sections of 3 to 9 bytes in packets with room for
  3 to 6 are enough for one that is whole, one hit and one after it, over packets
  shared by two of them, and for a packet that holds two sections and comes twice.
* A byte of two bits makes `uint32_t` eight bits: offsets within a byte, numbers
  that span five bytes (`Spans`), lengths of one and of two bits and numbers of
  the upper half all occur in a message of five bytes.  Seven calls are what it
  takes to have a block whose inner length is reserved past its limit and
  closed.  `bits` uses bytes of seven bits because TLC's integers have 32.
* `TextBits` is 14 in `modes`, a little more than the buffer, so that a text meets
  its limit.
* `sections` scales a section down bit by bit and not byte by byte: with bytes of
  four bits, `Bits` gives each width of the code another, so that every structure
  consists of whole bytes, as many as it has in the code.  Only the two `reserved`
  numbers of two bits, which become four, make a section a byte longer each; no
  property speaks of the number of bytes.  A length then counts to 15, where the code's
  count to 255 or 4095, and
  strings of 14, 15 and 16 characters, lists of services longer than 15 bytes, and
  sections at the end of the buffer are few members away.  The limit of 45 bytes
  is met by sections of two descriptors; a `section_length` left over is 0 or 46.
  The alphabet has 16 characters: digits, quote, backslash, a line end, letters
  and some that are not printed, each in a string.
* `DamageRefused` is a claim about the messages and bursts of that run (a single
  bit, and three within four, at each bit of each section): a checksum cannot
  refuse everything, least of all where the damage moves its place.  The register
  and the polynomial are half as wide as those of the code.
* Two objects are what a copy or an assignment is between, with one vector of the
  network and two of the loop; five addresses let an object of two descriptors be
  copied while a third is made.  Contents and addresses are interchangeable, so
  the run uses symmetry.

`CHECK_DEADLOCK FALSE` is said of the `iox` runs and of the sections only: there the
client runs out of calls, or a call has thrown.

### Fairness

* `WF(MoreSections)` of the extractor: `ts_packet` is a call; what is inside it
  goes on until it returns.
* `WF(\E n : EndSection(n) \/ FillPacket(n))` of the packetizer: `section()` is a
  call, and the client's adaptation callback does not leave every packet without
  room for payload.  The code does not enforce the second; a callback that never
  leaves two bytes keeps `section()` in its loop (sec2ts.cpp:168-180).
* The link adds `WF(Deliver)`: the channel delivers what it does not lose.  Nothing
  makes the client submit or flush, so `EventuallyDelivered` excepts a packet
  that is still open.

The other specifications have no fairness: their clients need not make the next
call.  That a parser ends, which is about the loops inside one call, is stated
without time instead: `WorkIsBounded` limits what it has made, the tests of its
loops included, by the bits it has read, and these by those of the message.

### What the runs found

* `extractor_overlap`: `memcpy(data, sec_p, data_len)` (merger.cpp:259) has
  overlapping ranges whenever more is left than was consumed.  A copy that walks
  down leaves other bytes than the packet's.  The other runs of the extractor
  assume one that walks up.
* `link_adaptation_only`: when the client's adaptation field leaves less than two
  bytes, a packet goes out without payload, and the next one has the same counter
  (sec2ts.cpp:177, "no cc increment when no data").  The extractor takes the
  counter of every packet it accepts, with payload or without (merger.cpp:162 and
  171), and wants the next packet's to be one more (166).  In the run the packet
  without payload comes first: it says that a section starts in it
  (`fix_header(true, ...)`, sec2ts.cpp:173), and the byte that the field leaves is
  a zero, which a waiting extractor takes for a pointer field; nothing is appended,
  and it waits for more.  The packet after that has the section, and is dropped for
  its counter.
* `hints`: a hexadecimal number with letters is read back as another one
  (`read_hex`, io.cpp:131 and 137).

* `section_too_long`: NIT.h:58-60 compares `section_length` with its limit before
  the section is parsed, when the member still holds what the use before has left
  in it; the length just read is never compared.  A section over the limit is
  accepted, and an object that holds a large number refuses every section.

Other places where code and documentation disagree are in the models as the code
has them:

* inc/io.h:708 promises an exception for a value that exceeds its size; the binary
  mode writes it, and the bits that do not fit are or-ed into those before the
  field, back to the last byte border (`WritesItsField`);
* `uint32_t` numbers of any size load and store four bytes, so near the end of a
  message the code uses bytes behind it, though within `bitlimit`, of which
  inc/io.h:148 says that it protects against overruns;
* missing braces of a text are not missed, a block of a text may hold more or
  less than announced, and a text's length is not compared with the bits meant
  for it;
* `%d` gives large numbers a sign, and binary digits are written inverted;
* an adaptation field data descriptor does not write its tag, which the vector
  around it reads (descriptors.h:32);
* the text of an extended event has no name, which `produce_string` reads
  (descriptors.h:119): no text of one can be constructed.

## The proofs

| module | theorems |
|---|---|
| `PsiExtractorProofs` | `IInvAlways`, `TypeCorrect`, `BufferNeverOverrun`, `SectionsWellFormed`, `HeldUnfinished`, `ExtractorReassembles` |
| `Sec2TsProofs` | `IInvAlways`, `TypeCorrect`, `OpenPacketAlwaysHasRoom`, `PointersInside` |
| `PsiLinkProofs` | `LinkInvariant`, `LinkCounters`, `LinkDelivers`, `LinkForgesNothing`, `LinkDamageIsLocal`, `LinkInSequence`, `LinkIsQueue` |
| `IoxParseProofs` | `TypeCorrect`, `LimitsAlwaysNest`, `BlocksAreAsAnnounced`, `TextLimitsAlwaysNest`, `ParsesAsBinaryIn` |
| `BinaryOutProofs` | `LimitsAlwaysNest`, `LengthsFit`, `WhatIsWrittenStays`, `TypeCorrect` |
| `IoxModesProofs` | `TextAlwaysSimulates`, `ConstructsAsBinaryOut`, `BinaryRoundTrip`, `TextIsReadBack`, `ModesTypeCorrect` |
| `NetworkInformationProofs` | `TableDivides`, `ChecksumDivides`, `SectionsDivide`, `WorkAlwaysBounded` |
| `DescriptorVectorProofs` | `OwnedAlways`, `ValuesImplemented` |

They hold for every value of the constants that the modules' assumptions allow:
packets of up to 255 bytes with a whole number of counter values, any section
limit from 2 up, any size of byte, any set of calls.

*Extractor.*  `BufferBound` is not inductive: `ts_packet` appends a packet to what
an earlier one left, and never tests the room.  `IInv` adds that between packets
what is held begins at the start of the buffer and, when more is waited for, is
no longer than `MaxSectionSize`; `KeepRest` is the step that makes it true, since
a section that was announced to be longer has been refused and one whose length
is not known has two bytes at most.  `RequestedSize >= 2` is needed there, and is
assumed.  `HeldUnfinished` and `ExtractorReassembles` have the further assumption
that `memcpy` copies upwards (`CopyOrders = {"ascending"}`).  The refinement has
one lemma for each kind of step: `NoMoreSections`, `TooLong` and `NoCallback` are
`Lose`, a packet is `Join`, `Extend` or `Lose`, `KeepRest` is an `Extend` by
nothing because the bytes held stay the same, and `SectionCompleted` is
`HandOver`.

*Packetizer.*  `PointerInside` speaks of packets that are sent; most of their
bytes were put there by an earlier call.  `IInv` adds what the open packet
already says: an adaptation field announces the payload's place
(`AdaptationInPlace`) and a pointer field leads to a byte already there
(`PointerInPlace`).

*The link.*  None of the link's properties speaks of what is inside a packet or a
buffer, and all of them depend on it.  `LinkInv` says it in terms of one number, the
place in `stream`: `Reads` and `Holds` say that bytes are those of the stream from one
place to another, and `Points` that a pointer field leads to the first section that
starts there.  Its parts are

* `StreamInv`: the sections submitted, end to end, are the stream;
* `PacketsInv`: packets divide the stream, and each carries something;
* `SenderInv`: what is in the open packet and what is still to be packed are the end
  of the stream, and a pointer field is there exactly if a section starts;
* `ChannelInv`: packet `p` on its way carries `sent[p]` to `sent[p + 1]` and has the
  counter `(p - 1) % CCMod`;
* `ReceiverInv`: an extractor in the middle of something holds the stream from the
  start of a section to the end of the packet `u` it took last (`At(u, m)`); every
  packet since has been lost; and each section up to there, unless it was hit, has
  been received or is the one it is in;
* `ReceivedInv`: what was received, and where the last of it ended.

`StuffedPacket`, `PointedPacket` and `ExtendedPacket` show that the packetizer's moves
keep `Holds`, with the pointer field put in front of bytes written long before;
`WriteAppends`, `ReadsJoin` and `ReadsMoved` are about the copies.  On the extractor's
side the counter is the crux: `CountersDiffer` and `CounterTells` show that with fewer
packets hit than the counter counts, a packet has the counter expected only if it is
the very next one, so that two pieces are joined only if they follow on each other
(`NothingForged`); a packet that does not fit is dropped, and a section that is lost
by it has a byte in a packet hit or in the one after (`DamageIsLocal`).
`LinkIsQueue` maps every step to one of `SectionLink`: `Submit`, the end of a section
to `Receive` or `ReceiveDespiteFaults`, a loss or a repetition to `Fault`, and all
others to none.  The hypotheses are

* `RoomForPayload`: no adaptation field leaves less than two bytes, which
  sec2ts.cpp leaves to the client; what happens otherwise is the run
  `link_adaptation_only`;
* `FewDamaged`: fewer packets are hit than the counter counts, 16 in the code; the
  argument needs it only of those lost in a row;
* for `LinkInSequence` only, `Numbered`: sections differ in their first byte,
  without which `InOrder` could not tell which was received.

Sections of any content and size up to the limit, packets of any size, any number
of packets under way and any number of counter values are covered; the
instance that TLC checks satisfies all three.

*Binary parsing.*  `ExactlyAsAnnounced` compares what `named_block_end` returns
with a length read many calls before.  The invariant is that the limit in each
open block is where the length read for it says it ends (`LimitsAnnounced`), and
that nothing is read past it (`LimitsNest`).

*Parsing.*  `TextLimitsNest` is inductive with the types of what is read
(`TextInv`); a token's number is assumed to be a natural number
(`TokensAssumption`: `read_uint` returns an unsigned one), because the text that is
given may be anything.  `ParsesAsBinaryIn` carries the theorems of
`BinaryIn` over to the object that has both contexts.

*Binary construction.*  A block may pass its limit, because nobody compares the
room reserved for an inner block's length with it.  That a length nevertheless
fits its field rests on `BlockInOrder`: a block that has passed its limit has an
inner block whose length field is past the limit as well ("doomed"), and which
cannot be ended, because writing that length throws.  `WhatIsWrittenStays` needs
this too: a number too large for its field is or-ed into the bits before it, and a
length that fits has no bit there.  Of the client's numbers the same is a
hypothesis (`NumbersFit`: each has as many bits as the call says), which the code
does not check in binary mode.  `PowersAssumption` says what a power of two is, since the
provers know those of numerals only.  The induction over exponents is that a set of
natural numbers has a least one (`LeastOf`, from the well-foundedness of `<`); it
gives `Powers`, and later `BitsTell`.

*Text construction.*  `TextSimulates` is inductive once the limits are compared:
a text starts with more room than the buffer, and each block it opens has a limit
no less than the message's (`InStep`), so that no number that fits the message is
refused.  That the message is ahead only in throwing is `SimInv`.  `NumbersFit` is a
hypothesis here too, because a text does refuse numbers that are too large.

*Round trip.*  `RoundTrip` compares what a call reads with what a call wrote a whole
message earlier, when neither the place nor the limit of the reading was known.  Its
invariant, `RoundInv`, is a trace: for every call that has succeeded, at which bit it
was made (`pos`), in which block (`par`) and, of a block, which call ended it (`end`).

* `ConstructInv`, while the message is constructed: `NumberAt` says that the number of
  each call is in the buffer from `pos` on, `LengthAt` that the length of each block
  that has been ended is in its field and is that of what lies between its calls;
  the blocks still open are a `Chain` in the trace, one for each element of
  `scope_stack`.
* `RepeatInv`, while it is parsed: after `j` calls the parser is at `pos[j + 1]`, its
  blocks are the chain of that call, and the limit of each of them is where the
  call that ended it was made.

A number only harms what is behind it if it is too large, so a call leaves what
the calls before it have written (`CallsKept`); the length that
`named_block_end` writes lies in a field that nobody else has (`LengthInside`,
`OthersKept`).  The message passed on is the bits of the buffer up to the whole byte
(`TracedBits`).  `BitsTell` and `ReadOnce` say that a field of bits holds one number, so
that what is read is what was written.  `NumbersFit` is the hypothesis again.

*Text round trip.*  `TextRoundTrip` says of a text what `RoundTrip` says of a message,
except that what is not `Legible` (a binary hint, a hexadecimal digit above 9, a
decimal number of 2^31 or more) excuses all that follows.  A text has no place of
its own for a call: the length of a block is inserted before tokens written since,
and moves them.  So `TextInv` adds to the trace `at`, the token each call is at.

* `SpellInv`, while the text is constructed: the text consists of the calls' tokens in
  their order (`Spelt`), a block's length included once the block has ended, and the
  place that an open block keeps for its length is right behind its brace
  (`Placed`); `Inserted` is what the insertion moves.
* `FollowInv`, while it is parsed: what is unread is the text from `at[j]` on (`Rest`),
  and bits and blocks are those of the trace, as in `RepeatInv`.

The text is constructed together with the message, so its bits are the message's
(`SimInv`), and what is in the message is in the text.  A length is always legible:
it is less than the bits of the buffer (`InsideBuffer`), of which there are fewer
than 2^31 (`ShortLengths`), so `%d` gives it no sign.  `ReadsWritten` and `ReadsLength`
say that the digits written are read as the same number; since the provers cannot
do an induction over the definition of `Digits`, `ShowsAll` and `SpellsAll` show that
such functions exist by the least number for which they would not, and
`DigitsSpell` does the same for what they spell.

*Types of the modes.*  `ModesTypeOK` is about all four contexts at once, and none
of them can be left out: a parser's limits are within the buffer because the
message it is given is (`WholeInside`: a block that has stepped over its limit
cannot end, so a message without open blocks is within the buffer), and what a
text parser returns is a number because the constructor has written digits
(`Natural`).  A text's limits must nest for its blocks' limits to have their type
(`TextNests`).  `IoxParseProofs` is used as an instance: the message parser's part
is its invariant, `IP!IInv`.  No `NumbersFit` is needed here.

*Checksums.*  What `dvb_crc32` computes is a recursive function over the bytes, so
facts about it are shown by the induction that natural numbers have a least one
(`UpTo`, and `Iterated` and `IteratedOnce` for functions that take a step each time).
`TableDivides` rests on linearity: the register after eight divisions is the one
shifted, together with what its top byte alone would leave, and that is what the
table holds (`DividedTogether`, `OwnByteShifts`).  `ChecksumDivides` follows: a byte
that is the register's own top byte only shifts it, so four of them leave nothing.
The width of a byte and the polynomial may be any.

*Sections.*  `SectionDivides` speaks of the end of a construction first; the checksum
it is about was put there calls earlier, and once more after the length in front of it
had changed.  `ChecksumInv` says which call it is the turn of (`AtCall`): up to
`crc_io` calls of any kind may come, lists and strings of any length among them
(`Led`: calls that have nothing to do with the checksum lead up to those that
close the section); from there on the calls are known one by one.  `crc_late_fix`
finds the checksum at an aligned place (`SumPut`), puts 32 bits there, and leaves the
bits before it (`FixDivides`), so what is computed is the checksum of what is sent.
The property speaks of a parser as well: what it accepts as a section divides,
whatever has become of the message.  `ReceiveInv` follows the same calls there
(`AtReceived`): the number `crc_io` reads is that of the checksum of the bytes from
`nit_begin` on, and two registers of one number are the same bits (`SpelledBits`), so
what was read so far divides (`SumDivides`); `named_block_end`, which is one of the
calls that follow, moves nothing.  That a call never goes back, which keeps
`nit_begin` before the checksum, comes with the work of a parser (`WorksOn`).
Its assumptions are the layouts of the code and that a member of a structure is a
number or a string as its type says (`HoldsNumber`, `HoldsString`).

*Work of a parser.*  `WorkIsBounded` is not inductive: a loop makes a member for its
test and reads nothing for that.  `Working` adds that the calls still to be made
can be paid (`Affords`): there is, between any two of them, an amount of bits read
that nothing has been made for (`Purse`), and each call costs what it makes less
what it reads (`Pays`).  The first test of a loop is paid by the length of the block
around it, and each later one by the item before it, which reads a byte at least;
a string of unknown data comes after the length that says it is not empty (`Known`).
This is a property of every layout (`LayoutsAfford`), so it would fail for a structure
that repeats an item with nothing in it, or a list outside a block.  A number wider
than four bytes less seven bits counts as nothing read: spread over five bytes it
is read as 0, and the position stays (io.cpp, and `Read` of `BinaryIn`).  `Bits[8] =
ByteBits` is assumed, for the length
of unknown data is a number and that of a string a byte.

*Descriptor vectors.*  `OwnedOnce` is inductive with `TypeOK` (`IInv`), but a step
cannot be seen to keep it by looking at one place: a copy makes many descriptors,
and `std::vector` moves a whole loop.  Every operation is therefore shown to be an
instance of one notion, `Replaces`: an object gets other vectors, distinct in all
their places, whose pointers were free or its own, and what it has no more is
free afterwards.  `StaysOnce` then says that ownership is kept, and `OthersKept`
that no other object shows anything else, which is what the refinement of
`DescriptorValues` needs; the lemmas about `First`, `Loop`, `Dup` and `\o` say which place
of the new vectors holds which pointer.  An assignment to itself replaces the
vectors by themselves.

What is only model-checked: liveness (`Returns` of both sides,
`EventuallyDelivered`), which is out of the prover's reach altogether; `BitIO`, whose
bit operators are as well; and of sections `TypeOK`, `ConstructsWhatFits`,
`RoundTrip`, `SameMessage` and `DamageRefused`.  What fits depends on the objects that
are given, and which damage is refused on the polynomial: a burst that it divides is
not found, so `DamageRefused` has no proof for every polynomial.  The round trips of a
section would have to be followed through strings, lists and the factory's choice,
as `RoundTrip` of `IoxModes` is through numbers and blocks.

## Assumptions about the client

`psi_extractor::create` is given 2 or more; `on_ts_packet_produced` is called before
the first section; `section`, `flush` and `ts_packet` are not called again from inside
themselves (the other operations may be called from a callback); each `named_block_end`
of a construction has its
`named_block_begin`; lengths have at most as many bits as keep a block within
`uint32_t` bits; no call is made on a context after one of its calls has thrown;
`new` does not fail.

## What is not modelled

Debug output, exception texts and the white space of texts have no effect on
what the properties speak of.  The test program and build files are not part of
the library.  Exceptions of `new` are handled nowhere in the library.
`ibx::uint16` is reached by no call of `iox`.  A context copied in the middle of a
message is not modelled: nothing in the library makes one, and the copies of
`iox` that the factories return are assignments of a new context (`Iox`).

Planned, in this order:

1. Proofs: that a section comes back from its message.
2. A link with two PIDs, for `setPID` while a packet is open.
3. Handles: copies of an `iox` object in the middle of a message, as a client
   might make them.
4. A run for the documented exceptions that text mode does not throw
   (inc/io.h:768 and 778), and for the length of a block in a text (io.cpp:577).
