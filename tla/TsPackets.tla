----------------------------- MODULE TsPackets -----------------------------
(* What the MPEG-2 transport packets of src/src/merger.cpp (which reads      *)
(* them) and src/src/sec2ts.cpp (which writes them) have in common.  A       *)
(* packet is TSPacketLen bytes: a header of HeaderLen bytes, of which the    *)
(* fields that steer the two programs are kept as record fields, and "body", *)
(* the bytes after it: adaptation field, pointer field, section bytes.       *)
EXTENDS Integers, Sequences

CONSTANTS TSPacketLen,    \* 188
          CCMod           \* 16: the continuity counter has four bits

HeaderLen == 4
PayloadLen == TSPacketLen - HeaderLen

Byte == 0..255
StuffByte == 255          \* padding, and the table id that no section has
AFC_PAYLOAD == 1
AFC_ADAPTATION == 2
AFC_ADAPTATION_AND_PAYLOAD == 3

ASSUME TSAssumption == /\ TSPacketLen \in Nat
                       /\ PayloadLen >= 3
                       /\ TSPacketLen <= 255      \* offsets are uint8_t
                       /\ CCMod \in Nat
                       /\ CCMod >= 2

CC == 0..(CCMod - 1)
NextCC(c) == (c + 1) % CCMod

Packet == [pusi : BOOLEAN, afc : 0..3, cc : CC, body : [1..PayloadLen -> Byte]]

\* section_length, the low 12 bits of bytes 2 and 3, does not count the three
\* bytes up to and including itself
SizeAnnounced(high, low) == ((high * 256 + low) % 4096) + 3
SectionSize(bytes) == SizeAnnounced(bytes[2], bytes[3])

\* a section whose first bytes are all here
HasSection(bytes) == /\ Len(bytes) >= 3
                     /\ bytes[1] # StuffByte
                     /\ Len(bytes) >= SectionSize(bytes)
=============================================================================
