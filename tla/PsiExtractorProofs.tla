------------------------- MODULE PsiExtractorProofs -------------------------
(* What PsiExtractor does for every packet size, every size limit and every  *)
(* packet that can be fed to it.                                             *)
EXTENDS PsiExtractor, SequenceTheorems, TLAPS

\* the part of a sequence that starts at m and ends at n
LEMMA SubSeqOfBytes ==
  ASSUME NEW s \in Seq(Byte), NEW m \in Int, NEW n \in Int,
         1 <= m, n <= Len(s)
  PROVE  /\ SubSeq(s, m, n) \in Seq(Byte)
         /\ Len(SubSeq(s, m, n)) = IF m <= n THEN n - m + 1 ELSE 0
         /\ \A i \in 1..(n - m + 1) : SubSeq(s, m, n)[i] = s[m + i - 1]
<1>1. Len(s) \in Nat /\ \A i \in m..n : s[i] \in Byte
  BY LenProperties, ElementOfSeq
<1>2. QED BY <1>1, SubSeqProperties

\* the announced size of a section is at least the three bytes that announce it
LEMMA SizeAnnouncedRange ==
  \A high, low \in Byte : SizeAnnounced(high, low) \in Nat \ {0, 1, 2}
<1>1. \A x, y \in 0..255 : x * 256 + y \in Nat
  OBVIOUS
<1>2. QED BY <1>1 DEF Byte, SizeAnnounced

LEMMA SectionSizeRange ==
  ASSUME NEW s \in Seq(Byte), Len(s) >= 3
  PROVE  SectionSize(s) \in Nat \ {0, 1, 2}
<1>1. Len(s) \in Nat /\ \A i \in 1..Len(s) : s[i] \in Byte
  BY LenProperties, ElementOfSeq
<1>2. s[2] \in Byte /\ s[3] \in Byte
  BY <1>1
<1>3. QED BY <1>2, SizeAnnouncedRange, Zenon DEF SectionSize

\* cutting a sequence after its length field leaves the size it announces
LEMMA SectionSizeOfPrefix ==
  ASSUME NEW s \in Seq(Byte), NEW n \in 3..Len(s)
  PROVE  /\ SectionSize(SubSeq(s, 1, n)) = SectionSize(s)
         /\ SubSeq(s, 1, n)[1] = s[1]
<1>1. Len(s) \in Nat
  BY LenProperties
<1>2. \A i \in 1..n : SubSeq(s, 1, n)[i] = s[i]
  BY <1>1, SubSeqOfBytes
<1>3. QED BY <1>1, <1>2 DEF SectionSize

\* A packet's payload, after the adaptation field and the pointer, is made of
\* bytes of the packet and is no longer than the packet
LEMMA PayloadOfPacket ==
  ASSUME NEW pkt \in Packet, PayloadInside(pkt)
  PROVE  /\ Payload(pkt) \in Seq(Byte)
         /\ Len(Payload(pkt)) \in 0..PayloadLen
<1>1. PayloadLen \in Nat /\ PayloadLen >= 3
  BY TSAssumption DEF PayloadLen, HeaderLen
<1>2. pkt.body \in [1..PayloadLen -> Byte] /\ pkt.pusi \in BOOLEAN
  BY DEF Packet
<1>3. AdaptLen(pkt) \in Nat /\ AdaptLen(pkt) <= PayloadLen
  <2>1. pkt.body[1] \in Byte
    BY <1>1, <1>2
  <2>2. \A x \in Byte : 1 + x \in Nat
    BY DEF Byte
  <2>3. QED BY <2>1, <2>2 DEF AdaptLen, PayloadInside
<1>4. PtrLen(pkt) \in Nat /\ AdaptLen(pkt) + PtrLen(pkt) <= PayloadLen
  <2>1. CASE pkt.pusi
    <3>1. AdaptLen(pkt) + 1 \in 1..PayloadLen
      BY <1>1, <1>3, <2>1 DEF PayloadInside
    <3>2. pkt.body[AdaptLen(pkt) + 1] \in Byte
      BY <1>2, <3>1
    <3>3. \A x \in Byte : 1 + x \in Nat
      BY DEF Byte
    <3>4. QED BY <2>1, <3>2, <3>3 DEF PtrLen, PayloadInside
  <2>2. CASE ~pkt.pusi
    BY <2>2 DEF PtrLen, PayloadInside
  <2>3. QED BY <1>2, <2>1, <2>2
<1>5. DEFINE skip == AdaptLen(pkt) + PtrLen(pkt)
<1>6. skip \in Nat /\ skip <= PayloadLen
  BY <1>1, <1>3, <1>4
<1>7. \A i \in (skip + 1)..PayloadLen : pkt.body[i] \in Byte
  BY <1>1, <1>2, <1>6
<1>8. /\ SubSeq(pkt.body, skip + 1, PayloadLen) \in Seq(Byte)
      /\ Len(SubSeq(pkt.body, skip + 1, PayloadLen))
           = IF skip + 1 <= PayloadLen THEN PayloadLen - (skip + 1) + 1 ELSE 0
  BY <1>1, <1>6, <1>7, SubSeqProperties
<1>9. QED BY <1>1, <1>6, <1>8 DEF Payload

LEMMA Sizes == /\ PayloadLen \in Nat /\ PayloadLen >= 3
               /\ MaxSectionSize \in Nat /\ MaxSectionSize >= 2
<1>1. PayloadLen \in Nat /\ PayloadLen >= 3
  BY TSAssumption DEF PayloadLen, HeaderLen
<1>2. MaxSectionSize \in Nat /\ MaxSectionSize >= 2
  BY ExtractorAssumption DEF MaxSectionSize
<1>3. QED BY <1>1, <1>2

LEMMA InputIsPacket ==
  ASSUME NEW pkt \in InputPackets
  PROVE  pkt \in Packet
BY ExtractorAssumption DEF InputPackets, Packet

LEMMA Counters == /\ 0 \in CC
                  /\ \A c \in CC : NextCC(c) \in CC
<1>1. CCMod \in Nat /\ CCMod >= 2
  BY TSAssumption
<1>2. QED BY <1>1 DEF CC, NextCC

\* what the loop has not consumed yet
LEMMA RestProperties ==
  ASSUME TypeOK
  PROVE  /\ Rest \in Seq(Byte)
         /\ Len(Rest) = data_len
         /\ data_len \in 0..Len(data)
         /\ SizeKnown => SectionSize(Rest) \in Nat \ {0, 1, 2}
<1>1. data \in Seq(Byte) /\ Len(data) \in Nat /\ sec_p \in 0..Len(data)
  BY LenProperties DEF TypeOK
<1>2. data_len \in 0..Len(data)
  BY <1>1 DEF data_len
<1>3. Rest \in Seq(Byte) /\ Len(Rest) = data_len
  BY <1>1, SubSeqOfBytes DEF Rest, data_len
<1>4. SizeKnown => SectionSize(Rest) \in Nat \ {0, 1, 2}
  BY <1>3, SectionSizeRange DEF SizeKnown
<1>5. QED BY <1>2, <1>3, <1>4

\* memcpy moves as many bytes as are left, in whatever order it walks
LEMMA MovedProperties ==
  ASSUME TypeOK, NEW order
  PROVE  Moved(order) \in Seq(Byte) /\ Len(Moved(order)) = data_len
<1>1. /\ data \in Seq(Byte) /\ Len(data) \in Nat /\ sec_p \in 0..Len(data)
      /\ \A i \in 1..Len(data) : data[i] \in Byte
  BY LenProperties, ElementOfSeq DEF TypeOK
<1>2. CASE order = "ascending" \/ sec_p = 0
  BY <1>2, RestProperties DEF Moved
<1>3. CASE ~(order = "ascending" \/ sec_p = 0)
  <2>1. data_len \in Nat /\ sec_p \in Nat /\ sec_p > 0 /\ Len(data) = data_len + sec_p
    BY <1>1, <1>3 DEF data_len
  <2>2. \A i \in 1..data_len : Len(data) - ((data_len - i) % sec_p) \in 1..Len(data)
    <3>1. \A k, m \in Nat : m > 0 => k % m \in 0..(m - 1)
      OBVIOUS
    <3>2. \A i \in 1..data_len : (data_len - i) % sec_p \in 0..(sec_p - 1)
      BY <2>1, <3>1
    <3>3. QED BY <2>1, <3>2
  <2>3. \A i \in 1..data_len : data[Len(data) - ((data_len - i) % sec_p)] \in Byte
    BY <1>1, <2>2
  <2>4. Moved(order) = [i \in 1..data_len |-> data[Len(data) - ((data_len - i) % sec_p)]]
    BY <1>3 DEF Moved
  <2>5. QED BY <2>1, <2>3, <2>4
<1>4. QED BY <1>2, <1>3

\* a reset leaves no more bytes in the buffer than there were
LEMMA ResetProperties ==
  ASSUME TypeOK, Reset
  PROVE  /\ TypeOK'
         /\ Len(data') <= Len(data)
         /\ state' = "wait_start" /\ sec_p' = 0 /\ pc' = "idle"
         /\ section' = <<>>
<1>1. /\ data \in Seq(Byte) /\ Len(data) \in Nat
      /\ data_len \in 0..Len(data)
  BY LenProperties, RestProperties DEF TypeOK
<1>2. data' = SubSeq(data, 1, data_len)
  BY DEF Reset, Return
<1>3. data' \in Seq(Byte) /\ Len(data') = data_len
  BY <1>1, <1>2, SubSeqOfBytes
<1>4. QED BY <1>1, <1>3, EmptySeq DEF TypeOK, Reset, Return

LEMMA InitIInv == ASSUME Init PROVE IInv
<1>1. <<>> \in Seq(Byte) /\ Len(<<>>) = 0
  BY EmptySeq
<1>2. TypeOK
  <2>1. 0 \in 0..0
    OBVIOUS
  <2>2. QED BY <1>1, <2>1, Counters, Zenon DEF Init, TypeOK
<1>3. BufferBound
  BY <1>1, Sizes DEF Init, BufferBound
<1>4. QED BY <1>2, <1>3 DEF Init, IInv

LEMMA SectionCompletedIInv ==
  ASSUME IInv, SectionCompleted
  PROVE  IInv'
<1>1. /\ Rest \in Seq(Byte) /\ Len(Rest) = data_len /\ data_len \in 0..Len(data)
      /\ SectionSize(Rest) \in Nat \ {0, 1, 2}
      /\ data \in Seq(Byte) /\ Len(data) \in Nat /\ sec_p \in 0..Len(data)
  BY RestProperties, LenProperties DEF IInv, TypeOK, SectionCompleted, Complete
<1>2. section' \in Seq(Byte)
  <2>1. SectionSize(Rest) <= Len(Rest)
    BY <1>1 DEF SectionCompleted, Complete
  <2>2. SubSeq(Rest, 1, SectionSize(Rest)) \in Seq(Byte)
    BY <1>1, <2>1, SubSeqOfBytes
  <2>3. QED BY <2>2 DEF SectionCompleted
<1>3. CASE data_len > Consumed
  <2>1. sec_p' \in 0..Len(data)
    BY <1>1, <1>3 DEF SectionCompleted, Consumed, data_len
  <2>2. UNCHANGED <<state, data, cc, callback, pc>> /\ pc = "more_sections"
    BY <1>3 DEF SectionCompleted
  <2>3. QED BY <1>2, <2>1, <2>2 DEF IInv, TypeOK, BufferBound
<1>4. CASE ~(data_len > Consumed)
  <2>1. Return("wait_start", <<>>)
    BY <1>4 DEF SectionCompleted
  <2>2. <<>> \in Seq(Byte) /\ Len(<<>>) = 0
    BY EmptySeq
  <2>3. QED BY <1>2, <2>1, <2>2, Sizes DEF Return, IInv, TypeOK, BufferBound
<1>5. QED BY <1>3, <1>4

LEMMA KeepRestIInv ==
  ASSUME IInv, KeepRest
  PROVE  IInv'
<1>1. PICK order \in CopyOrders : Return("wait_more", Moved(order))
  BY DEF KeepRest
<1>2. /\ Moved(order) \in Seq(Byte) /\ Len(Moved(order)) = data_len
      /\ data_len \in Nat
      /\ SizeKnown => SectionSize(Rest) \in Nat
  BY MovedProperties, RestProperties, LenProperties DEF IInv, TypeOK
<1>3. data_len <= MaxSectionSize
  <2>1. CASE SizeKnown
    BY <1>2, <2>1, Sizes DEF KeepRest
  <2>2. CASE ~SizeKnown
    BY <1>2, <2>2, Sizes DEF KeepRest, SizeKnown
  <2>3. QED BY <2>1, <2>2
<1>4. TypeOK' /\ pc' = "idle" /\ sec_p' = 0 /\ Len(data') = data_len
  BY <1>1, <1>2, EmptySeq DEF Return, IInv, TypeOK, KeepRest
<1>5. QED BY <1>2, <1>3, <1>4, Sizes DEF IInv, BufferBound

LEMMA AppendPayloadIInv ==
  ASSUME IInv, NEW pkt \in Packet, AppendPayload(pkt)
  PROVE  IInv'
<1>1. /\ Held \in Seq(Byte) /\ Len(Held) \in Nat
      /\ Len(Held) <= MaxSectionSize
  <2>1. data \in Seq(Byte) /\ state \in {"wait_start", "wait_more"} /\ Len(data) \in Nat
    BY LenProperties DEF IInv, TypeOK
  <2>2. CASE state = "wait_start"
    BY <2>2, EmptySeq, Sizes DEF Held
  <2>3. CASE state = "wait_more"
    BY <2>1, <2>3 DEF Held, IInv, AppendPayload
  <2>4. QED BY <2>1, <2>2, <2>3
<1>2. /\ Payload(pkt) \in Seq(Byte)
      /\ Len(Payload(pkt)) \in 0..PayloadLen
  BY PayloadOfPacket DEF AppendPayload
<1>3. /\ data' \in Seq(Byte)
      /\ Len(data') = Len(Held) + Len(Payload(pkt))
  BY <1>1, <1>2, ConcatProperties DEF AppendPayload
<1>4. Len(data') <= MaxSectionSize + PayloadLen /\ Len(data') \in Nat
  BY <1>1, <1>2, <1>3, Sizes
<1>5. sec_p' = 0 /\ pc' = "more_sections"
  BY DEF AppendPayload, IInv
<1>6. TypeOK'
  <2>1. cc' \in CC
    BY DEF AppendPayload, Packet
  <2>2. QED BY <1>3, <1>4, <1>5, <2>1, EmptySeq DEF AppendPayload, IInv, TypeOK
<1>7. QED BY <1>4, <1>5, <1>6 DEF IInv, BufferBound

LEMMA NextIInv ==
  ASSUME IInv, [Next]_vars
  PROVE  IInv'
<1>1. ASSUME NEW set \in BOOLEAN, OnSectionReady(set) PROVE IInv'
  BY <1>1, EmptySeq DEF OnSectionReady, IInv, TypeOK, BufferBound
<1>2. ASSUME NEW pkt \in InputPackets, NotAccepted(pkt) PROVE IInv'
  BY <1>2, EmptySeq DEF NotAccepted, IInv, TypeOK, BufferBound
<1>3. ASSUME NEW pkt \in InputPackets, NoPayload(pkt) PROVE IInv'
  <2>1. Held \in Seq(Byte) /\ Len(Held) \in Nat /\ (Held = data \/ Len(Held) = 0)
    BY EmptySeq, LenProperties DEF Held, IInv, TypeOK
  <2>2. pkt.cc \in CC
    BY InputIsPacket DEF Packet
  <2>3. sec_p = 0
    BY <1>3 DEF NoPayload, IInv
  <2>4. QED BY <1>3, <2>1, <2>2, <2>3, EmptySeq, Sizes
            DEF NoPayload, IInv, TypeOK, BufferBound
<1>4. ASSUME NEW pkt \in InputPackets, AppendPayload(pkt) PROVE IInv'
  BY <1>4, InputIsPacket, AppendPayloadIInv
<1>5. ASSUME Reset PROVE IInv'
  <2>1. /\ TypeOK' /\ Len(data') <= Len(data) /\ sec_p' = 0
        /\ pc' = "idle" /\ state' = "wait_start"
    BY <1>5, ResetProperties DEF IInv
  <2>2. Len(data) \in Nat /\ Len(data') \in Nat
    BY <2>1, LenProperties DEF IInv, TypeOK
  <2>3. QED BY <2>1, <2>2, Sizes DEF IInv, BufferBound
<1>6. CASE KeepRest
  BY <1>6, KeepRestIInv
<1>7. CASE SectionCompleted
  BY <1>7, SectionCompletedIInv
<1>8. CASE UNCHANGED vars
  BY <1>8 DEF vars, IInv, TypeOK, BufferBound
<1>9. QED
  BY <1>1, <1>2, <1>3, <1>4, <1>5, <1>6, <1>7, <1>8
     DEF Next, TsPacket, MoreSections, NoMoreSections, TooLong, NoCallback

\* The invariant that explains the size of the buffer
THEOREM IInvAlways == Spec => []IInv
<1>1. Init => IInv
  BY InitIInv
<1>2. IInv /\ [Next]_vars => IInv'
  BY NextIInv
<1>3. QED BY <1>1, <1>2, PTL DEF Spec

\* Every variable keeps its type whatever the packets hold
THEOREM TypeCorrect == Spec => []TypeOK
<1>1. IInv => TypeOK
  BY DEF IInv
<1>2. QED BY <1>1, IInvAlways, PTL

\* No packet is ever appended past the end of the buffer that the constructor
\* allocated: max_section_size + 184 bytes are enough for every limit of at
\* least two bytes, every packet and every order of the memcpys
THEOREM BufferNeverOverrun == Spec => []BufferBound
<1>1. IInv => BufferBound
  BY DEF IInv
<1>2. QED BY <1>1, IInvAlways, PTL

----------------------------------------------------------------------------
(* What the client is handed *)

LEMMA SectionCompletedWellFormed ==
  ASSUME TypeOK, SectionCompleted
  PROVE  SectionWellFormed'
<1>1. /\ Rest \in Seq(Byte) /\ Len(Rest) \in Nat
      /\ SectionSize(Rest) \in Nat \ {0, 1, 2}
      /\ SectionSize(Rest) <= Len(Rest)
      /\ SectionSize(Rest) <= MaxSectionSize
      /\ Rest[1] # StuffByte
  BY RestProperties, LenProperties
     DEF SectionCompleted, Complete, SizeKnown, EndsHere
<1>2. section' = SubSeq(Rest, 1, SectionSize(Rest))
  BY DEF SectionCompleted
<1>3. Len(section') = SectionSize(Rest)
  BY <1>1, <1>2, SubSeqOfBytes
<1>4. SectionSize(section') = SectionSize(Rest) /\ section'[1] = Rest[1]
  <2>1. SectionSize(Rest) \in 3..Len(Rest)
    BY <1>1
  <2>2. QED BY <1>1, <1>2, <2>1, SectionSizeOfPrefix
<1>5. QED BY <1>1, <1>3, <1>4 DEF SectionWellFormed, HasSection

LEMMA QuietStep ==
  ASSUME IInv, Next, ~SectionCompleted
  PROVE  section' = <<>>
BY DEF Next, OnSectionReady, TsPacket, NotAccepted, NoPayload, AppendPayload,
       MoreSections, NoMoreSections, KeepRest, TooLong, NoCallback, Reset

\* The client is only ever handed whole sections, each of the size its own
\* length field announces and none longer than the limit
THEOREM SectionsWellFormed == Spec => []SectionWellFormed
<1>1. Init => SectionWellFormed
  BY DEF Init, SectionWellFormed
<1>2. IInv /\ SectionWellFormed /\ [Next]_vars => SectionWellFormed'
  <2>1. ASSUME IInv, SectionCompleted PROVE SectionWellFormed'
    BY <2>1, SectionCompletedWellFormed DEF IInv
  <2>2. ASSUME IInv, Next, ~SectionCompleted PROVE SectionWellFormed'
    BY <2>2, QuietStep DEF SectionWellFormed
  <2>3. ASSUME SectionWellFormed, UNCHANGED vars PROVE SectionWellFormed'
    BY <2>3 DEF SectionWellFormed, vars
  <2>4. QED BY <2>1, <2>2, <2>3
<1>3. QED BY <1>1, <1>2, IInvAlways, PTL DEF Spec

LEMMA KeepRestUnfinished ==
  ASSUME IInv, CopyOrders \subseteq {"ascending"}, KeepRest
  PROVE  HeldIsUnfinished' /\ data' = Rest
<1>1. PICK order \in CopyOrders : Return("wait_more", Moved(order))
  BY DEF KeepRest
<1>2. data' = Rest /\ sec_p' = 0
  BY <1>1 DEF Moved, Return
<1>3. /\ Rest \in Seq(Byte) /\ Len(Rest) = data_len /\ data_len \in Nat
      /\ SizeKnown => SectionSize(Rest) \in Nat
  BY RestProperties, LenProperties DEF IInv, TypeOK
<1>4. /\ Len(Rest) > 0 => Rest[1] # StuffByte
      /\ Len(Rest) >= 3 => SizeKnown
  BY <1>3 DEF KeepRest, EndsHere, SizeKnown
<1>5. QED BY <1>2, <1>3, <1>4 DEF HeldIsUnfinished, KeepRest

\* Whole sections are never held back: given a memcpy that moves overlapping
\* bytes down correctly, what waits for more is one unfinished section
THEOREM HeldUnfinished ==
  ASSUME CopyOrders \subseteq {"ascending"}
  PROVE  Spec => []HeldIsUnfinished
<1>1. Init => HeldIsUnfinished
  BY DEF Init, HeldIsUnfinished
<1>2. IInv /\ HeldIsUnfinished /\ [Next]_vars => HeldIsUnfinished'
  <2> SUFFICES ASSUME IInv, HeldIsUnfinished, [Next]_vars
               PROVE  HeldIsUnfinished'
    OBVIOUS
  <2>1. CASE KeepRest
    BY <2>1, KeepRestUnfinished
  <2>2. ASSUME Reset PROVE HeldIsUnfinished'
    BY <2>2 DEF Reset, Return, HeldIsUnfinished
  <2>3. CASE SectionCompleted
    BY <2>3 DEF SectionCompleted, Return, HeldIsUnfinished
  <2>4. ASSUME NEW pkt \in InputPackets, TsPacket(pkt) PROVE HeldIsUnfinished'
    BY <2>4 DEF TsPacket, NotAccepted, NoPayload, AppendPayload, HeldIsUnfinished
  <2>5. ASSUME NEW set \in BOOLEAN, OnSectionReady(set) PROVE HeldIsUnfinished'
    BY <2>5 DEF OnSectionReady, HeldIsUnfinished
  <2>6. CASE UNCHANGED vars
    BY <2>6 DEF vars, HeldIsUnfinished
  <2>7. QED
    BY <2>1, <2>2, <2>3, <2>4, <2>5, <2>6
       DEF Next, MoreSections, NoMoreSections, TooLong, NoCallback
<1>3. QED BY <1>1, <1>2, IInvAlways, PTL DEF Spec

----------------------------------------------------------------------------
(* PsiExtractor implements SectionReassembly *)

\* the bytes SectionReassembly speaks of
Pending == IF InStep THEN Rest ELSE <<>>

LEMMA SameSizes ==
  ASSUME NEW s
  PROVE  /\ Reassembly!SectionSize(s) = SectionSize(s)
         /\ Reassembly!HasSection(s) <=> HasSection(s)
         /\ Reassembly!Byte = Byte
BY DEF Reassembly!SectionSize, Reassembly!SizeAnnounced, SectionSize,
       SizeAnnounced, Reassembly!HasSection, HasSection,
       Reassembly!StuffByte, StuffByte, Reassembly!Byte, Byte

\* a step that leaves the stream forgets all it held
LEMMA LoseStep ==
  ASSUME ~InStep', section' = <<>>
  PROVE  Reassembly!Next
BY DEF Reassembly!Next, Reassembly!Lose

\* a step that stays in the stream adds to the end of what it held
LEMMA ExtendStep ==
  ASSUME NEW kept \in Seq(Byte), NEW more \in Seq(Byte),
         InStep, InStep', Rest = kept, Rest' = kept \o more, section' = <<>>
  PROVE  Reassembly!Next
<1>1. /\ kept \o more \in Seq(Byte)
      /\ Len(kept \o more) = Len(kept) + Len(more)
      /\ Len(kept) \in Nat /\ Len(more) \in Nat
  BY ConcatProperties, LenProperties
<1>2. kept = SubSeq(kept \o more, 1, Len(kept))
  <2>1. \A i \in 1..Len(kept) : (kept \o more)[i] = kept[i]
    BY <1>1, ConcatProperties
  <2>2. /\ SubSeq(kept \o more, 1, Len(kept)) \in Seq(Byte)
        /\ Len(SubSeq(kept \o more, 1, Len(kept))) = Len(kept)
        /\ \A i \in 1..Len(kept) :
             SubSeq(kept \o more, 1, Len(kept))[i] = (kept \o more)[i]
    BY <1>1, SubSeqOfBytes
  <2>3. QED BY <2>1, <2>2, SeqEqual
<1>3. Len(kept) \in 0..Len(kept \o more)
  BY <1>1
<1>4. QED BY <1>1, <1>2, <1>3, SameSizes DEF Reassembly!Next, Reassembly!Extend

\* consuming k bytes of what is left after p
LEMMA TailOfTail ==
  ASSUME NEW s \in Seq(Byte), NEW p \in Nat, NEW k \in Nat, p + k < Len(s)
  PROVE  SubSeq(SubSeq(s, p + 1, Len(s)), k + 1, Len(s) - p)
           = SubSeq(s, p + k + 1, Len(s))
<1>1. Len(s) \in Nat
  BY LenProperties
<1>2. \A n \in Nat : p + k < n =>
        /\ p + 1 \in 1..n /\ n \in 1..n
        /\ k + 1 \in 1..(n - (p + 1) + 1) /\ n - p \in 1..(n - (p + 1) + 1)
        /\ (p + 1) + (k + 1) - 1 = p + k + 1
        /\ (p + 1) + (n - p) - 1 = n
  OBVIOUS
<1>3. /\ p + 1 \in 1..Len(s) /\ Len(s) \in 1..Len(s)
      /\ k + 1 \in 1..(Len(s) - (p + 1) + 1)
      /\ Len(s) - p \in 1..(Len(s) - (p + 1) + 1)
      /\ (p + 1) + (k + 1) - 1 = p + k + 1
      /\ (p + 1) + (Len(s) - p) - 1 = Len(s)
  BY <1>1, <1>2
<1>4. SubSeq(SubSeq(s, p + 1, Len(s)), k + 1, Len(s) - p)
        = SubSeq(s, (p + 1) + (k + 1) - 1, (p + 1) + (Len(s) - p) - 1)
  BY <1>3, SubSeqOfSubSeq
<1>5. QED BY <1>3, <1>4

LEMMA HandOverStep ==
  ASSUME TypeOK, SectionCompleted
  PROVE  Reassembly!Next
<1>1. /\ Rest \in Seq(Byte) /\ Len(Rest) \in Nat
      /\ Len(Rest) = data_len
      /\ SectionSize(Rest) \in Nat \ {0, 1, 2}
      /\ SectionSize(Rest) <= Len(Rest)
      /\ SectionSize(Rest) <= MaxSectionSize
      /\ Rest[1] # StuffByte
      /\ data \in Seq(Byte) /\ Len(data) \in Nat /\ sec_p \in 0..Len(data)
  BY RestProperties, LenProperties
     DEF SectionCompleted, Complete, SizeKnown, EndsHere, TypeOK
<1>2. InStep /\ HasSection(Rest)
  BY <1>1 DEF InStep, SectionCompleted, HasSection
<1>3. /\ (IF InStep' THEN Rest' ELSE <<>>)
           = SubSeq(Rest, SectionSize(Rest) + 1, Len(Rest))
      /\ InStep' <=> (IF InStep' THEN Rest' ELSE <<>>) # <<>>
  <2>1. CASE data_len > Consumed
    <3>1. /\ sec_p' = sec_p + SectionSize(Rest) /\ data' = data
          /\ pc' = "more_sections" /\ InStep'
      BY <2>1 DEF SectionCompleted, Consumed, InStep
    <3>2. Rest' = SubSeq(data, sec_p + SectionSize(Rest) + 1, Len(data))
      BY <3>1 DEF Rest
    <3>3. SubSeq(SubSeq(data, sec_p + 1, Len(data)), SectionSize(Rest) + 1, Len(Rest))
            = SubSeq(data, sec_p + SectionSize(Rest) + 1, Len(data))
      <4>1. /\ sec_p \in Nat /\ sec_p + SectionSize(Rest) < Len(data)
            /\ Len(Rest) = Len(data) - sec_p
        BY <1>1, <2>1 DEF data_len, Consumed
      <4>2. QED BY <1>1, <4>1, TailOfTail
    <3>4. Len(Rest') > 0
      <4>1. /\ Len(data) - (sec_p + SectionSize(Rest) + 1) + 1 > 0
            /\ 1 <= sec_p + SectionSize(Rest) + 1
            /\ sec_p + SectionSize(Rest) + 1 \in Int
        BY <1>1, <2>1 DEF data_len, Consumed
      <4>2. QED BY <1>1, <3>2, <4>1, SubSeqOfBytes
    <3>5. Rest' # <<>>
      BY <3>4, EmptySeq
    <3>6. QED BY <3>1, <3>2, <3>3, <3>5 DEF Rest
  <2>2. CASE ~(data_len > Consumed)
    <3>1. ~InStep'
      BY <2>2 DEF SectionCompleted, Return, InStep
    <3>2. SectionSize(Rest) = Len(Rest)
      BY <1>1, <2>2 DEF Consumed
    <3>3. SubSeq(Rest, SectionSize(Rest) + 1, Len(Rest)) = <<>>
      BY <1>1, <3>2, SubSeqEmpty
    <3>4. QED BY <3>1, <3>3
  <2>3. QED BY <2>1, <2>2
<1>4. section' = SubSeq(Rest, 1, SectionSize(Rest))
  BY DEF SectionCompleted
<1>5. Reassembly!HasSection(Rest) /\ Reassembly!SectionSize(Rest) = SectionSize(Rest)
  BY <1>2, SameSizes
<1>6. InStep' = ((IF InStep' THEN Rest' ELSE <<>>) # <<>>)
  BY <1>3 DEF InStep
<1>7. QED
  BY <1>1, <1>2, <1>3, <1>4, <1>5, <1>6 DEF Reassembly!Next, Reassembly!HandOver

\* Every step of the extractor is a step of the abstract reassembly: with a
\* memcpy that moves overlapping bytes correctly, no byte of a section is
\* altered, skipped or taken from elsewhere
THEOREM ExtractorReassembles ==
  ASSUME CopyOrders \subseteq {"ascending"}
  PROVE  Spec => ImplementsReassembly
<1>1. Init => Reassembly!Init
  BY DEF Init, Reassembly!Init, InStep
<1>2. IInv /\ [Next]_vars => [Reassembly!Next]_Reassembly!vars
  <2> SUFFICES ASSUME IInv, [Next]_vars
               PROVE  [Reassembly!Next]_Reassembly!vars
    OBVIOUS
  <2> USE DEF Return, InStep
  <2>0. Rest \in Seq(Byte) /\ data \in Seq(Byte) /\ <<>> \in Seq(Byte)
    BY RestProperties, EmptySeq DEF IInv, TypeOK
  <2>1. ASSUME NEW set \in BOOLEAN, OnSectionReady(set) PROVE Reassembly!Next
    <3>1. CASE InStep
      <4>1. InStep' /\ Rest' = Rest /\ Rest = Rest \o <<>> /\ section' = <<>>
        BY <2>0, <2>1, <3>1, ConcatEmptySeq DEF OnSectionReady, Rest
      <4>2. QED BY <2>0, <3>1, <4>1, ExtendStep
    <3>2. CASE ~InStep
      BY <2>1, <3>2, LoseStep DEF OnSectionReady
    <3>3. QED BY <3>1, <3>2
  <2>2. ASSUME NEW pkt \in InputPackets, NotAccepted(pkt) PROVE Reassembly!Next
    BY <2>2, LoseStep DEF NotAccepted
  <2>3. ASSUME NEW pkt \in InputPackets, NoPayload(pkt) PROVE Reassembly!Next
    BY <2>3, LoseStep DEF NoPayload
  <2>4. ASSUME NEW pkt \in InputPackets, AppendPayload(pkt) PROVE Reassembly!Next
    <3>1. Payload(pkt) \in Seq(Byte) /\ pkt \in Packet
      BY <2>4, InputIsPacket, PayloadOfPacket DEF AppendPayload
    <3>2. IInv'
      BY <2>4, InputIsPacket, AppendPayloadIInv
    <3>3. /\ sec_p = 0 /\ sec_p' = 0 /\ data' \in Seq(Byte)
          /\ pc' = "more_sections" /\ section' = <<>> /\ pc = "idle"
      BY <2>4, <3>2 DEF AppendPayload, IInv, TypeOK
    <3>4. Rest' = data' /\ Rest = data
      BY <2>0, <3>3, SubSeqFull DEF Rest
    <3>5. CASE state = "wait_start"
      BY <3>3, <3>4, <3>5, SameSizes DEF Reassembly!Next, Reassembly!Join
    <3>6. CASE state = "wait_more"
      <4>1. data' = data \o Payload(pkt)
        BY <2>4, <3>6 DEF AppendPayload, Held
      <4>2. QED BY <2>0, <3>1, <3>3, <3>4, <3>6, <4>1, ExtendStep
    <3>7. QED BY <3>5, <3>6 DEF IInv, TypeOK
  <2>5. ASSUME Reset PROVE Reassembly!Next
    BY <2>5, LoseStep DEF Reset
  <2>6. CASE KeepRest
    <3>1. data' = Rest
      BY <2>6, KeepRestUnfinished
    <3>2. sec_p' = 0 /\ state' = "wait_more" /\ section' = <<>> /\ pc = "more_sections"
      BY <2>6 DEF KeepRest
    <3>3. Rest' = Rest /\ Rest = Rest \o <<>>
      BY <2>0, <3>1, <3>2, SubSeqFull, ConcatEmptySeq DEF Rest
    <3>4. QED BY <2>0, <3>2, <3>3, ExtendStep
  <2>7. CASE SectionCompleted
    BY <2>7, HandOverStep DEF IInv
  <2>8. CASE UNCHANGED vars
    BY <2>8 DEF vars, Reassembly!vars, Rest
  <2>9. QED
    BY <2>1, <2>2, <2>3, <2>4, <2>5, <2>6, <2>7, <2>8
       DEF Next, TsPacket, MoreSections, NoMoreSections, TooLong, NoCallback
<1>3. QED BY <1>1, <1>2, IInvAlways, PTL DEF Spec, ImplementsReassembly, Reassembly!Spec

=============================================================================
