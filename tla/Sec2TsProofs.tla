---------------------------- MODULE Sec2TsProofs ----------------------------
(* What Sec2Ts does for every packet size, every section and every           *)
(* adaptation field.                                                         *)
EXTENDS Sec2Ts, SequenceTheorems, TLAPS

Body == [1..PayloadLen -> Byte]

LEMMA PacketSizes == /\ TSPacketLen \in Nat /\ TSPacketLen <= 255
                     /\ PayloadLen = TSPacketLen - 4 /\ PayloadLen >= 3
                     /\ PayloadLen \in Nat /\ HeaderLen = 4
BY TSAssumption DEF PayloadLen, HeaderLen

LEMMA Counters == /\ 0 \in CC
                  /\ \A c \in CC : NextCC(c) \in CC
<1>1. CCMod \in Nat /\ CCMod >= 2
  BY TSAssumption
<1>2. QED BY <1>1 DEF CC, NextCC

\* what a copy writes, and what it leaves alone
LEMMA WriteProperties ==
  ASSUME NEW body \in Body, NEW to \in Int, NEW bytes \in Seq(Byte)
  PROVE  /\ Write(body, to, bytes) \in Body
         /\ \A i \in 1..PayloadLen :
              /\ i + 4 - to \in 1..Len(bytes) =>
                   Write(body, to, bytes)[i] = bytes[i + 4 - to]
              /\ i + 4 - to < 1 => Write(body, to, bytes)[i] = body[i]
<1>1. /\ HeaderLen = 4 /\ PayloadLen \in Nat
      /\ Len(bytes) \in Nat /\ \A j \in 1..Len(bytes) : bytes[j] \in Byte
      /\ \A i \in 1..PayloadLen : body[i] \in Byte
  BY PacketSizes, LenProperties, ElementOfSeq DEF Body
<1>2. Write(body, to, bytes)
        = [i \in 1..PayloadLen |-> IF i + 4 - to \in 1..Len(bytes)
                                   THEN bytes[i + 4 - to] ELSE body[i]]
  BY <1>1 DEF Write
<1>3. \A i \in 1..PayloadLen :
        (IF i + 4 - to \in 1..Len(bytes) THEN bytes[i + 4 - to] ELSE body[i]) \in Byte
  BY <1>1
<1>4. \A i \in 1..PayloadLen : i + 4 - to < 1 => i + 4 - to \notin 1..Len(bytes)
  BY <1>1
<1>5. QED BY <1>2, <1>3, <1>4 DEF Body

LEMMA BytesProperties ==
  /\ StuffByte \in Byte /\ 0 \in Byte
  /\ <<StuffByte>> \in Seq(Byte) /\ <<0>> \in Seq(Byte) /\ <<>> \in Seq(Byte)
  /\ \A n \in Nat : Stuffing(n) \in Seq(Byte) /\ Len(Stuffing(n)) = n
<1>1. StuffByte \in Byte /\ 0 \in Byte
  BY DEF StuffByte, Byte
<1>2. \A n \in Nat : Stuffing(n) \in Seq(Byte) /\ Len(Stuffing(n)) = n
  BY <1>1 DEF Stuffing
<1>3. QED BY <1>1, <1>2, EmptySeq

LEMMA PartOfSection ==
  ASSUME NEW s \in Seq(Byte), NEW n \in Int, 0 <= n, n <= Len(s)
  PROVE  SubSeq(s, 1, n) \in Seq(Byte) /\ SubSeq(s, n + 1, Len(s)) \in Seq(Byte)
<1>1. Len(s) \in Nat /\ \A i \in 1..Len(s) : s[i] \in Byte
  BY LenProperties, ElementOfSeq
<1>2. QED BY <1>1, SubSeqProperties

\* the field the adaptation callback writes
LEMMA AdaptationFieldProperties ==
  ASSUME NEW n \in 0..PayloadLen
  PROVE  /\ AdaptationField(n) \in Seq(Byte)
         /\ Len(AdaptationField(n)) = n
         /\ n > 0 => AdaptationField(n)[1] = n - 1
<1>1. CASE n = 0
  BY <1>1, BytesProperties, EmptySeq DEF AdaptationField
<1>2. CASE n # 0
  <2>1. n - 1 \in Byte /\ n - 1 \in Nat /\ n \in Nat
    BY <1>2, PacketSizes DEF Byte
  <2>2. Stuffing(n - 1) \in Seq(Byte) /\ Len(Stuffing(n - 1)) = n - 1
    BY <2>1, BytesProperties
  <2>3. <<n - 1>> \in Seq(Byte) /\ Len(<<n - 1>>) = 1 /\ <<n - 1>>[1] = n - 1
    BY <2>1
  <2>4. AdaptationField(n) = <<n - 1>> \o Stuffing(n - 1)
    BY <1>2 DEF AdaptationField
  <2>5. QED BY <2>1, <2>2, <2>3, <2>4, ConcatProperties
<1>3. QED BY <1>1, <1>2

----------------------------------------------------------------------------
\* the open packet with its pointer field: at least a byte is left after it
LEMMA PointedProperties ==
  ASSUME IInv, Open, ~NoRoomForPointer
  PROVE  /\ Pointed \in Body
         /\ PointedEnd \in (payload_start + 1)..(TSPacketLen - 1)
         /\ payload_start \in 4..TSPacketLen
         /\ payload_start > 4 => Pointed[1] = payload_start - 5
         /\ payload_start + 1 + Pointed[payload_start - 3] <= PointedEnd
<1>1. /\ payload_start \in 4..TSPacketLen /\ payload_end \in payload_start..(TSPacketLen - 1)
      /\ payload_start > 4 => ts_packet[1] = payload_start - 5
      /\ ts_packet \in Body
      /\ pusi => payload_start + 1 + ts_packet[payload_start - 3] <= payload_end
  BY PacketSizes
     DEF IInv, TypeOK, OpenPacketHasRoom, AdaptationInPlace, PointerInPlace, Open, Body
<1>2. payload_start - 3 \in 1..PayloadLen /\ 1 \in 1..PayloadLen
  BY <1>1, PacketSizes
<1>3. CASE pusi
  <2>1. ts_packet[payload_start - 3] \in Byte
    BY <1>1, <1>2 DEF Body
  <2>2. \A x \in Byte : x \in Nat
    BY DEF Byte
  <2>3. ts_packet[payload_start - 3] \in Nat
    BY <2>1, <2>2
  <2>4. payload_start + 1 <= payload_end
    BY <1>1, <1>3, <2>3
  <2>5. Pointed = ts_packet /\ PointedEnd = payload_end
    BY <1>3 DEF Pointed, PointedEnd
  <2>6. QED BY <1>1, <1>3, <2>4, <2>5, PacketSizes
<1>4. CASE ~pusi
  <2>1. payload_end < TSPacketLen - 1
    BY <1>1, <1>4, PacketSizes DEF NoRoomForPointer
  <2>2. Leftover \in Seq(Byte) /\ Len(Leftover) = payload_end - payload_start
    <3>1. \A i \in (payload_start - 3)..(payload_end - 4) : ts_packet[i] \in Byte
      BY <1>1, <2>1, PacketSizes DEF Body
    <3>2. Leftover = SubSeq(ts_packet, payload_start - 3, payload_end - 4)
      BY <1>1, PacketSizes DEF Leftover
    <3>3. /\ SubSeq(ts_packet, payload_start - 3, payload_end - 4) \in Seq(Byte)
          /\ Len(SubSeq(ts_packet, payload_start - 3, payload_end - 4))
               = IF payload_start - 3 <= payload_end - 4
                 THEN (payload_end - 4) - (payload_start - 3) + 1 ELSE 0
      BY <1>1, <3>1, PacketSizes, SubSeqProperties
    <3>4. QED BY <1>1, <3>2, <3>3, PacketSizes
  <2>3. Len(Leftover) \in Byte
    BY <1>1, <2>1, <2>2, PacketSizes DEF Byte
  <2>4. DEFINE moved == <<Len(Leftover)>> \o Leftover
  <2>5. <<Len(Leftover)>> \in Seq(Byte) /\ Len(<<Len(Leftover)>>) = 1
    BY <2>3
  <2>6. /\ moved \in Seq(Byte) /\ Len(moved) = 1 + Len(Leftover)
        /\ Len(Leftover) \in Nat
        /\ moved[1] = Len(Leftover)
    <3>1. Len(Leftover) \in Nat
      BY <2>2, LenProperties
    <3>2. QED BY <2>2, <2>5, <3>1, ConcatProperties
  <2>7. Pointed = Write(ts_packet, payload_start, moved) /\ PointedEnd = payload_end + 1
    BY <1>4 DEF Pointed, PointedEnd
  <2>8. HIDE DEF moved
  <2>9. Pointed \in Body
    BY <1>1, <2>6, <2>7, WriteProperties
  <2>10. Pointed[payload_start - 3] = Len(Leftover)
    <3>1. (payload_start - 3) + 4 - payload_start = 1 /\ 1 \in 1..Len(moved)
      BY <1>1, <2>6, PacketSizes
    <3>2. QED BY <1>1, <1>2, <2>6, <2>7, <3>1, WriteProperties
  <2>11. payload_start > 4 => Pointed[1] = payload_start - 5
    <3>1. payload_start > 4 => 1 + 4 - payload_start < 1
      BY <1>1, PacketSizes
    <3>2. QED BY <1>1, <1>2, <2>6, <2>7, <3>1, WriteProperties
  <2>12. QED BY <1>1, <2>1, <2>2, <2>7, <2>9, <2>10, <2>11, PacketSizes
<1>5. QED BY <1>3, <1>4

\* copying section bytes after the pointer field disturbs neither it nor the
\* adaptation field
LEMMA CopiedProperties ==
  ASSUME NEW body \in Body, NEW start \in 4..TSPacketLen,
         NEW to \in (start + 1)..(TSPacketLen - 1), NEW bytes \in Seq(Byte)
  PROVE  /\ Write(body, to, bytes) \in Body
         /\ start > 4 => Write(body, to, bytes)[1] = body[1]
         /\ Write(body, to, bytes)[start - 3] = body[start - 3]
<1>1. /\ 1 \in 1..PayloadLen /\ start - 3 \in 1..PayloadLen /\ to \in Int
      /\ start > 4 => 1 + 4 - to < 1
      /\ (start - 3) + 4 - to < 1
  BY PacketSizes
<1>2. QED BY <1>1, WriteProperties

\* the new packet after its adaptation field and, if the section starts
\* here, its pointer field
LEMMA StartedProperties ==
  ASSUME IInv, NEW n \in 0..PayloadLen, PayloadLen - n > 1
  PROVE  /\ Started(n) \in Body
         /\ StartedEnd(n) \in (4 + n)..(5 + n)
         /\ n > 0 => Started(n)[1] = n - 1
         /\ ~wrote_section_start => Started(n)[n + 1] = 0 /\ StartedEnd(n) = 5 + n
<1>1. ts_packet \in Body
  BY DEF IInv, TypeOK, Body
<1>2. DEFINE field == AdaptationField(n)
             pointer == IF wrote_section_start THEN <<>> ELSE <<0>>
             bytes == field \o pointer
<1>3. /\ pointer \in Seq(Byte) /\ Len(pointer) \in Nat
      /\ ~wrote_section_start => Len(pointer) = 1 /\ pointer[1] = 0
  BY BytesProperties, EmptySeq, LenProperties
<1>4. field \in Seq(Byte) /\ Len(field) = n /\ (n > 0 => field[1] = n - 1) /\ n \in Nat
  BY AdaptationFieldProperties, PacketSizes
<1>5. HIDE DEF field, pointer
<1>6. /\ bytes \in Seq(Byte) /\ Len(bytes) = n + Len(pointer)
      /\ n > 0 => bytes[1] = n - 1
      /\ ~wrote_section_start => bytes[n + 1] = 0
  <2>1. /\ bytes \in Seq(Byte) /\ Len(bytes) = n + Len(pointer)
        /\ \A i \in 1..(n + Len(pointer)) :
             bytes[i] = IF i <= n THEN field[i] ELSE pointer[i - n]
    BY <1>3, <1>4, ConcatProperties
  <2>2. n > 0 => 1 \in 1..(n + Len(pointer)) /\ 1 <= n
    BY <1>3, <1>4
  <2>3. ~wrote_section_start =>
          n + 1 \in 1..(n + Len(pointer)) /\ ~(n + 1 <= n) /\ n + 1 - n = 1
    BY <1>3, <1>4
  <2>4. QED BY <1>3, <1>4, <2>1, <2>2, <2>3
<1>7. Started(n) = Write(ts_packet, 4, bytes)
  BY PacketSizes DEF Started, field, pointer
<1>8. /\ n > 0 => 1 + 4 - 4 \in 1..Len(bytes) /\ 1 + 4 - 4 = 1
      /\ ~wrote_section_start => (n + 1) + 4 - 4 \in 1..Len(bytes) /\ (n + 1) + 4 - 4 = n + 1
      /\ 1 \in 1..PayloadLen /\ n + 1 \in 1..PayloadLen
  BY <1>3, <1>4, <1>6, PacketSizes
<1>9. HIDE DEF bytes
<1>10. /\ Started(n) \in Body
       /\ n > 0 => Started(n)[1] = n - 1
       /\ ~wrote_section_start => Started(n)[n + 1] = 0
  BY <1>1, <1>6, <1>7, <1>8, WriteProperties
<1>11. StartedEnd(n) \in (4 + n)..(5 + n) /\ (~wrote_section_start => StartedEnd(n) = 5 + n)
  BY <1>4, PacketSizes DEF StartedEnd
<1>12. QED BY <1>10, <1>11

----------------------------------------------------------------------------
(* the inductive invariant *)

LEMMA InitIInv == ASSUME Init PROVE IInv
<1>1. [i \in 1..PayloadLen |-> 0] \in [1..PayloadLen -> Byte]
  BY BytesProperties
<1>2. 0 \in 0..TSPacketLen
  BY PacketSizes
<1>3. TypeOK
  BY <1>1, <1>2, Counters, BytesProperties DEF Init, TypeOK
<1>4. QED
  BY <1>3 DEF Init, IInv, OpenPacketHasRoom, AdaptationInPlace, PointerInPlace, Open

\* a packet that goes out leaves none open
LEMMA ClosedIInv ==
  ASSUME IInv, Close, ts_packet' \in Body, payload_end' \in 0..TSPacketLen,
         sender_cc' \in CC, pid' = pid, adaptation' = adaptation,
         rest' \in Seq(Byte), sender_pc' \in {"idle", "more"},
         wrote_section_start' \in BOOLEAN
  PROVE  IInv'
<1>1. payload_start' = 0 /\ pusi' = FALSE /\ 0 \in 0..TSPacketLen
  BY PacketSizes DEF Close
<1>2. TypeOK'
  BY <1>1 DEF IInv, TypeOK, Body
<1>3. QED
  BY <1>1, <1>2
     DEF IInv, OpenPacketHasRoom, AdaptationInPlace, PointerInPlace, Open

LEMMA CountedType ==
  ASSUME IInv, CountPacket
  PROVE  sender_cc' \in CC
BY Counters DEF IInv, TypeOK, CountPacket

\* the bytes left over are bytes of the section
LEMMA ContinueType ==
  ASSUME NEW left \in Seq(Byte), Continue(left)
  PROVE  /\ rest' \in Seq(Byte)
         /\ sender_pc' \in {"idle", "more"}
         /\ wrote_section_start' \in BOOLEAN
BY DEF Continue

LEMMA AddToOpenPacketIInv ==
  ASSUME IInv, NEW s \in Seq(Byte), AddToOpenPacket(s)
  PROVE  IInv'
<1>1. /\ Pointed \in Body
      /\ PointedEnd \in (payload_start + 1)..(TSPacketLen - 1)
      /\ payload_start \in 4..TSPacketLen
      /\ payload_start > 4 => Pointed[1] = payload_start - 5
      /\ payload_start + 1 + Pointed[payload_start - 3] <= PointedEnd
  BY PointedProperties DEF AddToOpenPacket
<1>2. /\ ts_packet' \in Body
      /\ payload_start > 4 => ts_packet'[1] = payload_start - 5
      /\ ts_packet'[payload_start - 3] = Pointed[payload_start - 3]
  BY <1>1, CopiedProperties DEF AddToOpenPacket
<1>3. /\ payload_end' = PointedEnd + Len(s) /\ Len(s) \in Nat
      /\ payload_end' < TSPacketLen /\ payload_end' \in 0..TSPacketLen
      /\ PointedEnd <= payload_end' /\ payload_start' = payload_start
  BY <1>1, LenProperties, PacketSizes DEF AddToOpenPacket
<1>4. TypeOK'
  BY <1>2, <1>3 DEF AddToOpenPacket, IInv, TypeOK, Body
<1>5. OpenPacketHasRoom'
  BY <1>1, <1>3, PacketSizes DEF AddToOpenPacket, OpenPacketHasRoom
<1>6. AdaptationInPlace' /\ PointerInPlace'
  <2>1. Pointed[payload_start - 3] \in Byte
    BY <1>1, PacketSizes DEF Body
  <2>2. \A x \in Byte : x \in Nat
    BY DEF Byte
  <2>3. /\ payload_start - HeaderLen - 1 = payload_start - 5
        /\ payload_start - HeaderLen + 1 = payload_start - 3
    BY <1>1, PacketSizes
  <2>4. payload_start + 1 + ts_packet'[payload_start - 3] <= payload_end'
    BY <1>1, <1>2, <1>3, <2>1, <2>2, PacketSizes
  <2>5. QED BY <1>2, <1>3, <2>3, <2>4, PacketSizes DEF AdaptationInPlace, PointerInPlace
<1>7. (pusi => Open)'
  BY <1>3 DEF AddToOpenPacket, Open
<1>8. QED BY <1>4, <1>5, <1>6, <1>7 DEF IInv

LEMMA EndSectionIInv ==
  ASSUME IInv, NEW n \in 0..PayloadLen, EndSection(n)
  PROVE  IInv'
<1>1. PayloadLen - n > 1 /\ n \in Nat
  BY PacketSizes DEF EndSection
<1>2. /\ Started(n) \in Body
      /\ StartedEnd(n) \in (4 + n)..(5 + n)
      /\ n > 0 => Started(n)[1] = n - 1
      /\ ~wrote_section_start => Started(n)[n + 1] = 0 /\ StartedEnd(n) = 5 + n
  BY <1>1, StartedProperties
<1>3. rest \in Seq(Byte) /\ Len(rest) \in Nat
  BY LenProperties DEF IInv, TypeOK
<1>4. /\ ts_packet' = Write(Started(n), StartedEnd(n), rest)
      /\ payload_start' = 4 + n
      /\ payload_end' = StartedEnd(n) + Len(rest)
      /\ payload_end' < TSPacketLen
  BY <1>2, <1>3, PacketSizes DEF EndSection
<1>5. /\ ts_packet' \in Body
      /\ n > 0 => ts_packet'[1] = n - 1
      /\ ~wrote_section_start => ts_packet'[n + 1] = 0
  <2>1. /\ StartedEnd(n) \in Int /\ 1 \in 1..PayloadLen /\ n + 1 \in 1..PayloadLen
        /\ n > 0 => 1 + 4 - StartedEnd(n) < 1
        /\ ~wrote_section_start => (n + 1) + 4 - StartedEnd(n) < 1
    BY <1>1, <1>2, PacketSizes
  <2>2. QED BY <1>2, <1>3, <1>4, <2>1, WriteProperties
<1>6. ~pusi
  BY DEF EndSection, Adapts, IInv, OpenPacketHasRoom
<1>7. pusi' = ~wrote_section_start
  BY <1>6 DEF EndSection, IInv, TypeOK
<1>8. sender_pc' = "idle" /\ rest' = <<>> /\ wrote_section_start' = FALSE
  BY DEF EndSection, Continue
<1>9. TypeOK'
  <2>1. payload_start' \in 0..TSPacketLen /\ payload_end' \in 0..TSPacketLen
    BY <1>1, <1>2, <1>3, <1>4, PacketSizes
  <2>2. QED BY <1>5, <1>7, <1>8, <2>1, BytesProperties DEF EndSection, IInv, TypeOK, Body
<1>10. OpenPacketHasRoom'
  BY <1>1, <1>2, <1>3, <1>4, <1>8, PacketSizes DEF OpenPacketHasRoom
<1>11. AdaptationInPlace'
  <2>1. /\ payload_start' > 4 => n > 0
        /\ payload_start' - HeaderLen - 1 = n - 1
    BY <1>1, <1>4, PacketSizes
  <2>2. QED BY <1>5, <2>1, PacketSizes DEF AdaptationInPlace
<1>12. PointerInPlace'
  <2>1. /\ payload_start' - HeaderLen + 1 = n + 1
        /\ ~wrote_section_start => payload_start' + 1 + 0 <= payload_end'
    BY <1>1, <1>2, <1>3, <1>4, PacketSizes
  <2>2. QED BY <1>5, <1>7, <2>1 DEF PointerInPlace
<1>13. (pusi => Open)'
  BY <1>1, <1>4 DEF Open
<1>14. QED BY <1>9, <1>10, <1>11, <1>12, <1>13 DEF IInv

LEMMA NextIInv ==
  ASSUME Sections \subseteq Seq(Byte), IInv, [Next]_vars
  PROVE  IInv'
<1>0. ts_packet \in Body /\ rest \in Seq(Byte) /\ payload_end \in 0..TSPacketLen
  BY DEF IInv, TypeOK, Body
<1>1. ASSUME NEW s \in Sections, NewPacket(s) PROVE IInv'
  BY <1>1 DEF NewPacket, IInv, TypeOK, OpenPacketHasRoom, AdaptationInPlace,
              PointerInPlace, Open
<1>2. ASSUME NEW s \in Sections, PadOpenPacket(s) PROVE IInv'
  <2>1. TSPacketLen - 1 \in Int
    BY PacketSizes
  <2>2. ts_packet' \in Body
    BY <1>0, <1>2, <2>1, BytesProperties, WriteProperties DEF PadOpenPacket
  <2>3. QED BY <1>0, <1>2, <2>2, CountedType, ClosedIInv DEF PadOpenPacket
<1>3. ASSUME NEW s \in Sections, AddToOpenPacket(s) PROVE IInv'
  BY <1>3, AddToOpenPacketIInv
<1>4. ASSUME NEW s \in Sections, FillOpenPacket(s) PROVE IInv'
  <2>1. /\ Pointed \in Body
        /\ PointedEnd \in (payload_start + 1)..(TSPacketLen - 1)
        /\ payload_start \in 4..TSPacketLen
    BY <1>4, PointedProperties DEF FillOpenPacket
  <2>2. DEFINE room == TSPacketLen - PointedEnd
  <2>3. room \in Int /\ 0 <= room /\ room <= Len(s) /\ PointedEnd \in Int
    BY <1>4, <2>1, PacketSizes DEF FillOpenPacket
  <2>4. SubSeq(s, 1, room) \in Seq(Byte) /\ SubSeq(s, room + 1, Len(s)) \in Seq(Byte)
    BY <2>3, PartOfSection
  <2>5. ts_packet' \in Body
    BY <1>4, <2>1, <2>3, <2>4, WriteProperties DEF FillOpenPacket
  <2>6. rest' \in Seq(Byte) /\ sender_pc' \in {"idle", "more"} /\ wrote_section_start' \in BOOLEAN
    BY <1>4, <2>4, ContinueType DEF FillOpenPacket
  <2>7. TSPacketLen \in 0..TSPacketLen
    BY PacketSizes
  <2>8. QED BY <1>4, <2>5, <2>6, <2>7, CountedType, ClosedIInv DEF FillOpenPacket
<1>5. ASSUME NEW n \in 0..PayloadLen, AdaptationOnly(n) PROVE IInv'
  <2>1. HeaderLen \in Int /\ HeaderLen + n \in 0..TSPacketLen
    BY PacketSizes
  <2>2. ts_packet' \in Body
    BY <1>0, <1>5, <2>1, AdaptationFieldProperties, WriteProperties DEF AdaptationOnly
  <2>3. QED BY <1>0, <1>5, <2>1, <2>2, ClosedIInv DEF AdaptationOnly, IInv, TypeOK
<1>6. ASSUME NEW n \in 0..PayloadLen, EndSection(n) PROVE IInv'
  BY <1>6, EndSectionIInv
<1>7. ASSUME NEW n \in 0..PayloadLen, FillPacket(n) PROVE IInv'
  <2>1. PayloadLen - n > 1
    BY <1>7, PacketSizes DEF FillPacket
  <2>2. Started(n) \in Body /\ StartedEnd(n) \in (4 + n)..(5 + n)
    BY <2>1, StartedProperties
  <2>3. DEFINE room == TSPacketLen - StartedEnd(n)
  <2>4. /\ room \in Int /\ 0 <= room /\ StartedEnd(n) \in 0..TSPacketLen
        /\ StartedEnd(n) \in Int
    BY <2>1, <2>2, PacketSizes
  <2>5. rest \in Seq(Byte) /\ room <= Len(rest)
    BY <1>7 DEF FillPacket, IInv, TypeOK
  <2>6. SubSeq(rest, 1, room) \in Seq(Byte) /\ SubSeq(rest, room + 1, Len(rest)) \in Seq(Byte)
    BY <2>4, <2>5, PartOfSection
  <2>7. ts_packet' \in Body
    BY <1>7, <2>2, <2>4, <2>6, WriteProperties DEF FillPacket
  <2>8. rest' \in Seq(Byte) /\ sender_pc' \in {"idle", "more"} /\ wrote_section_start' \in BOOLEAN
    BY <1>7, <2>6, ContinueType DEF FillPacket
  <2>9. QED BY <1>7, <2>4, <2>7, <2>8, CountedType, ClosedIInv DEF FillPacket
<1>8. CASE Flush
  <2>1. /\ payload_end \in Int /\ TSPacketLen - payload_end \in Nat
    BY <1>8, PacketSizes DEF Flush, IInv, TypeOK
  <2>2. ts_packet' \in Body
    BY <1>0, <1>8, <2>1, BytesProperties, WriteProperties DEF Flush
  <2>3. QED BY <1>0, <1>8, <2>2, CountedType, ClosedIInv DEF Flush, IInv, TypeOK
<1>9. ASSUME NEW p \in PIDs, SetPID(p) PROVE IInv'
  BY <1>9 DEF SetPID, IInv, TypeOK, OpenPacketHasRoom, AdaptationInPlace,
              PointerInPlace, Open
<1>10. ASSUME NEW set \in BOOLEAN, OnAdaptationField(set) PROVE IInv'
  BY <1>10 DEF OnAdaptationField, IInv, TypeOK, OpenPacketHasRoom, AdaptationInPlace,
               PointerInPlace, Open
<1>11. CASE UNCHANGED vars
  BY <1>11 DEF vars, IInv, TypeOK, OpenPacketHasRoom, AdaptationInPlace,
               PointerInPlace, Open
<1>12. QED
  BY <1>1, <1>2, <1>3, <1>4, <1>5, <1>6, <1>7, <1>8, <1>9, <1>10, <1>11
     DEF Next, Section, More

\* The invariant of the packet under construction
THEOREM IInvAlways == Spec => []IInv
<1>1. Init => IInv
  BY InitIInv
<1>2. IInv /\ [Next]_vars => IInv'
  BY NextIInv, SenderAssumption
<1>3. QED BY <1>1, <1>2, PTL DEF Spec

\* Every variable keeps its type
THEOREM TypeCorrect == Spec => []TypeOK
<1>1. IInv => TypeOK
  BY DEF IInv
<1>2. QED BY <1>1, IInvAlways, PTL

\* Between calls the open packet has a free byte, so that no copy into it ever
\* passes its end, whatever the sections and the adaptation fields are
THEOREM OpenPacketAlwaysHasRoom == Spec => []OpenPacketHasRoom
<1>1. IInv => OpenPacketHasRoom
  BY DEF IInv
<1>2. QED BY <1>1, IInvAlways, PTL

----------------------------------------------------------------------------
(* where a packet says a section starts *)

\* a packet whose payload, after the adaptation field it announces, begins
\* with a pointer field that stays inside
LEMMA PointsInside ==
  ASSUME NEW body \in Body, NEW start \in 4..TSPacketLen, start < TSPacketLen,
         start > 4 => body[1] = start - 5,
         start + 1 + body[start - 3] < TSPacketLen,
         packet'.afc = PayloadAFC(start), packet'.body = body
  PROVE  PointerInside'
<1>1. FieldLen(packet') + 1 = start - 3
  <2>1. CASE start > 4
    <3>1. packet'.afc # AFC_PAYLOAD
      BY <2>1, PacketSizes DEF PayloadAFC, AFC_PAYLOAD, AFC_ADAPTATION_AND_PAYLOAD
    <3>2. FieldLen(packet') = 1 + (start - 5)
      BY <2>1, <3>1 DEF FieldLen
    <3>3. QED BY <3>2, PacketSizes
  <2>2. CASE ~(start > 4)
    <3>1. start = 4
      BY <2>2, PacketSizes
    <3>2. packet'.afc = AFC_PAYLOAD
      BY <3>1, PacketSizes DEF PayloadAFC
    <3>3. FieldLen(packet') = 0
      BY <3>2 DEF FieldLen
    <3>4. QED BY <3>1, <3>3
  <2>3. QED BY <2>1, <2>2
<1>2. start - 3 \in 1..PayloadLen
  BY PacketSizes
<1>3. body[start - 3] \in Byte
  BY <1>2 DEF Body
<1>4. \A x \in Byte : start + 1 + x < TSPacketLen => (start - 3) + x < PayloadLen
  BY PacketSizes DEF Byte
<1>5. start - 3 <= PayloadLen /\ (start - 3) + body[start - 3] < PayloadLen
  BY <1>2, <1>3, <1>4, PacketSizes
<1>6. QED BY <1>1, <1>5 DEF PointerInside

LEMMA FillOpenPacketPoints ==
  ASSUME IInv, NEW s \in Seq(Byte), FillOpenPacket(s)
  PROVE  PointerInside'
<1>1. /\ Pointed \in Body
      /\ PointedEnd \in (payload_start + 1)..(TSPacketLen - 1)
      /\ payload_start \in 4..TSPacketLen
      /\ payload_start > 4 => Pointed[1] = payload_start - 5
      /\ payload_start + 1 + Pointed[payload_start - 3] <= PointedEnd
  BY PointedProperties DEF FillOpenPacket
<1>2. DEFINE room == TSPacketLen - PointedEnd
<1>3. room \in Int /\ 0 <= room /\ room <= Len(s)
  BY <1>1, PacketSizes DEF FillOpenPacket
<1>4. SubSeq(s, 1, room) \in Seq(Byte)
  BY <1>3, PartOfSection
<1>5. ts_packet' = Write(Pointed, PointedEnd, SubSeq(s, 1, room))
  BY DEF FillOpenPacket
<1>6. /\ ts_packet' \in Body
      /\ payload_start > 4 => ts_packet'[1] = payload_start - 5
      /\ ts_packet'[payload_start - 3] = Pointed[payload_start - 3]
  BY <1>1, <1>4, <1>5, CopiedProperties
<1>7. payload_start - 3 \in 1..PayloadLen
  BY <1>1, PacketSizes
<1>8. \A x \in Byte : x \in Nat
  BY DEF Byte
<1>9. Pointed[payload_start - 3] \in Nat
  BY <1>1, <1>7, <1>8 DEF Body
<1>10. payload_start + 1 + ts_packet'[payload_start - 3] < TSPacketLen
  BY <1>1, <1>6, <1>9, PacketSizes
<1>11. packet'.afc = PayloadAFC(payload_start) /\ packet'.body = ts_packet'
  BY DEF FillOpenPacket, Produce
<1>12. payload_start < TSPacketLen
  BY <1>1, PacketSizes
<1>13. QED BY <1>1, <1>6, <1>10, <1>11, <1>12, PointsInside

LEMMA FillPacketPoints ==
  ASSUME IInv, NEW n \in 0..PayloadLen, FillPacket(n)
  PROVE  PointerInside'
<1>1. PayloadLen - n > 1 /\ n \in Nat
  BY PacketSizes DEF FillPacket
<1>2. /\ Started(n) \in Body
      /\ StartedEnd(n) \in (4 + n)..(5 + n)
      /\ n > 0 => Started(n)[1] = n - 1
      /\ ~wrote_section_start => Started(n)[n + 1] = 0 /\ StartedEnd(n) = 5 + n
  BY <1>1, StartedProperties
<1>3. ~pusi
  BY DEF FillPacket, Adapts, IInv, OpenPacketHasRoom
<1>4. packet'.pusi = ~wrote_section_start
  BY <1>3 DEF FillPacket, Produce, IInv, TypeOK
<1>5. CASE wrote_section_start
  BY <1>4, <1>5 DEF PointerInside
<1>6. CASE ~wrote_section_start
  <2>1. DEFINE room == TSPacketLen - StartedEnd(n)
  <2>2. room \in Int /\ 0 <= room
    BY <1>1, <1>2, PacketSizes
  <2>3. rest \in Seq(Byte) /\ room <= Len(rest)
    BY DEF FillPacket, IInv, TypeOK
  <2>4. SubSeq(rest, 1, room) \in Seq(Byte)
    BY <2>2, <2>3, PartOfSection
  <2>5. 5 + n \in (4 + n + 1)..(TSPacketLen - 1) /\ 4 + n \in 4..TSPacketLen
    BY <1>1, PacketSizes
  <2>6. ts_packet' = Write(Started(n), 5 + n, SubSeq(rest, 1, room))
    BY <1>2, <1>6 DEF FillPacket
  <2>7. /\ ts_packet' \in Body
        /\ 4 + n > 4 => ts_packet'[1] = Started(n)[1]
        /\ ts_packet'[(4 + n) - 3] = Started(n)[(4 + n) - 3]
    BY <1>2, <2>4, <2>5, <2>6, CopiedProperties
  <2>8. (4 + n) - 3 = n + 1 /\ (4 + n > 4 => n > 0 /\ (4 + n) - 5 = n - 1)
    BY <1>1
  <2>9. /\ 4 + n > 4 => ts_packet'[1] = (4 + n) - 5
        /\ ts_packet'[(4 + n) - 3] = 0
    BY <1>2, <1>6, <2>7, <2>8
  <2>10. (4 + n) + 1 + ts_packet'[(4 + n) - 3] < TSPacketLen /\ 4 + n < TSPacketLen
    BY <1>1, <2>9, PacketSizes
  <2>11. packet'.afc = PayloadAFC(4 + n) /\ packet'.body = ts_packet'
    BY PacketSizes DEF FillPacket, Produce
  <2>12. QED BY <2>5, <2>7, <2>9, <2>10, <2>11, PointsInside
<1>7. QED BY <1>5, <1>6

LEMMA FlushPoints ==
  ASSUME IInv, Flush
  PROVE  PointerInside'
<1>1. CASE ~pusi
  BY <1>1 DEF Flush, Produce, PointerInside
<1>2. CASE pusi
  <2>1. /\ payload_start \in 4..TSPacketLen
        /\ payload_end \in payload_start..(TSPacketLen - 1)
        /\ ts_packet \in Body
        /\ payload_start > 4 => ts_packet[1] = payload_start - 5
        /\ payload_start + 1 + ts_packet[payload_start - 3] <= payload_end
    BY <1>2, PacketSizes
       DEF Flush, IInv, TypeOK, OpenPacketHasRoom, AdaptationInPlace, PointerInPlace,
           Open, Body
  <2>2. payload_start - 3 \in 1..PayloadLen
    BY <2>1, PacketSizes
  <2>3. \A x \in Byte : x \in Nat
    BY DEF Byte
  <2>4. ts_packet[payload_start - 3] \in Nat
    BY <2>1, <2>2, <2>3 DEF Body
  <2>5. payload_end \in (payload_start + 1)..(TSPacketLen - 1)
    BY <2>1, <2>4, PacketSizes
  <2>6. Stuffing(TSPacketLen - payload_end) \in Seq(Byte)
    BY <2>1, PacketSizes, BytesProperties
  <2>7. /\ ts_packet' \in Body
        /\ payload_start > 4 => ts_packet'[1] = payload_start - 5
        /\ ts_packet'[payload_start - 3] = ts_packet[payload_start - 3]
    BY <2>1, <2>5, <2>6, CopiedProperties DEF Flush
  <2>8. payload_start + 1 + ts_packet'[payload_start - 3] < TSPacketLen
    BY <2>1, <2>4, <2>7, PacketSizes
  <2>9. payload_start < TSPacketLen
    BY <2>1, PacketSizes
  <2>10. packet'.afc = PayloadAFC(payload_start) /\ packet'.body = ts_packet'
    BY DEF Flush, Produce
  <2>11. QED BY <2>1, <2>7, <2>8, <2>9, <2>10, PointsInside
<1>3. QED BY <1>1, <1>2 DEF IInv, TypeOK

\* A packet that says that a section starts in it says so truly of a byte
\* inside it, however the sections fall on the packets and however much of
\* each packet the adaptation callback takes
THEOREM PointersInside == Spec => []PointerInside
<1>1. Init => PointerInside
  BY DEF Init, PointerInside
<1>2. IInv /\ PointerInside /\ [Next]_vars => PointerInside'
  <2> SUFFICES ASSUME IInv, PointerInside, [Next]_vars
               PROVE  PointerInside'
    OBVIOUS
  <2>1. ASSUME packet' = NoPacket PROVE PointerInside'
    BY <2>1 DEF PointerInside
  <2>2. ASSUME NEW s \in Sections, Section(s) PROVE PointerInside'
    <3>1. CASE PadOpenPacket(s)
      BY <3>1 DEF PadOpenPacket, Produce, PointerInside
    <3>2. CASE FillOpenPacket(s)
      BY <3>2, SenderAssumption, FillOpenPacketPoints
    <3>3. QED BY <2>1, <2>2, <3>1, <3>2 DEF Section, NewPacket, AddToOpenPacket
  <2>3. ASSUME NEW n \in 0..PayloadLen, More(n) PROVE PointerInside'
    <3>1. CASE AdaptationOnly(n)
      BY <3>1 DEF AdaptationOnly, Produce, PointerInside
    <3>2. CASE FillPacket(n)
      BY <3>2, FillPacketPoints
    <3>3. QED BY <2>1, <2>3, <3>1, <3>2 DEF More, EndSection
  <2>4. CASE Flush
    BY <2>4, FlushPoints
  <2>5. ASSUME NEW p \in PIDs, SetPID(p) PROVE PointerInside'
    BY <2>1, <2>5 DEF SetPID
  <2>6. ASSUME NEW set \in BOOLEAN, OnAdaptationField(set) PROVE PointerInside'
    BY <2>1, <2>6 DEF OnAdaptationField
  <2>7. CASE UNCHANGED vars
    BY <2>7 DEF vars, PointerInside
  <2>8. QED BY <2>2, <2>3, <2>4, <2>5, <2>6, <2>7 DEF Next
<1>3. QED BY <1>1, <1>2, IInvAlways, PTL DEF Spec

=============================================================================
