------------------------------- MODULE Sec2Ts -------------------------------
(* sec2ts_impl of src/src/sec2ts.cpp: PSI sections into the transport        *)
(* packets of one PID.  Sections are packed back to back: a packet that a    *)
(* section does not fill stays open for the next one.  section() is one call *)
(* of the program; it is cut here at its label more, where the client's      *)
(* adaptation callback chooses how much of the next packet is left.          *)
EXTENDS TsPackets

CONSTANTS Sections,       \* the sections it is given
          PIDs,           \* the arguments of setPID
          AdaLens         \* what the adaptation callback may return

\* the callback is given the PayloadLen bytes after the header to write to
ASSUME SenderAssumption == /\ Sections \subseteq Seq(Byte)
                           /\ PIDs # {}
                           /\ AdaLens \subseteq 0..PayloadLen

VARIABLES payload_start,  \* 0 when no packet is open
          payload_end,
          ts_packet,      \* the packet under construction, after its header
          pusi,           \* a section starts in the open packet
          sender_cc,      \* cc
          pid,
          adaptation,     \* an adaptation callback is set
          sender_pc,      \* "idle", or "more" inside section()
          rest,           \* section and size: the bytes not yet copied
          wrote_section_start, \* local to section(): FALSE between calls
          packet          \* the argument of the callback this step makes

vars == <<payload_start, payload_end, ts_packet, pusi, sender_cc, pid,
          adaptation, sender_pc, rest, wrote_section_start, packet>>

NoPacket == [pusi |-> FALSE]

Init == /\ payload_start = 0
        /\ payload_end = 0
        /\ ts_packet = [i \in 1..PayloadLen |-> 0]
        /\ pusi = FALSE
        /\ sender_cc = 0
        /\ pid \in PIDs
        /\ adaptation = FALSE
        /\ sender_pc = "idle"
        /\ rest = <<>>
        /\ wrote_section_start = FALSE
        /\ packet = NoPacket

Open == payload_start # 0

----------------------------------------------------------------------------
\* "bytes" copied to the offset "to" of the packet: offset HeaderLen of the
\* packet is ts_packet[1]
Write(body, to, bytes) ==
  [i \in 1..PayloadLen |->
     LET at == i + HeaderLen - to IN
       IF at \in 1..Len(bytes) THEN bytes[at] ELSE body[i]]

Stuffing(n) == [i \in 1..n |-> StuffByte]

\* fix_header and the callback
Produce(start, afc, body) ==
  packet' = [pusi |-> start, afc |-> afc, cc |-> sender_cc, pid |-> pid, body |-> body]

PayloadAFC(from) == IF from > HeaderLen THEN AFC_ADAPTATION_AND_PAYLOAD
                    ELSE AFC_PAYLOAD

\* slips for mutation: the packet stays open; the counter stays, or overflows
CloseNot == pusi' = FALSE /\ UNCHANGED payload_start
CountNothing == UNCHANGED sender_cc
CountBeyond == sender_cc' = sender_cc + 1

\* what follows the callback: the packet is closed and, unless it carried no
\* payload, the counter moves on
Close == payload_start' = 0 /\ pusi' = FALSE
CountPacket == sender_cc' = NextCC(sender_cc)

\* slip for mutation: section() goes on with no bytes left
ContinueAlways(left) == /\ rest' = left
                        /\ sender_pc' = "more"
                        /\ wrote_section_start' = TRUE

\* section() goes on at more while bytes are left; its start is written
Continue(left) == /\ rest' = left
                  /\ sender_pc' = IF left = <<>> THEN "idle" ELSE "more"
                  /\ wrote_section_start' = (left # <<>>)

----------------------------------------------------------------------------
(* setPID, on_adaptation_field: between calls, or from a callback, which in   *)
(* the middle of section() is where sender_pc is "more"                      *)

SetPID(p) == /\ pid' = p
             /\ packet' = NoPacket
             /\ UNCHANGED <<payload_start, payload_end, ts_packet, pusi, sender_cc,
                            adaptation, sender_pc, rest, wrote_section_start>>

OnAdaptationField(set) ==
  /\ adaptation' = set
  /\ packet' = NoPacket
  /\ UNCHANGED <<payload_start, payload_end, ts_packet, pusi, sender_cc, pid,
                 sender_pc, rest, wrote_section_start>>

----------------------------------------------------------------------------
(* section(), up to more *)

\* slip for mutation: the room for the pointer field is not looked at
NoRoomForPointerNever == FALSE

\* the pointer field needs a byte that the open packet may not have
NoRoomForPointer == Open /\ ~pusi /\ payload_end >= TSPacketLen - 1

\* the open packet once it has a pointer field: the section bytes already in
\* it move up to make room
Leftover == SubSeq(ts_packet, payload_start - HeaderLen + 1, payload_end - HeaderLen)
Pointed == IF pusi THEN ts_packet
           ELSE Write(ts_packet, payload_start, <<Len(Leftover)>> \o Leftover)
PointedEnd == IF pusi THEN payload_end ELSE payload_end + 1

NewPacket(s) == /\ sender_pc = "idle"
                /\ ~Open
                /\ rest' = s
                /\ wrote_section_start' = FALSE
                /\ sender_pc' = "more"
                /\ packet' = NoPacket
                /\ UNCHANGED <<payload_start, payload_end, ts_packet, pusi,
                               sender_cc, pid, adaptation>>

PadOpenPacket(s) ==
  /\ sender_pc = "idle"
  /\ NoRoomForPointer
  /\ ts_packet' = Write(ts_packet, TSPacketLen - 1, <<StuffByte>>)
  /\ Produce(FALSE, PayloadAFC(payload_start), ts_packet')
  /\ Close
  /\ CountPacket
  /\ rest' = s
  /\ wrote_section_start' = FALSE
  /\ sender_pc' = "more"
  /\ UNCHANGED <<payload_end, pid, adaptation>>

AddToOpenPacket(s) ==
  /\ sender_pc = "idle"
  /\ Open
  /\ ~NoRoomForPointer
  /\ TSPacketLen - PointedEnd > Len(s)
  /\ ts_packet' = Write(Pointed, PointedEnd, s)
  /\ payload_end' = PointedEnd + Len(s)
  /\ pusi' = TRUE
  /\ packet' = NoPacket
  /\ UNCHANGED <<payload_start, sender_cc, pid, adaptation, sender_pc, rest,
                 wrote_section_start>>

FillOpenPacket(s) ==
  LET room == TSPacketLen - PointedEnd IN
  /\ sender_pc = "idle"
  /\ Open
  /\ ~NoRoomForPointer
  /\ room <= Len(s)
  /\ ts_packet' = Write(Pointed, PointedEnd, SubSeq(s, 1, room))
  /\ payload_end' = TSPacketLen
  /\ Produce(TRUE, PayloadAFC(payload_start), ts_packet')
  /\ Close
  /\ CountPacket
  /\ Continue(SubSeq(s, room + 1, Len(s)))
  /\ UNCHANGED <<pid, adaptation>>

Section(s) == NewPacket(s) \/ PadOpenPacket(s) \/ AddToOpenPacket(s) \/ FillOpenPacket(s)

----------------------------------------------------------------------------
(* section(), from more on: n bytes of adaptation field, then payload *)

AdaptationField(n) == IF n = 0 THEN <<>> ELSE <<n - 1>> \o Stuffing(n - 1)

Adapts(n) == /\ sender_pc = "more"
             /\ IF adaptation THEN n \in AdaLens ELSE n = 0

Started(n) == Write(ts_packet, HeaderLen,
                    AdaptationField(n) \o (IF wrote_section_start THEN <<>> ELSE <<0>>))
StartedEnd(n) == HeaderLen + n + (IF wrote_section_start THEN 0 ELSE 1)

\* no room for payload: the packet goes out without any
AdaptationOnly(n) ==
  /\ Adapts(n)
  /\ TSPacketLen - (HeaderLen + n) <= 1
  /\ ts_packet' = Write(ts_packet, HeaderLen, AdaptationField(n))
  /\ payload_end' = HeaderLen + n
  /\ Produce(TRUE, AFC_ADAPTATION, ts_packet')
  /\ Close
  /\ UNCHANGED <<sender_cc, pid, adaptation, sender_pc, rest, wrote_section_start>>

EndSection(n) ==
  /\ Adapts(n)
  /\ TSPacketLen - (HeaderLen + n) > 1
  /\ TSPacketLen - StartedEnd(n) > Len(rest)
  /\ ts_packet' = Write(Started(n), StartedEnd(n), rest)
  /\ payload_start' = HeaderLen + n
  /\ payload_end' = StartedEnd(n) + Len(rest)
  /\ pusi' = (pusi \/ ~wrote_section_start)
  /\ Continue(<<>>)
  /\ packet' = NoPacket
  /\ UNCHANGED <<sender_cc, pid, adaptation>>

FillPacket(n) ==
  LET room == TSPacketLen - StartedEnd(n) IN
  /\ Adapts(n)
  /\ TSPacketLen - (HeaderLen + n) > 1
  /\ room <= Len(rest)
  /\ ts_packet' = Write(Started(n), StartedEnd(n), SubSeq(rest, 1, room))
  /\ payload_end' = StartedEnd(n)
  /\ Produce(pusi \/ ~wrote_section_start, PayloadAFC(HeaderLen + n), ts_packet')
  /\ Close
  /\ CountPacket
  /\ Continue(SubSeq(rest, room + 1, Len(rest)))
  /\ UNCHANGED <<pid, adaptation>>

More(n) == AdaptationOnly(n) \/ EndSection(n) \/ FillPacket(n)

----------------------------------------------------------------------------
\* flush(): what is left of the open packet is stuffed
Flush == /\ sender_pc = "idle"
         /\ Open
         /\ ts_packet' = Write(ts_packet, payload_end, Stuffing(TSPacketLen - payload_end))
         /\ Produce(pusi, PayloadAFC(payload_start), ts_packet')
         /\ Close
         /\ CountPacket
         /\ UNCHANGED <<payload_end, pid, adaptation, sender_pc, rest,
                        wrote_section_start>>

Next == \/ \E s \in Sections : Section(s)
        \/ \E n \in 0..PayloadLen : More(n)
        \/ Flush
        \/ \E p \in PIDs : SetPID(p)
        \/ \E set \in BOOLEAN : OnAdaptationField(set)

Spec == Init /\ [][Next]_vars

\* section() is a call: once begun it runs on, and the client's callback does
\* not leave packet after packet without room for payload
FairSpec == Spec /\ WF_vars(\E n \in 0..PayloadLen : EndSection(n) \/ FillPacket(n))

----------------------------------------------------------------------------
\* every variable has its type
TypeOK == /\ payload_start \in 0..TSPacketLen
          /\ payload_end \in 0..TSPacketLen
          /\ ts_packet \in [1..PayloadLen -> Byte]
          /\ pusi \in BOOLEAN
          /\ sender_cc \in CC
          /\ pid \in PIDs
          /\ adaptation \in BOOLEAN
          /\ sender_pc \in {"idle", "more"}
          /\ rest \in Seq(Byte)
          /\ wrote_section_start \in BOOLEAN

\* Between calls an open packet has its payload inside it and at least one
\* free byte: every memcpy, memmove and memset of the next call stays in
\* ts_packet, and a packet that is full is never kept
OpenPacketHasRoom ==
  Open => /\ sender_pc = "idle"
          /\ HeaderLen <= payload_start
          /\ payload_start <= payload_end
          /\ payload_end < TSPacketLen

\* Why PointerInside holds: in the open packet the adaptation field announces
\* the payload's place and the pointer field a byte that is already there
AdaptationInPlace ==
  Open /\ payload_start > HeaderLen => ts_packet[1] = payload_start - HeaderLen - 1
PointerInPlace ==
  Open /\ pusi =>
    payload_start + 1 + ts_packet[payload_start - HeaderLen + 1] <= payload_end
IInv == /\ TypeOK
        /\ OpenPacketHasRoom
        /\ AdaptationInPlace
        /\ PointerInPlace
        /\ pusi => Open

FieldLen(pkt) == IF pkt.afc = AFC_PAYLOAD THEN 0 ELSE 1 + pkt.body[1]

\* Where a packet says a section starts, inside it a section starts: the
\* pointer field never leads past the last byte, however little room the
\* adaptation field and the end of the section before have left
PointerInside ==
  packet # NoPacket /\ packet.pusi /\ packet.afc # AFC_ADAPTATION =>
    LET pointer == FieldLen(packet) + 1 IN
      /\ pointer <= PayloadLen
      /\ pointer + packet.body[pointer] < PayloadLen

\* section() comes to its end if the callback now and then leaves two bytes of a
\* packet: each packet takes one byte of the section or more, never none
Returns == sender_pc = "more" ~> sender_pc = "idle"
=============================================================================
