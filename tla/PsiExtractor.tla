---------------------------- MODULE PsiExtractor ----------------------------
(* psi_extractor_impl of src/src/merger.cpp: PSI sections out of the         *)
(* transport packets of one PID.  ts_packet() is one call of the program; it *)
(* is cut here at its label more_sections, which is where the client's       *)
(* callback runs and may call back into the object.                          *)
EXTENDS TsPackets

CONSTANTS RequestedSize,  \* the argument of psi_extractor::create
          InputBytes,     \* bytes the packets fed to it are made of
          InputAFC,       \* adaptation_field_control values they carry
          CopyOrders      \* how memcpy may walk overlapping ranges

ASSUME ExtractorAssumption == /\ RequestedSize \in Nat
                              /\ RequestedSize >= 2
                              /\ InputBytes \subseteq Byte
                              /\ InputAFC \subseteq 0..3
                              /\ CopyOrders \subseteq {"ascending", "descending"}

MaxSectionSize == IF RequestedSize > 4096 THEN 4096 ELSE RequestedSize

VARIABLES state,          \* "wait_start" or "wait_more", between packets
          data,           \* the buffer up to the last byte written
          sec_p,          \* how many bytes of data are already consumed
          cc,             \* continuity counter of the last packet used
          callback,       \* a section_ready callback is set
          pc,             \* "idle", or "more_sections" inside ts_packet
          section         \* the argument of the callback this step makes

vars == <<state, data, sec_p, cc, callback, pc, section>>

data_len == Len(data) - sec_p

Init == /\ state = "wait_start"
        /\ data = <<>>
        /\ sec_p = 0
        /\ cc = 0
        /\ callback = FALSE
        /\ pc = "idle"
        /\ section = <<>>

\* on_section_ready(ctx, callback): between packets or from the callback itself
OnSectionReady(set) == /\ pc = "idle" \/ sec_p > 0
                       /\ callback' = set
                       /\ section' = <<>>
                       /\ UNCHANGED <<state, data, sec_p, cc, pc>>

----------------------------------------------------------------------------
(* ts_packet, up to more_sections *)

\* slips for mutation: no counter, no continuation, the counter of every packet
AcceptsAnyCounter(pkt) == state = "wait_start" => pkt.pusi
AcceptsStartsOnly(pkt) == pkt.pusi
AcceptsInOrderOnly(pkt) == pkt.cc = NextCC(cc) /\ (state = "wait_start" => pkt.pusi)
Accepts(pkt) == IF state = "wait_start" THEN pkt.pusi ELSE pkt.cc = NextCC(cc)

\* slip for mutation: data_len is not zeroed
HeldAlways == data

\* the bytes a packet is appended to: data_len = 0 when a section is to start
Held == IF state = "wait_start" THEN <<>> ELSE data

AdaptLen(pkt) == IF pkt.afc \in {AFC_ADAPTATION, AFC_ADAPTATION_AND_PAYLOAD}
                 THEN 1 + pkt.body[1] ELSE 0

\* slip for mutation: the pointer field is obeyed in mid-section too
PtrLenObeyed(pkt) == IF pkt.pusi THEN 1 + pkt.body[AdaptLen(pkt) + 1] ELSE 0

\* the pointer field is obeyed by the packet that starts a section and
\* stepped over by one that continues it
PtrLen(pkt) == IF ~pkt.pusi THEN 0
               ELSE IF state = "wait_start" THEN 1 + pkt.body[AdaptLen(pkt) + 1]
               ELSE 1

\* with nothing after the adaptation field, the pointer read from past the
\* packet is at least 0 and its own byte is already too many
PayloadInside(pkt) == /\ AdaptLen(pkt) <= PayloadLen
                      /\ pkt.pusi => AdaptLen(pkt) < PayloadLen
                      /\ AdaptLen(pkt) + PtrLen(pkt) <= PayloadLen

Payload(pkt) == SubSeq(pkt.body, AdaptLen(pkt) + PtrLen(pkt) + 1, PayloadLen)

\* no section begins here, or the counter jumps
NotAccepted(pkt) == /\ pc = "idle"
                    /\ ~Accepts(pkt)
                    /\ state' = "wait_start"
                    /\ section' = <<>>
                    /\ UNCHANGED <<data, sec_p, cc, callback, pc>>

NoPayload(pkt) == /\ pc = "idle"
                  /\ Accepts(pkt)
                  /\ ~PayloadInside(pkt)
                  /\ cc' = pkt.cc
                  /\ data' = Held
                  /\ state' = "wait_start"
                  /\ section' = <<>>
                  /\ UNCHANGED <<sec_p, callback, pc>>

AppendPayload(pkt) == /\ pc = "idle"
                      /\ Accepts(pkt)
                      /\ PayloadInside(pkt)
                      /\ cc' = pkt.cc
                      /\ data' = Held \o Payload(pkt)
                      /\ pc' = "more_sections"
                      /\ section' = <<>>
                      /\ UNCHANGED <<state, sec_p, callback>>

TsPacket(pkt) == NotAccepted(pkt) \/ NoPayload(pkt) \/ AppendPayload(pkt)

----------------------------------------------------------------------------
(* the loop at more_sections *)

Rest == SubSeq(data, sec_p + 1, Len(data))

\* slip for mutation: nothing is copied
MovedNothing(order) == SubSeq(data, 1, data_len)

\* memcpy(data, sec_p, data_len).  Ranges that overlap make it undefined: a
\* copy that walks down from the last byte repeats the bytes it wrote first
Moved(order) == IF order = "ascending" \/ sec_p = 0 THEN Rest
                ELSE [i \in 1..data_len |->
                        data[Len(data) - ((data_len - i) % sec_p)]]

\* slips for mutation: padding is not told from a section
EndsHereNever == FALSE
SizeKnownOfPadding == data_len >= 3

EndsHere == data_len >= 1 /\ Rest[1] = StuffByte
SizeKnown == data_len >= 3 /\ ~EndsHere

\* slip for mutation: the read position stays
ReturnInside(next, kept) == /\ state' = next
                            /\ data' = kept
                            /\ pc' = "idle"
                            /\ UNCHANGED <<sec_p, cc, callback>>

\* "goto end" of the loop: data_len bytes of the buffer stay, wanted or not
Return(next, kept) == /\ state' = next
                      /\ data' = kept
                      /\ sec_p' = 0
                      /\ pc' = "idle"
                      /\ UNCHANGED <<cc, callback>>

Reset == Return("wait_start", SubSeq(data, 1, data_len)) /\ section' = <<>>

NoMoreSections == /\ pc = "more_sections"
                  /\ EndsHere
                  /\ Reset

KeepRest == /\ pc = "more_sections"
            /\ ~EndsHere
            /\ SizeKnown => /\ SectionSize(Rest) <= MaxSectionSize
                            /\ data_len < SectionSize(Rest)
            /\ \E order \in CopyOrders : Return("wait_more", Moved(order))
            /\ section' = <<>>

TooLong == /\ pc = "more_sections"
           /\ SizeKnown
           /\ SectionSize(Rest) > MaxSectionSize
           /\ Reset

Complete == /\ SizeKnown
            /\ SectionSize(Rest) <= MaxSectionSize
            /\ data_len >= SectionSize(Rest)

NoCallback == /\ pc = "more_sections"
              /\ Complete
              /\ ~callback
              /\ Reset

\* slips for mutation: section_length alone, or nothing, is stepped over
ConsumedShort == SectionSize(Rest) - 3
ConsumedNothing == 0

Consumed == SectionSize(Rest)

SectionCompleted == /\ pc = "more_sections"
                    /\ Complete
                    /\ callback
                    /\ section' = SubSeq(Rest, 1, SectionSize(Rest))
                    /\ IF data_len > Consumed
                       THEN /\ sec_p' = sec_p + Consumed
                            /\ UNCHANGED <<state, data, cc, callback, pc>>
                       ELSE Return("wait_start", <<>>)

MoreSections == NoMoreSections \/ KeepRest \/ TooLong \/ NoCallback \/ SectionCompleted

----------------------------------------------------------------------------
InputPackets == [pusi : BOOLEAN, afc : InputAFC, cc : CC,
                 body : [1..PayloadLen -> InputBytes]]

Next == \/ \E set \in BOOLEAN : OnSectionReady(set)
        \/ \E pkt \in InputPackets : TsPacket(pkt)
        \/ MoreSections

Spec == Init /\ [][Next]_vars

\* ts_packet is a call: once begun it runs to its end
FairSpec == Spec /\ WF_vars(MoreSections)

----------------------------------------------------------------------------
\* every variable has its type, and what is consumed was written
TypeOK == /\ state \in {"wait_start", "wait_more"}
          /\ data \in Seq(Byte)
          /\ sec_p \in 0..Len(data)
          /\ cc \in CC
          /\ callback \in BOOLEAN
          /\ pc \in {"idle", "more_sections"}
          /\ section \in Seq(Byte)

\* merger.cpp:121 allocates max_section_size + 184 bytes and comments "some
\* additional size may be required for processing": memcpy at line 217 appends
\* a packet to whatever an earlier one left and never checks the room
BufferBound == Len(data) <= MaxSectionSize + PayloadLen

\* Why it holds: between packets sec_p is back at the start of the buffer and
\* what it holds when it waits for more is shorter than a section may be
IInv == /\ TypeOK
        /\ BufferBound
        /\ pc = "idle" => sec_p = 0
        /\ pc = "idle" /\ state = "wait_more" => Len(data) <= MaxSectionSize

\* A section that is whole is handed over by the packet that completes it:
\* what is held between packets is the beginning of one section and no more,
\* it is not padding, and the section it announces is not over the limit
HeldIsUnfinished ==
  pc = "idle" /\ state = "wait_more" =>
    /\ sec_p = 0
    /\ Len(data) > 0 => data[1] # StuffByte
    /\ Len(data) >= 3 => /\ Len(data) < SectionSize(data)
                         /\ SectionSize(data) <= MaxSectionSize

\* What the callback gets is one whole section, sized by its own length field
SectionWellFormed ==
  section # <<>> => /\ HasSection(section)
                    /\ Len(section) = SectionSize(section)
                    /\ Len(section) <= MaxSectionSize

\* every ts_packet call comes to its end
Returns == pc = "more_sections" ~> pc = "idle"

\* merger.cpp:230 "copy rest data to beginning of buffer": the bytes a packet
\* leaves unconsumed are, unaltered, the first bytes of the buffer
RestCopied == [][state' = "wait_more" /\ pc' = "idle" /\ pc = "more_sections"
                   => data' = Rest]_vars

InStep == state = "wait_more" \/ pc = "more_sections"

\* What is promised to the client: the stream is cut at a reset or nowhere
Reassembly == INSTANCE SectionReassembly WITH
                synced <- InStep,
                pending <- IF InStep THEN Rest ELSE <<>>,
                Limit <- MaxSectionSize
ImplementsReassembly == Reassembly!Spec
=============================================================================
