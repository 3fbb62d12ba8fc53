------------------------------ MODULE PsiLink ------------------------------
(* A sec2ts object, a channel that carries its packets, and a psi_extractor  *)
(* object.  The channel is not part of the repository: it keeps the order of *)
(* the packets and may lose or repeat up to MaxDamage of them.               *)
EXTENDS TsPackets, FiniteSets

CONSTANTS SectionsAt,     \* of each call of section(), what it may be given
          MaxSections,    \* how many calls there are
          AdaLens,        \* what the adaptation callback may return
          LimitOfReceiver,\* the argument of psi_extractor::create
          WireBound,      \* packets under way
          MaxDamage,      \* packets lost or repeated
          CanRepeat       \* a channel that also repeats packets

VARIABLES payload_start, payload_end, ts_packet, pusi, sender_cc, pid,
          adaptation, sender_pc, rest, wrote_section_start, packet
VARIABLES state, data, sec_p, cc, callback, pc, section
VARIABLES wire,           \* packets under way
          lost, repeated, \* the numbers of those hit on the way
          submitted,      \* the sections given to section()
          received,       \* the sections given to the callback
          stream,         \* the bytes of those submitted, one after the other
          bounds,         \* section k is stream[bounds[k] + 1 .. bounds[k + 1]]
          sent            \* packet p carries stream[sent[p] + 1 .. sent[p + 1]]

S == INSTANCE Sec2Ts WITH
       Sections <- UNION {SectionsAt[k] : k \in 1..MaxSections}, PIDs <- {0}
X == INSTANCE PsiExtractor WITH RequestedSize <- LimitOfReceiver,
       InputBytes <- Byte, InputAFC <- 0..3, CopyOrders <- {"ascending"}

\* a section that says how long it is, and that the receiver takes
WellFormed(s) == /\ s \in Seq(Byte)
                 /\ HasSection(s)
                 /\ Len(s) = SectionSize(s)
                 /\ Len(s) <= X!MaxSectionSize

ASSUME LinkAssumption ==
  /\ MaxSections \in Nat
  /\ \A k \in 1..MaxSections : \A s \in SectionsAt[k] : WellFormed(s)
  /\ AdaLens \subseteq 0..PayloadLen
  /\ LimitOfReceiver \in Nat /\ LimitOfReceiver >= 2
  /\ WireBound \in Nat \ {0}
  /\ MaxDamage \in Nat

sender == <<payload_start, payload_end, ts_packet, pusi, sender_cc, pid,
            adaptation, sender_pc, rest, wrote_section_start, packet>>
receiver == <<state, data, sec_p, cc, callback, pc, section>>
channel == <<wire, lost, repeated>>
history == <<submitted, received, stream, bounds, sent>>
vars == <<sender, receiver, channel, history>>

Init == /\ S!Init
        /\ X!Init
        /\ wire = <<>>
        /\ lost = {}
        /\ repeated = {}
        /\ submitted = <<>>
        /\ received = <<>>
        /\ stream = <<>>
        /\ bounds = <<0>>
        /\ sent = <<0>>

produced == Len(sent) - 1
gone == produced - Len(wire)    \* packets that are no longer under way

----------------------------------------------------------------------------
(* the sender's side *)

\* a packet handed to the callback goes on the wire, with all that was written
Transmit == /\ IF packet' = S!NoPacket
               THEN UNCHANGED <<wire, sent>>
               ELSE /\ wire' = Append(wire, packet')
                    /\ sent' = Append(sent, Len(stream') - Len(rest'))
            /\ UNCHANGED <<lost, repeated, receiver, received>>

Submit(s) == /\ callback
             /\ Len(wire) < WireBound
             /\ S!Section(s)
             /\ submitted' = Append(submitted, s)
             /\ stream' = stream \o s
             /\ bounds' = Append(bounds, Len(stream'))
             /\ Transmit

SendMore(n) == /\ Len(wire) < WireBound
               /\ S!More(n)
               /\ UNCHANGED <<submitted, stream, bounds>>
               /\ Transmit

Flush == /\ Len(wire) < WireBound
         /\ S!Flush
         /\ UNCHANGED <<submitted, stream, bounds>>
         /\ Transmit

OnAdaptationField(set) == /\ adaptation # set
                          /\ S!OnAdaptationField(set)
                          /\ UNCHANGED <<submitted, stream, bounds>>
                          /\ Transmit

----------------------------------------------------------------------------
(* the receiver's side *)

Connect == /\ ~callback
           /\ X!OnSectionReady(TRUE)
           /\ UNCHANGED <<sender, channel, history>>

Deliver == /\ wire # <<>>
           /\ X!TsPacket(Head(wire))
           /\ wire' = Tail(wire)
           /\ UNCHANGED <<sender, lost, repeated, history>>

ExtractMore == /\ X!MoreSections
               /\ received' = IF section' = <<>> THEN received
                              ELSE Append(received, section')
               /\ UNCHANGED <<sender, channel, submitted, stream, bounds, sent>>

----------------------------------------------------------------------------
(* the channel's faults *)

damaged == lost \cup repeated

CanDamage == /\ wire # <<>>
             /\ Cardinality(damaged) < MaxDamage
             /\ gone + 1 \notin damaged

Lose == /\ CanDamage
        /\ lost' = lost \cup {gone + 1}
        /\ wire' = Tail(wire)
        /\ UNCHANGED <<sender, receiver, repeated, history>>

Repeat == /\ CanRepeat
          /\ CanDamage
          /\ repeated' = repeated \cup {gone + 1}
          /\ X!TsPacket(Head(wire))
          /\ UNCHANGED <<sender, wire, lost, history>>

----------------------------------------------------------------------------
Next == \/ /\ Len(submitted) < MaxSections
           /\ \E s \in SectionsAt[Len(submitted) + 1] : Submit(s)
        \/ \E n \in 0..PayloadLen : SendMore(n)
        \/ Flush
        \/ \E set \in BOOLEAN : OnAdaptationField(set)
        \/ Connect
        \/ Deliver
        \/ ExtractMore
        \/ Lose
        \/ Repeat

Spec == Init /\ [][Next]_vars

\* section() and ts_packet() run to their ends; the channel does not stall
FairSpec == /\ Spec
            /\ WF_vars(\E n \in 0..PayloadLen : SendMore(n))
            /\ WF_vars(Deliver)
            /\ WF_vars(ExtractMore)

----------------------------------------------------------------------------
Settled == wire = <<>> /\ pc = "idle"

\* Over a channel without faults: between packets, an extractor that waits for
\* the rest of a section waits for the very packet the sender sends next
CountersAgree ==
  damaged = {} /\ Settled /\ state = "wait_more" => NextCC(cc) = sender_cc

\* Over a channel without faults: once the last packet has gone out, every
\* section submitted has been received and nothing else has
AllDelivered ==
  damaged = {} /\ Settled /\ sender_pc = "idle" /\ ~S!Open => received = submitted

\* sec2ts and psi_extractor over such a channel are a queue, over one that loses
\* packets a queue that may skip, and over one that repeats them all that is
\* received was submitted
Queue == INSTANCE SectionLink WITH faulty <- damaged # {}, again <- repeated # {}
ImplementsQueue == Queue!Spec

\* When the last section has been submitted all are received in the end, but
\* for those that end in a packet still open, unless a packet was damaged
EventuallyDelivered ==
  Len(submitted) = MaxSections ~> (S!Open \/ damaged # {} \/ received = submitted)

\* Over a channel that loses fewer packets than the counter counts, nothing is
\* received that was not submitted: no splice of two sections, no section
\* begun in the middle of another
NothingForged ==
  \A j \in 1..Len(received) : \E k \in 1..Len(submitted) : received[j] = submitted[k]

\* ... and in the order they were submitted, for sections told apart by their
\* first byte, but for one thing: an extractor that waits for a section takes a
\* packet whatever its counter, so that the sections that start in a packet are
\* received again when it is repeated
StartsIn(k, p) == sent[p] <= bounds[k] /\ bounds[k] < sent[p + 1]
InOrder == \A j \in 1..(Len(received) - 1) :
             LET k == received[j + 1][1] IN
             received[j][1] >= k => \E p \in repeated : StartsIn(k, p)

\* ... and damage is local: a section is received if its own packets and the
\* one before them came through once each
Carries(p, k) == sent[p] < bounds[k + 1] /\ bounds[k] < sent[p + 1]
Harmed(k) == \E d \in damaged : \E p \in {d, d + 1} : p <= produced /\ Carries(p, k)
DamageIsLocal ==
  Settled =>
    \A k \in 1..Len(submitted) :
      bounds[k + 1] <= sent[Len(sent)] /\ ~Harmed(k)
      => \E j \in 1..Len(received) : received[j] = submitted[k]
=============================================================================
